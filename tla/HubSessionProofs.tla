-------------------------- MODULE HubSessionProofs --------------------------
(***************************************************************************)
(* Proofs about HubSession for every set of calls and connects, every      *)
(* lifetime, and every choice of faults, throttles and cancellations.      *)
(***************************************************************************)
EXTENDS HubSession, TLAPS

\* connect() takes no lock and sends no request of its own.
ConnectsOnlyConnect ==
  \A k \in Connects : pc[k] \in {"idle", "connect", "session", "sleep", "done"}

\* An invocation has an outcome exactly when it is over.
OutcomeWhenDone == \A o \in Ops : pc[o] = "done" <=> outcome[o] # "none"

\* Where a call stands with the hub.  Until the hub has answered its request
\* the hub has not carried it out; a 403 says that it has not, a good reply
\* that it has; an abandoned request it has yet to see.
Standing(c) ==
  /\ executed[c] \in {0, 1}
  /\ pc[c] \notin {"reply", "done"} => executed[c] = 0
  /\ c \in late => executed[c] = 0 /\ pc[c] = "done"
  /\ pc[c] = "reply" /\ reply[c].kind = "forbidden" => executed[c] = 0
  /\ pc[c] = "reply" /\ reply[c].kind = "ok" => executed[c] = 1
  /\ outcome[c] = "ok" => executed[c] = 1

Delivery == \A c \in Calls : Standing(c)

IInv ==
  TypeOK /\ OneCallAtATime /\ ConnectsOnlyConnect /\ OutcomeWhenDone /\ Delivery
-----------------------------------------------------------------------------
\* Initially nothing has been asked, answered or carried out.
LEMMA InitIInv == Init => IInv
  BY OpsAssumption, TimeAssumption
     DEF Init, IInv, TypeOK, OneCallAtATime, ConnectsOnlyConnect,
         OutcomeWhenDone, Delivery, Standing, Ops, InCall, Awaits, Outcomes,
         Answers, AllFaults, NoReply, Reply, Unsigned, Signature

-----------------------------------------------------------------------------
USE OpsAssumption, TimeAssumption, FaultsAssumption
    DEF Ops, Awaits, Outcomes, Answers, AllFaults, InCall, Reply, NoReply,
        Signature, Unsigned, sessionVars, hubVars

\* The part of TypeOK about the locals of the invocations.
LocalsOK ==
  /\ lock \in Calls \cup {NoOne}
  /\ pc \in [Ops -> Awaits]
  /\ retry \in [Ops -> BOOLEAN]
  /\ sent \in [Ops -> [token : Nat, secret : Nat]]
  /\ reply \in [Ops -> [kind : Answers, session : Nat, until : 0..MaxClock]]
  /\ outcome \in [Ops -> Outcomes]

\* However an invocation ends, its locals keep their types.
LEMMA LeaveLocals ==
  ASSUME TypeOK, NEW o \in Ops, NEW how \in Outcomes, Leave(o, how)
  PROVE  /\ lock' \in Calls \cup {NoOne}
         /\ pc' \in [Ops -> Awaits]
         /\ retry' \in [Ops -> BOOLEAN]
         /\ reply' \in [Ops -> [kind : Answers, session : Nat,
                                until : 0..MaxClock]]
         /\ outcome' \in [Ops -> Outcomes]
  BY DEF TypeOK, Leave

\* Finish, with which an invocation ends that leaves no request behind.
LEMMA FinishLocals ==
  ASSUME TypeOK, NEW o \in Ops, NEW how \in Outcomes, Finish(o, how)
  PROVE  LocalsOK'
<1>1. Leave(o, how) BY DEF Finish
<1>2. sent' \in [Ops -> [token : Nat, secret : Nat]] BY DEF TypeOK, Finish
<1> QED BY <1>1, <1>2, LeaveLocals DEF LocalsOK

\* Posting keeps them too, whether or not the ClientSession is still open.
LEMMA PostLocals ==
  ASSUME TypeOK, NEW o \in Ops, NEW where \in Awaits, NEW tok \in Nat,
         NEW sec \in Nat, NEW again \in BOOLEAN,
         Post(o, where, Signature(tok, sec), again)
  PROVE  LocalsOK'
<1>1. CASE open
  <2>1. Signature(tok, sec) \in [token : Nat, secret : Nat] OBVIOUS
  <2>2. /\ sent' = [sent EXCEPT ![o] = Signature(tok, sec)]
        /\ pc' = [pc EXCEPT ![o] = where]
        /\ retry' = [retry EXCEPT ![o] = again]
        /\ lock' = IF o \in Calls THEN o ELSE lock
        /\ UNCHANGED <<reply, outcome>>
    BY <1>1, Zenon DEF Post
  <2> QED BY <2>1, <2>2 DEF TypeOK, LocalsOK
<1>2. CASE ~open BY <1>2, FinishLocals DEF Post
<1> QED BY <1>1, <1>2 

\* The POST of _establish_session is one of these.
LEMMA PostConnectLocals ==
  ASSUME TypeOK, NEW o \in Ops, NEW again \in BOOLEAN, PostConnect(o, again)
  PROVE  LocalsOK'
  BY PostLocals DEF PostConnect

\* So is what follows _establish_session: a return or the call's own POST.
LEMMA ProceedLocals ==
  ASSUME TypeOK, NEW o \in Ops, NEW tok \in Nat, NEW sec \in Nat,
         Proceed(o, tok, sec)
  PROVE  LocalsOK'
<1>1. CASE o \in Connects /\ Finish(o, "ok") BY <1>1, FinishLocals
<1>2. CASE o \in Calls /\ Post(o, "call", Signature(tok, sec), retry[o])
  <2>1. retry[o] \in BOOLEAN BY DEF TypeOK
  <2> QED BY <1>2, <2>1, PostLocals
<1> QED BY <1>1, <1>2 DEF Proceed

\* connect() posts without the lock and sends no call.
LEMMA StartConnectIInv ==
  ASSUME IInv, NEW o \in Connects, StartConnect(o)
  PROVE  IInv'
<1>1. TypeOK'
  <2>1. LocalsOK' BY PostConnectLocals DEF IInv, StartConnect
  <2> QED BY <2>1 DEF IInv, TypeOK, LocalsOK, StartConnect
<1>2. OneCallAtATime'
  BY DEF IInv, TypeOK, OneCallAtATime, PostConnect, Post, Finish, Leave, StartConnect
<1>3. ConnectsOnlyConnect'
  BY DEF IInv, TypeOK, ConnectsOnlyConnect, PostConnect, Post, Finish, Leave, StartConnect
<1>4. OutcomeWhenDone'
  BY DEF IInv, TypeOK, OutcomeWhenDone, PostConnect, Post, Finish, Leave, StartConnect
<1>5. Delivery'
  BY DEF IInv, TypeOK, OutcomeWhenDone, Delivery, Standing, PostConnect, Post, Finish, Leave, StartConnect
<1> QED BY <1>1, <1>2, <1>3, <1>4, <1>5 DEF IInv

\* A call that begins to wait for the lock holds nothing yet.
LEMMA StartCallIInv ==
  ASSUME IInv, NEW o \in Calls, StartCall(o)
  PROVE  IInv'
<1>1. TypeOK'
  BY DEF IInv, TypeOK, ConnectsOnlyConnect, StartCall
<1>2. OneCallAtATime'
  BY DEF IInv, TypeOK, OneCallAtATime, StartCall
<1>3. ConnectsOnlyConnect'
  BY DEF IInv, TypeOK, ConnectsOnlyConnect, StartCall
<1>4. OutcomeWhenDone'
  BY DEF IInv, TypeOK, OutcomeWhenDone, StartCall
<1>5. Delivery'
  BY DEF IInv, TypeOK, OutcomeWhenDone, Delivery, Standing, StartCall
<1> QED BY <1>1, <1>2, <1>3, <1>4, <1>5 DEF IInv

\* The call that takes the free lock is the only one inside _call.
LEMMA AcquireIInv ==
  ASSUME IInv, NEW o \in Calls, Acquire(o)
  PROVE  IInv'
<1>1. TypeOK'
  <2>1. LocalsOK'
    BY PostLocals, PostConnectLocals DEF IInv, TypeOK, Acquire
  <2> QED BY <2>1 DEF IInv, TypeOK, LocalsOK, Acquire
<1>2. OneCallAtATime'
  BY DEF IInv, TypeOK, OneCallAtATime, PostConnect, Post, Finish, Leave, Acquire
<1>3. ConnectsOnlyConnect'
  BY DEF IInv, TypeOK, ConnectsOnlyConnect, PostConnect, Post, Finish, Leave, Acquire
<1>4. OutcomeWhenDone'
  BY DEF IInv, TypeOK, OutcomeWhenDone, PostConnect, Post, Finish, Leave, Acquire
<1>5. Delivery'
  BY DEF IInv, TypeOK, OutcomeWhenDone, Delivery, Standing, PostConnect, Post, Finish, Leave, Acquire
<1> QED BY <1>1, <1>2, <1>3, <1>4, <1>5 DEF IInv

\* Storing a granted session, with or without a wait, keeps the lock.
LEMMA HandleGrantIInv ==
  ASSUME IInv, NEW o \in Ops, HandleGrant(o)
  PROVE  IInv'
<1>1. TypeOK'
  <2>1. reply[o].session \in Nat BY DEF IInv, TypeOK
  <2>2. CASE reply[o].until > clock
    BY <2>1, <2>2 DEF IInv, TypeOK, HandleGrant, Store, Proceed
  <2>3. CASE Proceed(o, reply[o].session, reply[o].session)
    <3>1. LocalsOK' BY <2>1, <2>3, ProceedLocals DEF IInv
    <3> QED BY <2>1, <3>1 DEF IInv, TypeOK, LocalsOK, HandleGrant, Store
  <2> QED BY <2>2, <2>3 DEF HandleGrant
<1>2. OneCallAtATime'
  BY DEF IInv, TypeOK, OneCallAtATime, Store, Proceed, Post, Finish, Leave, HandleGrant
<1>3. ConnectsOnlyConnect'
  BY DEF IInv, TypeOK, ConnectsOnlyConnect, Store, Proceed, Post, Finish, Leave, HandleGrant
<1>4. OutcomeWhenDone'
  BY DEF IInv, TypeOK, OutcomeWhenDone, Store, Proceed, Post, Finish, Leave, HandleGrant
<1>5. Delivery'
  BY DEF IInv, TypeOK, OutcomeWhenDone, Delivery, Standing, Store, Proceed, Post, Finish, Leave, HandleGrant
<1> QED BY <1>1, <1>2, <1>3, <1>4, <1>5 DEF IInv

\* So does waking up from the rate limit.
LEMMA WakeIInv ==
  ASSUME IInv, NEW o \in Ops, Wake(o)
  PROVE  IInv'
<1>1. TypeOK'
  <2>1. LocalsOK' BY ProceedLocals DEF IInv, TypeOK, Wake
  <2> QED BY <2>1 DEF IInv, TypeOK, LocalsOK, Wake
<1>2. OneCallAtATime'
  BY DEF IInv, TypeOK, OneCallAtATime, Proceed, Post, Finish, Leave, Wake
<1>3. ConnectsOnlyConnect'
  BY DEF IInv, TypeOK, ConnectsOnlyConnect, Proceed, Post, Finish, Leave, Wake
<1>4. OutcomeWhenDone'
  BY SMTT(30) DEF IInv, TypeOK, OutcomeWhenDone, Proceed, Post, Finish, Leave, Wake
<1>5. Delivery'
  BY DEF IInv, TypeOK, OutcomeWhenDone, Delivery, Standing, Proceed, Post, Finish, Leave, Wake
<1> QED BY <1>1, <1>2, <1>3, <1>4, <1>5 DEF IInv

\* A reply without sessionSecret ends the invocation and frees the lock.
LEMMA HandleNoSecretIInv ==
  ASSUME IInv, NEW o \in Ops, HandleNoSecret(o)
  PROVE  IInv'
<1>1. TypeOK'
  BY DEF IInv, TypeOK, ConnectsOnlyConnect, Store, Finish, Leave, HandleNoSecret
<1>2. OneCallAtATime'
  BY DEF IInv, TypeOK, OneCallAtATime, Store, Finish, Leave, HandleNoSecret
<1>3. ConnectsOnlyConnect'
  BY DEF IInv, TypeOK, ConnectsOnlyConnect, Store, Finish, Leave, HandleNoSecret
<1>4. OutcomeWhenDone'
  BY DEF IInv, TypeOK, OutcomeWhenDone, Store, Finish, Leave, HandleNoSecret
<1>5. Delivery'
  BY DEF IInv, TypeOK, OutcomeWhenDone, Delivery, Standing, Store, Finish, Leave, HandleNoSecret
<1> QED BY <1>1, <1>2, <1>3, <1>4, <1>5 DEF IInv

\* So does an unusable nextAccess.
LEMMA HandleBadLimitIInv ==
  ASSUME IInv, NEW o \in Ops, HandleBadLimit(o)
  PROVE  IInv'
<1>1. TypeOK'
  BY DEF IInv, TypeOK, ConnectsOnlyConnect, Store, Finish, Leave, HandleBadLimit
<1>2. OneCallAtATime'
  BY DEF IInv, TypeOK, OneCallAtATime, Store, Finish, Leave, HandleBadLimit
<1>3. ConnectsOnlyConnect'
  BY DEF IInv, TypeOK, ConnectsOnlyConnect, Store, Finish, Leave, HandleBadLimit
<1>4. OutcomeWhenDone'
  BY DEF IInv, TypeOK, OutcomeWhenDone, Store, Finish, Leave, HandleBadLimit
<1>5. Delivery'
  BY DEF IInv, TypeOK, OutcomeWhenDone, Delivery, Standing, Store, Finish, Leave, HandleBadLimit
<1> QED BY <1>1, <1>2, <1>3, <1>4, <1>5 DEF IInv

\* So does a refused or garbled connect.
LEMMA HandleRefusalIInv ==
  ASSUME IInv, NEW o \in Ops, HandleRefusal(o)
  PROVE  IInv'
<1>1. TypeOK'
  <2>1. LocalsOK' BY FinishLocals DEF IInv, HandleRefusal
  <2> QED BY <2>1 DEF IInv, TypeOK, LocalsOK, HandleRefusal
<1>2. OneCallAtATime'
  BY DEF IInv, TypeOK, OneCallAtATime, Finish, Leave, HandleRefusal
<1>3. ConnectsOnlyConnect'
  BY DEF IInv, TypeOK, ConnectsOnlyConnect, Finish, Leave, HandleRefusal
<1>4. OutcomeWhenDone'
  <2>1. PICK how \in Outcomes \ {"none"} : Finish(o, how) BY DEF HandleRefusal
  <2> QED BY <2>1 DEF IInv, TypeOK, OutcomeWhenDone, Finish, Leave
<1>5. Delivery'
  BY DEF IInv, TypeOK, OutcomeWhenDone, Delivery, Standing, Finish, Leave, HandleRefusal
<1> QED BY <1>1, <1>2, <1>3, <1>4, <1>5 DEF IInv

\* The retry follows a 403 only, and then nothing has been carried out.
LEMMA HandleRejectionIInv ==
  ASSUME IInv, NEW o \in Calls, HandleRejection(o)
  PROVE  IInv'
<1>1. TypeOK'
  <2>1. LocalsOK' BY PostConnectLocals DEF IInv, HandleRejection
  <2> QED BY <2>1 DEF IInv, TypeOK, LocalsOK, HandleRejection, Store
<1>2. OneCallAtATime'
  BY DEF IInv, TypeOK, OneCallAtATime, Store, PostConnect, Post, Finish, Leave, HandleRejection
<1>3. ConnectsOnlyConnect'
  BY DEF IInv, TypeOK, ConnectsOnlyConnect, Store, PostConnect, Post, Finish, Leave, HandleRejection
<1>4. OutcomeWhenDone'
  BY DEF IInv, TypeOK, OutcomeWhenDone, Store, PostConnect, Post, Finish, Leave, HandleRejection
<1>5. Delivery'
  BY DEF IInv, TypeOK, OutcomeWhenDone, Delivery, Standing, Store, PostConnect, Post, Finish, Leave, HandleRejection
<1> QED BY <1>1, <1>2, <1>3, <1>4, <1>5 DEF IInv

\* A call that returns normally has been carried out.
LEMMA HandleReplyIInv ==
  ASSUME IInv, NEW o \in Calls, HandleReply(o)
  PROVE  IInv'
<1>1. TypeOK'
  <2>1. LocalsOK' BY FinishLocals DEF IInv, HandleReply
  <2> QED BY <2>1 DEF IInv, TypeOK, LocalsOK, HandleReply
<1>2. OneCallAtATime'
  BY DEF IInv, TypeOK, OneCallAtATime, Finish, Leave, HandleReply
<1>3. ConnectsOnlyConnect'
  BY DEF IInv, TypeOK, ConnectsOnlyConnect, Finish, Leave, HandleReply
<1>4. OutcomeWhenDone'
  BY SMTT(30) DEF IInv, TypeOK, OutcomeWhenDone, Finish, Leave, HandleReply
<1>5. Delivery'
  BY DEF IInv, TypeOK, OutcomeWhenDone, Delivery, Standing, Finish, Leave, HandleReply
<1> QED BY <1>1, <1>2, <1>3, <1>4, <1>5 DEF IInv

\* Giving up keeps the invariant: a request on its way becomes a late one.
LEMMA AbandonIInv ==
  ASSUME IInv, NEW o \in Ops, NEW how \in Outcomes \ {"none", "ok"},
         pc[o] \notin {"idle", "done"}, Abandon(o, how)
  PROVE  IInv'
<1>1. TypeOK'
  <2>1. CASE pc[o] = "call"
    <3>1. o \in Calls BY <2>1 DEF IInv, ConnectsOnlyConnect
    <3> QED BY <2>1, <3>1, LeaveLocals DEF IInv, TypeOK, Abandon, Finish
  <2>2. CASE pc[o] # "call"
    <3>1. LocalsOK' BY <2>2, FinishLocals DEF IInv, Abandon
    <3> QED BY <2>2, <3>1 DEF IInv, TypeOK, LocalsOK, Abandon
  <2> QED BY <2>1, <2>2
<1>2. OneCallAtATime'
  BY DEF IInv, TypeOK, OneCallAtATime, Abandon, Finish, Leave
<1>3. ConnectsOnlyConnect'
  BY DEF IInv, TypeOK, ConnectsOnlyConnect, Abandon, Finish, Leave
<1>4. OutcomeWhenDone'
  BY DEF IInv, TypeOK, OutcomeWhenDone, Abandon, Finish, Leave
<1>5. Delivery'
  <2> SUFFICES ASSUME NEW c \in Calls PROVE Standing(c)' BY DEF Delivery
  <2>1. CASE c = o
    BY <2>1 DEF IInv, TypeOK, OutcomeWhenDone, Delivery, Standing, Abandon,
                Finish, Leave
  <2>2. CASE c # o
    BY <2>2 DEF IInv, TypeOK, Delivery, Standing, Abandon, Finish, Leave
  <2> QED BY <2>1, <2>2
<1> QED BY <1>1, <1>2, <1>3, <1>4, <1>5 DEF IInv

\* A timeout or a connection error gives up ...
LEMMA NetFailIInv ==
  ASSUME IInv, NEW o \in Ops, NetFail(o)
  PROVE  IInv'
  BY AbandonIInv DEF NetFail

\* ... and so does a cancelled task.
LEMMA CancelIInv ==
  ASSUME IInv, NEW o \in Ops, Cancel(o)
  PROVE  IInv'
  BY AbandonIInv DEF Cancel

\* The hub grants a session, in a reply that may be incomplete.
LEMMA HubGrantIInv ==
  ASSUME IInv, NEW o \in Ops, HubGrant(o)
  PROVE  IInv'
<1>1. TypeOK'
  <2>1. PICK answer \in [kind : Answers, session : Nat, until : 0..MaxClock] :
          /\ Answer(o, "session", answer)
          /\ nextAccess' = answer.until
    <3>1. granted + 1 \in Nat /\ clock \in Nat BY DEF IInv, TypeOK
    <3>2. CASE \E until \in {clock + d : d \in Throttles} :
                 /\ until <= MaxClock
                 /\ nextAccess' = until
                 /\ Answer(o, "session", Reply("granted", granted + 1, until))
      <4>1. PICK until \in {clock + d : d \in Throttles} :
                 /\ until <= MaxClock
                 /\ nextAccess' = until
                 /\ Answer(o, "session", Reply("granted", granted + 1, until))
        BY <3>2
      <4>2. until \in 0..MaxClock BY <3>1, <4>1
      <4> QED BY <3>1, <4>1, <4>2
    <3>3. CASE \E f \in Faults \cap {"noSecret", "badLimit"} :
                 /\ nextAccess' = 0
                 /\ Answer(o, "session", Reply(f, granted + 1, 0))
      BY <3>1, <3>3
    <3> QED BY <3>2, <3>3 DEF HubGrant
  <2> QED BY <2>1 DEF IInv, TypeOK, HubGrant, Answer
<1>2. OneCallAtATime'
  BY DEF IInv, TypeOK, OneCallAtATime, Answer, HubGrant
<1>3. ConnectsOnlyConnect'
  BY DEF IInv, TypeOK, ConnectsOnlyConnect, Answer, HubGrant
<1>4. OutcomeWhenDone'
  BY DEF IInv, TypeOK, OutcomeWhenDone, Answer, HubGrant
<1>5. Delivery'
  BY DEF IInv, TypeOK, OutcomeWhenDone, Delivery, Standing, Answer, HubGrant
<1> QED BY <1>1, <1>2, <1>3, <1>4, <1>5 DEF IInv

\* The hub refuses a session.
LEMMA HubRefuseIInv ==
  ASSUME IInv, NEW o \in Ops, HubRefuse(o)
  PROVE  IInv'
<1>1. TypeOK'
  BY DEF IInv, TypeOK, ConnectsOnlyConnect, Answer, HubRefuse
<1>2. OneCallAtATime'
  BY DEF IInv, TypeOK, OneCallAtATime, Answer, HubRefuse
<1>3. ConnectsOnlyConnect'
  BY DEF IInv, TypeOK, ConnectsOnlyConnect, Answer, HubRefuse
<1>4. OutcomeWhenDone'
  BY DEF IInv, TypeOK, OutcomeWhenDone, Answer, HubRefuse
<1>5. Delivery'
  BY DEF IInv, TypeOK, OutcomeWhenDone, Delivery, Standing, Answer, HubRefuse
<1> QED BY <1>1, <1>2, <1>3, <1>4, <1>5 DEF IInv

\* The hub carries out a request that it had not seen before.
LEMMA HubServeIInv ==
  ASSUME IInv, NEW o \in Calls, HubServe(o)
  PROVE  IInv'
<1>1. TypeOK'
  BY DEF IInv, TypeOK, ConnectsOnlyConnect, Answer, HubServe
<1>2. OneCallAtATime'
  BY DEF IInv, TypeOK, OneCallAtATime, Answer, HubServe
<1>3. ConnectsOnlyConnect'
  BY DEF IInv, TypeOK, ConnectsOnlyConnect, Answer, HubServe
<1>4. OutcomeWhenDone'
  BY DEF IInv, TypeOK, OutcomeWhenDone, Answer, HubServe
<1>5. Delivery'
  BY DEF IInv, TypeOK, OutcomeWhenDone, Delivery, Standing, Answer, HubServe
<1> QED BY <1>1, <1>2, <1>3, <1>4, <1>5 DEF IInv

\* The hub turns a request down without carrying it out.
LEMMA HubRejectIInv ==
  ASSUME IInv, NEW o \in Calls, HubReject(o)
  PROVE  IInv'
<1>1. TypeOK'
  <2>1. PICK k \in Answers : Answer(o, "reply", Reply(k, 0, 0))
    BY DEF HubReject
  <2> QED BY <2>1 DEF IInv, TypeOK, HubReject, Answer
<1>2. OneCallAtATime'
  BY DEF IInv, TypeOK, OneCallAtATime, Answer, HubReject
<1>3. ConnectsOnlyConnect'
  BY DEF IInv, TypeOK, ConnectsOnlyConnect, Answer, HubReject
<1>4. OutcomeWhenDone'
  BY DEF IInv, TypeOK, OutcomeWhenDone, Answer, HubReject
<1>5. Delivery'
  BY DEF IInv, TypeOK, OutcomeWhenDone, Delivery, Standing, Answer, HubReject
<1> QED BY <1>1, <1>2, <1>3, <1>4, <1>5 DEF IInv

\* The hub carries out an abandoned request, once.
LEMMA HubServeLateIInv ==
  ASSUME IInv, NEW o \in Calls, HubServeLate(o)
  PROVE  IInv'
<1>1. TypeOK'
  BY DEF IInv, TypeOK, ConnectsOnlyConnect, HubServeLate
<1>2. OneCallAtATime'
  BY DEF IInv, TypeOK, OneCallAtATime, HubServeLate
<1>3. ConnectsOnlyConnect'
  BY DEF IInv, TypeOK, ConnectsOnlyConnect, HubServeLate
<1>4. OutcomeWhenDone'
  BY DEF IInv, TypeOK, OutcomeWhenDone, HubServeLate
<1>5. Delivery'
  BY DEF IInv, TypeOK, OutcomeWhenDone, Delivery, Standing, HubServeLate
<1> QED BY <1>1, <1>2, <1>3, <1>4, <1>5 DEF IInv

\* Every step preserves the invariant.
LEMMA NextIInv == IInv /\ [Next]_vars => IInv'
<1> SUFFICES ASSUME IInv, [Next]_vars PROVE IInv' OBVIOUS
<1>1. ASSUME NEW o \in Ops, Client(o) PROVE IInv'
  BY <1>1, HandleGrantIInv, WakeIInv, HandleNoSecretIInv, HandleBadLimitIInv,
     HandleRefusalIInv, NetFailIInv, CancelIInv DEF Client, Establish
<1>2. ASSUME NEW o \in Connects, StartConnect(o) PROVE IInv'
  BY <1>2, StartConnectIInv
<1>3. ASSUME NEW c \in Calls, Caller(c) PROVE IInv'
  BY <1>3, StartCallIInv, AcquireIInv, HandleRejectionIInv, HandleReplyIInv
     DEF Caller
<1>4. ASSUME Hub PROVE IInv'
  <2>1. ASSUME NEW s \in live, HubForget(s) PROVE IInv'
    BY <2>1 DEF IInv, TypeOK, OneCallAtATime, ConnectsOnlyConnect,
                OutcomeWhenDone, Delivery, Standing, HubForget
  <2> QED BY <1>4, <2>1, HubGrantIInv, HubRefuseIInv, HubServeIInv,
             HubRejectIInv, HubServeLateIInv DEF Hub
<1>5. CASE Close
  BY <1>5 DEF IInv, TypeOK, OneCallAtATime, ConnectsOnlyConnect,
              OutcomeWhenDone, Delivery, Standing, Close
<1>6. CASE Tick
  BY <1>6 DEF IInv, TypeOK, OneCallAtATime, ConnectsOnlyConnect,
              OutcomeWhenDone, Delivery, Standing, Tick
<1>7. CASE UNCHANGED vars
  BY <1>7 DEF IInv, TypeOK, OneCallAtATime, ConnectsOnlyConnect,
              OutcomeWhenDone, Delivery, Standing, vars
<1> QED BY <1>1, <1>2, <1>3, <1>4, <1>5, <1>6, <1>7 DEF Next, Over

\* The inductive invariant holds in every reachable state.
THEOREM Invariance == Spec => []IInv
  BY InitIInv, NextIInv, PTL DEF Spec

\* Type correctness of the session layer.
THEOREM TypeCorrect == Spec => []TypeOK
<1>1. IInv => TypeOK BY DEF IInv
<1> QED BY <1>1, Invariance, PTL

\* The session lock is held exactly by the call that is between acquiring it
\* and ending: any number of calls, and of unlocked connect()s beside them.
THEOREM MutualExclusion == Spec => []OneCallAtATime
<1>1. IInv => OneCallAtATime BY DEF IInv
<1> QED BY <1>1, Invariance, PTL

\* No interleaving, fault, cancellation, retry or delayed request makes the
\* hub carry out one call's request twice.
THEOREM AtMostOnceExecution == Spec => []ExecutedAtMostOnce
<1>1. ASSUME IInv, NEW c \in Calls PROVE executed[c] <= 1
  <2>1. executed[c] = 0 \/ executed[c] = 1
    BY <1>1 DEF IInv, Delivery, Standing
  <2> QED BY <2>1
<1>2. IInv => ExecutedAtMostOnce BY <1>1 DEF ExecutedAtMostOnce
<1> QED BY <1>2, Invariance, PTL
-----------------------------------------------------------------------------
(* The refinement: what a step means to the callers of AtMostOnce.         *)

USE DEF AMO!vars, Status

\* A step that moves a running invocation to another await is invisible.
LEMMA MovingStutters ==
  ASSUME IInv, NEW o \in Ops, NEW where \in Awaits \ {"idle", "done"},
         pc[o] \notin {"idle", "done"}, pc' = [pc EXCEPT ![o] = where],
         UNCHANGED <<outcome, executed>>
  PROVE  UNCHANGED AMO!vars
  BY DEF IInv, TypeOK

\* So is whatever a connect() does.
LEMMA ConnectStutters ==
  ASSUME IInv, NEW k \in Connects, NEW where, NEW how,
         pc' = [pc EXCEPT ![k] = where], UNCHANGED executed,
         outcome' = outcome \/ outcome' = [outcome EXCEPT ![k] = how]
  PROVE  UNCHANGED AMO!vars
<1>1. \A c \in Calls : pc'[c] = pc[c] /\ outcome'[c] = outcome[c]
  BY DEF IInv, TypeOK
<1> QED BY <1>1

\* An invocation that ends has succeeded or failed, and success is earned.
LEMMA LeavingImplements ==
  ASSUME IInv, NEW o \in Ops, NEW how \in Outcomes \ {"none"},
         pc[o] \notin {"idle", "done"}, Leave(o, how), UNCHANGED executed,
         o \in Calls /\ how = "ok" => executed[o] = 1
  PROVE  [AMO!Next]_(AMO!vars)
<1>1. CASE o \in Connects
  BY <1>1, ConnectStutters DEF Leave
<1>2. CASE o \in Calls
  <2>1. \A c \in Calls : c # o => Status(c)' = Status(c)
    BY DEF IInv, TypeOK, Leave
  <2>2. Status(o) = "pending" OBVIOUS
  <2>3. Status(o)' = IF how = "ok" THEN "ok" ELSE "failed"
    BY <1>2 DEF IInv, TypeOK, Leave
  <2>4. [c \in Calls |-> Status(c)]' =
          [[c \in Calls |-> Status(c)] EXCEPT ![o] = Status(o)']
    BY <1>2, <2>1
  <2>5. CASE how = "ok"
    <3>1. AMO!Succeed(o) BY <1>2, <2>2, <2>3, <2>4, <2>5 DEF AMO!Succeed
    <3> QED BY <1>2, <3>1 DEF AMO!Next
  <2>6. CASE how # "ok"
    <3>1. AMO!Fail(o) BY <1>2, <2>2, <2>3, <2>4, <2>6 DEF AMO!Fail
    <3> QED BY <1>2, <3>1 DEF AMO!Next
  <2> QED BY <2>5, <2>6
<1> QED BY <1>1, <1>2

\* The same for an invocation that leaves no request behind.
LEMMA FinishingImplements ==
  ASSUME IInv, NEW o \in Ops, NEW how \in Outcomes \ {"none"},
         pc[o] \notin {"idle", "done"}, Finish(o, how), UNCHANGED executed,
         o \in Calls /\ how = "ok" => executed[o] = 1
  PROVE  [AMO!Next]_(AMO!vars)
  BY LeavingImplements DEF Finish

\* A POST moves on, or fails because the ClientSession has been closed.
LEMMA PostingImplements ==
  ASSUME IInv, NEW o \in Ops, pc[o] \notin {"idle", "done"}, NEW signature,
         NEW where \in Awaits \ {"idle", "done"}, NEW again,
         Post(o, where, signature, again), UNCHANGED executed
  PROVE  [AMO!Next]_(AMO!vars)
<1>1. CASE open BY <1>1, MovingStutters DEF Post
<1>2. CASE ~open BY <1>2, FinishingImplements DEF Post
<1> QED BY <1>1, <1>2

\* What follows _establish_session is a POST, or the end of a connect().
LEMMA ProceedingImplements ==
  ASSUME IInv, NEW o \in Ops, pc[o] \notin {"idle", "done"}, NEW tok, NEW sec,
         Proceed(o, tok, sec), UNCHANGED executed
  PROVE  [AMO!Next]_(AMO!vars)
<1>1. CASE o \in Connects /\ Finish(o, "ok")
  BY <1>1, FinishingImplements DEF IInv
<1>2. CASE o \in Calls /\ Post(o, "call", Signature(tok, sec), retry[o])
  BY <1>2, PostingImplements
<1> QED BY <1>1, <1>2 DEF Proceed

\* What the hub carries out is a Run of the abstract specification.
LEMMA ExecutingImplements ==
  ASSUME IInv, NEW c \in Calls, executed[c] = 0,
         executed' = [executed EXCEPT ![c] = @ + 1],
         Status(c) \in {"pending", "failed"},
         \A d \in Calls : Status(d)' = Status(d)
  PROVE  [AMO!Next]_(AMO!vars)
<1>1. executed' = [executed EXCEPT ![c] = 1] BY DEF IInv, TypeOK
<1>2. AMO!Run(c) BY <1>1 DEF AMO!Run
<1> QED BY <1>2 DEF AMO!Next

\* Every step of the client is a step or a stutter of the abstract one.
LEMMA ClientImplements ==
  ASSUME IInv, NEW o \in Ops, Client(o)
  PROVE  [AMO!Next]_(AMO!vars)
<1>1. CASE HandleGrant(o)
  <2>1. CASE pc' = [pc EXCEPT ![o] = "sleep"] /\ UNCHANGED outcome
    BY <1>1, <2>1, MovingStutters DEF HandleGrant
  <2>2. CASE Proceed(o, reply[o].session, reply[o].session)
    BY <1>1, <2>2, ProceedingImplements DEF HandleGrant
  <2> QED BY <1>1, <2>1, <2>2 DEF HandleGrant
<1>2. CASE Wake(o) BY <1>2, ProceedingImplements DEF Wake
<1>3. CASE HandleNoSecret(o)
  BY <1>3, FinishingImplements DEF HandleNoSecret
<1>4. CASE HandleBadLimit(o)
  BY <1>4, FinishingImplements DEF HandleBadLimit
<1>5. CASE HandleRefusal(o)
  BY <1>5, FinishingImplements DEF HandleRefusal
<1>6. ASSUME pc[o] \notin {"idle", "done"},
             Abandon(o, "unreachable") \/ Abandon(o, "cancelled")
      PROVE  [AMO!Next]_(AMO!vars)
  <2>1. PICK how \in {"unreachable", "cancelled"} : Leave(o, how)
    BY <1>6 DEF Abandon, Finish
  <2>2. UNCHANGED executed BY <1>6 DEF Abandon
  <2> QED BY <1>6, <2>1, <2>2, LeavingImplements
<1>7. CASE NetFail(o) BY <1>6, <1>7 DEF NetFail
<1>8. CASE Cancel(o) BY <1>6, <1>8 DEF Cancel
<1> QED BY <1>1, <1>2, <1>3, <1>4, <1>5, <1>7, <1>8 DEF Client, Establish

\* So is every step of _call proper.
LEMMA CallerImplements ==
  ASSUME IInv, NEW c \in Calls, Caller(c)
  PROVE  [AMO!Next]_(AMO!vars)
<1>1. CASE StartCall(c)
  <2>1. [d \in Calls |-> Status(d)]' =
          [[d \in Calls |-> Status(d)] EXCEPT ![c] = "pending"]
    BY <1>1 DEF IInv, TypeOK, StartCall
  <2>2. AMO!Issue(c) BY <1>1, <2>1 DEF AMO!Issue, StartCall
  <2> QED BY <2>2 DEF AMO!Next
<1>2. CASE Acquire(c)
  BY <1>2, PostingImplements DEF Acquire, PostConnect
<1>3. CASE HandleRejection(c)
  BY <1>3, PostingImplements DEF HandleRejection, PostConnect
<1>4. CASE HandleReply(c)
  <2>1. reply[c].kind = "ok" => executed[c] = 1
    BY <1>4 DEF IInv, Delivery, Standing, HandleReply
  <2> QED BY <1>4, <2>1, FinishingImplements DEF HandleReply
<1> QED BY <1>1, <1>2, <1>3, <1>4 DEF Caller

\* So is every step of the hub.
LEMMA HubImplements ==
  ASSUME IInv, Hub
  PROVE  [AMO!Next]_(AMO!vars)
<1>1. ASSUME NEW o \in Ops, HubGrant(o) \/ HubRefuse(o)
      PROVE  [AMO!Next]_(AMO!vars)
  BY <1>1, MovingStutters DEF HubGrant, HubRefuse, Answer
<1>2. ASSUME NEW c \in Calls, HubServe(c)
      PROVE  [AMO!Next]_(AMO!vars)
  <2>1. executed[c] = 0 BY <1>2 DEF IInv, Delivery, Standing, HubServe
  <2>2. pc' = [pc EXCEPT ![c] = "reply"] /\ UNCHANGED outcome
    BY <1>2 DEF HubServe, Answer
  <2>3. \A d \in Calls : Status(d)' = Status(d)
    BY <1>2, <2>2 DEF IInv, TypeOK, HubServe
  <2> QED BY <1>2, <2>1, <2>3, ExecutingImplements DEF HubServe
<1>3. ASSUME NEW c \in Calls, HubReject(c)
      PROVE  [AMO!Next]_(AMO!vars)
  BY <1>3, MovingStutters DEF HubReject, Answer
<1>4. ASSUME NEW c \in Calls, HubServeLate(c)
      PROVE  [AMO!Next]_(AMO!vars)
  <2>1. executed[c] = 0 /\ Status(c) = "failed"
    BY <1>4 DEF IInv, Delivery, Standing, HubServeLate
  <2>2. \A d \in Calls : Status(d)' = Status(d) BY <1>4 DEF HubServeLate
  <2> QED BY <1>4, <2>1, <2>2, ExecutingImplements DEF HubServeLate
<1>5. ASSUME NEW s \in live, HubForget(s)
      PROVE  [AMO!Next]_(AMO!vars)
  BY <1>5 DEF HubForget
<1> QED BY <1>1, <1>2, <1>3, <1>4, <1>5 DEF Hub

\* Every step of the session layer is one of AtMostOnce or a stutter.
LEMMA NextImplements ==
  IInv /\ [Next]_vars => [AMO!Next]_(AMO!vars)
<1> SUFFICES ASSUME IInv, [Next]_vars PROVE [AMO!Next]_(AMO!vars) OBVIOUS
<1>1. ASSUME NEW k \in Connects, StartConnect(k)
      PROVE  [AMO!Next]_(AMO!vars)
  BY <1>1, ConnectStutters DEF StartConnect, PostConnect, Post, Finish, Leave
<1>2. CASE Close \/ Tick \/ Over \/ UNCHANGED vars
  BY <1>2 DEF Close, Tick, Over, vars
<1> QED BY <1>1, <1>2, ClientImplements, CallerImplements, HubImplements
        DEF Next

\* The session layer implements AtMostOnce: whatever sessions, faults, retries
\* and interleavings lie beneath, a caller sees a request that ran at most once
\* and that did run if the call returned normally.
THEOREM Refinement == Spec => ImplementsAtMostOnce
<1>1. Init => AMO!Init
  BY DEF Init, AMO!Init
<1> QED BY <1>1, NextImplements, Invariance, PTL
        DEF Spec, AMO!Spec, ImplementsAtMostOnce
=============================================================================
