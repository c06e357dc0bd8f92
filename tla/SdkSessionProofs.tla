-------------------------- MODULE SdkSessionProofs --------------------------
(***************************************************************************)
(* Proofs about SdkSession for any calls, grants, delays and margins.      *)
(***************************************************************************)
EXTENDS SdkSession, SequenceTheorems, TLAPS

\* The awaits, and those within the two exchanges.
Awaits == {"idle", "authInfo", "auth", "authReply", "info", "message", "reply",
           "done"}
InInfo == {"authInfo", "info"}
InMessage == {"auth", "authReply", "message", "reply"}

\* No exchange has outlasted its bound.
WithinBounds ==
  \A c \in Calls :
    /\ began[c] <= clock
    /\ pc[c] \in InInfo => clock - began[c] <= InfoDelay
    /\ pc[c] \in InMessage => clock - began[c] <= MessageDelay

\* The hub's clock was read within one exchange of sending the message.
StampedLate ==
  \A c \in Calls :
    pc[c] \in InMessage /\ stamp[c] # LocalTime => began[c] - stamp[c] <= InfoDelay

\* A call that gets to its message has a key that the hub granted.
KeyGranted ==
  \A c \in Calls :
    /\ pc[c] \in {"info", "message"} => using[c] # 0
    /\ pc[c] = "authReply" /\ reply[c].kind = "key" => reply[c].key # 0

\* A command is carried out when its message is served, or late once the call
\* has been given up on, and never both.
ServedOnce ==
  \A c \in Calls :
    /\ executed[c] \in {0, 1}
    /\ pc[c] \notin {"reply", "done"} => executed[c] = 0
    /\ pc[c] = "reply" /\ reply[c].kind = "ok" => executed[c] = 1
    /\ pc[c] = "done" /\ outcome[c] = "ok" => executed[c] = 1
    /\ pc[c] # "done" => outcome[c] = "none"
LateOnce ==
  \A m \in late :
    /\ pc[m.call] = "done" /\ outcome[m.call] # "ok"
    /\ executed[m.call] = 0
    /\ \A n \in late : n.call = m.call => n = m

\* Until when a key is used at the latest is counted from its grant: the answer
\* that brings it is handled within one exchange, and cached for its lifetime.
Deadline(k) == grants[k].at + Lifetime(grants[k].read)
KeyLasts == key # 0 => expiresAt <= Deadline(key) + MessageDelay
CallLasts(c) ==
  /\ pc[c] = "authReply" /\ reply[c].kind = "key" =>
       /\ reply[c].expiresIn = grants[reply[c].key].read
       /\ began[c] <= grants[reply[c].key].at
  /\ pc[c] = "info" => began[c] < Deadline(using[c]) + MessageDelay
  /\ pc[c] = "message" => began[c] < Deadline(using[c]) + MessageDelay + InfoDelay
GrantLasts == KeyLasts /\ \A c \in Calls : CallLasts(c)

IInv ==
  /\ TypeOK /\ WithinBounds /\ StampedLate /\ KeyGranted /\ ServedOnce /\ LateOnce
  /\ GrantLasts
-----------------------------------------------------------------------------
USE NumbersAssumption, HistoriesAssumption
    DEF clientVars, hubVars, Awaits, InInfo, InMessage

Replies(n) ==
  [kind : {"none", "key", "ok", "rejected", "undecodable"}, key : 0..n,
   expiresIn : Nat]

\* The constants are numbers.
LEMMA Numbers ==
  /\ Margin \in Nat /\ Floor \in Nat /\ Floor > 0 /\ DefaultExpiry \in Nat
  /\ InfoDelay \in Nat /\ MessageDelay \in Nat /\ MaxClock \in Nat
  OBVIOUS

\* A key is cached for some time.
LEMMA LifetimeIsNat ==
  ASSUME NEW read \in Nat
  PROVE  Lifetime(read) \in Nat /\ Lifetime(read) > 0
<1>1. read - Margin \in Int /\ Floor \in Nat /\ Floor > 0
  BY Numbers
<1>. QED  BY <1>1 DEF Lifetime, Larger

\* What the hub grants, it grants at some time, for some time.
Grant == [at : Nat, expiresIn : Nat, read : Nat]
LEMMA GrantTime ==
  ASSUME TypeOK, NEW k \in 0..Len(grants), k # 0
  PROVE  /\ k \in DOMAIN grants /\ grants[k] \in Grant
         /\ Deadline(k) \in Nat /\ grants[k].at < Deadline(k)
<1>1. k \in DOMAIN grants /\ grants[k] \in Grant
  <2>1. grants \in Seq(Grant)
    BY DEF TypeOK, Grant
  <2>. QED  BY <2>1, ElementOfSeq, LenProperties, SMTT(30)
<1>2. grants[k].at \in Nat /\ grants[k].read \in Nat
  BY <1>1 DEF Grant
<1>3. Lifetime(grants[k].read) \in Nat /\ Lifetime(grants[k].read) > 0
  BY <1>2, LifetimeIsNat
<1>. QED  BY <1>1, <1>2, <1>3 DEF Deadline

\* At first there is nothing.
LEMMA InitIInv == Init => IInv
<1>. SUFFICES ASSUME Init PROVE IInv
  OBVIOUS
<1>. USE DEF Init
<1>1. TypeOK
  <2>1. grants \in Seq(Grant) /\ Len(grants) = 0
    BY EmptySeq
  <2>2. NoAnswer \in Replies(0)
    BY DEF NoAnswer, Answer, Replies
  <2>3. open \in BOOLEAN /\ userId \in BOOLEAN
    BY Zenon
  <2>4. clock \in 0..MaxClock /\ key \in 0..Len(grants) /\ expiresAt \in Nat
    BY <2>1
  <2>5. /\ began \in [Calls -> 0..MaxClock]
        /\ stamp \in [Calls -> {LocalTime} \cup 0..clock]
    OBVIOUS
  <2>6. /\ using \in [Calls -> 0..Len(grants)]
        /\ reply \in [Calls -> Replies(Len(grants))]
    BY <2>1, <2>2
  <2>7. /\ pc \in [Calls -> Awaits] /\ executed \in [Calls -> Nat]
        /\ outcome \in [Calls -> {"none", "ok", "auth", "command", "broken"}]
    OBVIOUS
  <2>8. forgotten \subseteq DOMAIN grants
        /\ late \subseteq [call : Calls, key : 1..Len(grants)]
    OBVIOUS
  <2>. QED  BY <2>1, <2>3, <2>4, <2>5, <2>6, <2>7, <2>8 DEF TypeOK, Replies, Grant
<1>2. WithinBounds /\ StampedLate /\ KeyGranted
  BY DEF WithinBounds, StampedLate, KeyGranted
<1>3. ServedOnce /\ LateOnce
  BY DEF ServedOnce, LateOnce
<1>4. GrantLasts
  BY DEF GrantLasts, KeyLasts, CallLasts
<1>. QED  BY <1>1, <1>2, <1>3, <1>4 DEF IInv
-----------------------------------------------------------------------------
(* The three things that can happen to a call.                             *)

\* It ends: with "ok" only if its command has been carried out; and it may
\* leave its message behind if that has not been answered.
LEMMA FinishKeeps ==
  ASSUME IInv, NEW c \in Calls, NEW how \in {"ok", "auth", "command", "broken"},
         pc[c] # "done", Finish(c, how),
         how = "ok" => executed[c] = 1,
         key' \in 0..Len(grants), expiresAt' \in Nat,
         KeyLasts',
         UNCHANGED <<clock, userId, open, grants, forgotten, executed>>,
         \/ UNCHANGED late
         \/ /\ pc[c] = "message" /\ how # "ok"
            /\ late' = late \cup {[call |-> c, key |-> using[c]]}
  PROVE  IInv'
<1>. USE DEF IInv, Finish
<1>1. TypeOK'
  <2>1. NoAnswer \in Replies(Len(grants))
    BY DEF TypeOK, NoAnswer, Answer, Replies
  <2>2. reply' \in [Calls -> Replies(Len(grants))]
    BY <2>1 DEF TypeOK, Replies
  <2>3. /\ pc' \in [Calls -> Awaits]
        /\ outcome' \in [Calls -> {"none", "ok", "auth", "command", "broken"}]
    BY DEF TypeOK
  <2>4. began' \in [Calls -> 0..MaxClock] /\ using' \in [Calls -> 0..Len(grants)]
    BY SMTT(30) DEF TypeOK
  <2>5. stamp' \in [Calls -> {LocalTime} \cup 0..clock]
    BY DEF TypeOK
  <2>6. late' \subseteq [call : Calls, key : 1..Len(grants)]
    BY SMTT(30) DEF TypeOK, KeyGranted
  <2>. QED  BY <2>2, <2>3, <2>4, <2>5, <2>6 DEF TypeOK, Replies
<1>2. WithinBounds' /\ StampedLate' /\ KeyGranted'
  BY SMTT(30) DEF TypeOK, WithinBounds, StampedLate, KeyGranted
<1>3. ServedOnce'
  BY DEF TypeOK, ServedOnce
<1>4. LateOnce'
  <2>1. CASE UNCHANGED late
    BY <2>1 DEF TypeOK, LateOnce
  <2>2. CASE /\ pc[c] = "message" /\ how # "ok"
             /\ late' = late \cup {[call |-> c, key |-> using[c]]}
    <3>1. /\ \A m \in late : m.call # c
          /\ executed[c] = 0
      BY <2>2 DEF LateOnce, ServedOnce
    <3>2. /\ pc'[c] = "done" /\ outcome'[c] = how
          /\ \A d \in Calls \ {c} : pc'[d] = pc[d] /\ outcome'[d] = outcome[d]
      BY DEF TypeOK
    <3>3. \A m \in late : m.call \in Calls
      BY DEF TypeOK
    <3>. HIDE DEF Finish
    <3>. QED  BY <2>2, <3>1, <3>2, <3>3 DEF LateOnce
  <2>. QED  BY <2>1, <2>2
<1>5. ASSUME NEW d \in Calls PROVE CallLasts(d)'
  BY DEF TypeOK, GrantLasts, CallLasts, Deadline
<1>. QED  BY <1>1, <1>2, <1>3, <1>4, <1>5 DEF GrantLasts

\* It posts its next request, with a key that will do and a recent stamp; or it
\* ends, because the ClientSession is closed.
LEMMA PostKeeps ==
  ASSUME IInv, NEW c \in Calls, NEW where \in {"authInfo", "auth", "info", "message"},
         NEW time \in {LocalTime} \cup 0..clock, NEW k \in 0..Len(grants),
         pc[c] \notin {"reply", "done"}, Post(c, where, time, k),
         where \in {"info", "message"} => k # 0,
         where \in InMessage /\ time # LocalTime => clock - time <= InfoDelay,
         where = "info" => clock < Deadline(k) + MessageDelay,
         where = "message" => clock < Deadline(k) + MessageDelay + InfoDelay,
         key' \in 0..Len(grants), expiresAt' \in Nat,
         KeyLasts',
         UNCHANGED <<clock, userId, open, hubVars>>
  PROVE  IInv'
<1>. USE DEF IInv
<1>1. CASE open
  <2>. USE <1>1 DEF Post
  <2>0. /\ pc' = [pc EXCEPT ![c] = where]
        /\ began' = [began EXCEPT ![c] = clock]
        /\ stamp' = [stamp EXCEPT ![c] = time]
        /\ using' = [using EXCEPT ![c] = k]
        /\ reply' = [reply EXCEPT ![c] = NoAnswer]
        /\ UNCHANGED outcome
    BY Zenon
  <2>. HIDE DEF Post
  <2>1. TypeOK'
    <3>1. NoAnswer \in Replies(Len(grants))
      BY DEF TypeOK, NoAnswer, Answer, Replies
    <3>2. reply' \in [Calls -> Replies(Len(grants))]
      BY <2>0, <3>1 DEF TypeOK, Replies
    <3>3. pc' \in [Calls -> Awaits]
      BY <2>0 DEF TypeOK
    <3>4. began' \in [Calls -> 0..MaxClock] /\ using' \in [Calls -> 0..Len(grants)]
      BY <2>0 DEF TypeOK
    <3>5. stamp' \in [Calls -> {LocalTime} \cup 0..clock]
      BY <2>0 DEF TypeOK
    <3>. QED  BY <2>0, <3>2, <3>3, <3>4, <3>5 DEF TypeOK, Replies
  <2>2. WithinBounds'
    BY <2>0 DEF TypeOK, WithinBounds
  <2>3. KeyGranted'
    BY <2>0 DEF TypeOK, KeyGranted, NoAnswer, Answer
  <2>4. StampedLate'
    BY <2>0 DEF TypeOK, StampedLate
  <2>5. ServedOnce'
    BY <2>0 DEF TypeOK, ServedOnce
  <2>6. LateOnce'
    BY <2>0 DEF TypeOK, LateOnce
  <2>7. ASSUME NEW d \in Calls PROVE CallLasts(d)'
    BY <2>0 DEF TypeOK, GrantLasts, CallLasts, Deadline
  <2>. QED  BY <2>1, <2>2, <2>3, <2>4, <2>5, <2>6, <2>7 DEF GrantLasts
<1>2. CASE ~open
  <2>1. Finish(c, "broken")
    BY <1>2 DEF Post
  <2>. QED  BY <2>1, FinishKeeps
<1>. QED  BY <1>1, <1>2

\* It is answered, with success only if the command has just been carried out.
LEMMA RespondKeeps ==
  ASSUME IInv, NEW c \in Calls, NEW where \in {"authReply", "reply"},
         pc[c] = IF where = "reply" THEN "message" ELSE "auth",
         NEW answer \in Replies(Len(grants)), answer.kind # "key",
         answer.kind = "ok" => executed'[c] = 1,
         Respond(c, where, answer),
         \/ UNCHANGED executed
         \/ where = "reply" /\ executed' = [executed EXCEPT ![c] = @ + 1],
         UNCHANGED <<grants, forgotten>>
  PROVE  IInv'
<1>. USE DEF IInv, Respond
<1>1. /\ executed' \in [Calls -> Nat]
      /\ \A d \in Calls \ {c} : executed'[d] = executed[d]
      /\ where # "reply" => executed'[c] = executed[c]
      /\ executed'[c] \in {0, 1}
  <2>1. executed[c] = 0
    BY DEF ServedOnce
  <2>2. CASE UNCHANGED executed
    BY <2>1, <2>2 DEF TypeOK
  <2>3. CASE where = "reply" /\ executed' = [executed EXCEPT ![c] = @ + 1]
    BY <2>1, <2>3 DEF TypeOK
  <2>. QED  BY <2>2, <2>3
<1>2. TypeOK'
  <2>1. reply' \in [Calls -> Replies(Len(grants))]
    BY DEF TypeOK, Replies
  <2>2. pc' \in [Calls -> Awaits]
    BY DEF TypeOK
  <2>3. /\ using' \in [Calls -> 0..Len(grants)]
        /\ stamp' \in [Calls -> {LocalTime} \cup 0..clock]
    BY DEF TypeOK
  <2>. QED  BY <1>1, <2>1, <2>2, <2>3 DEF TypeOK, Replies
<1>3. WithinBounds' /\ StampedLate' /\ KeyGranted'
  BY DEF TypeOK, WithinBounds, StampedLate, KeyGranted
<1>4. ServedOnce'
  <2>1. /\ pc[c] \notin {"reply", "done"} /\ outcome' = outcome
        /\ pc' = [pc EXCEPT ![c] = where]
        /\ reply' = [reply EXCEPT ![c] = answer]
    OBVIOUS
  <2>2. \A d \in Calls \ {c} :
          pc'[d] = pc[d] /\ reply'[d] = reply[d] /\ executed'[d] = executed[d]
    BY <1>1, <2>1 DEF TypeOK
  <2>3. pc'[c] = where /\ reply'[c] = answer
    BY <2>1 DEF TypeOK
  <2>. QED  BY <1>1, <2>1, <2>2, <2>3 DEF ServedOnce
<1>5. LateOnce'
  BY <1>1 DEF TypeOK, LateOnce
<1>6. GrantLasts'
  BY DEF TypeOK, GrantLasts, KeyLasts, CallLasts, Deadline
<1>. QED  BY <1>2, <1>3, <1>4, <1>5, <1>6
-----------------------------------------------------------------------------
(* The client's steps.                                                     *)

\* What the client caches is left as it is by most of its steps.
LEMMA CacheKept ==
  ASSUME IInv, UNCHANGED <<key, expiresAt, grants>>
  PROVE  /\ key' \in 0..Len(grants) /\ expiresAt' \in Nat
         /\ KeyLasts'
  BY DEF IInv, TypeOK, GrantLasts, KeyLasts, Deadline

\* get_notification_history, Garbled replies, refused and failed calls.
LEMMA EndingsKeep ==
  ASSUME IInv, NEW c \in Calls,
         \/ HistoryRefused(c) \/ Garbled(c) \/ HandleNoAuth(c) \/ HandleReply(c)
         \/ NetFail(c)
  PROVE  IInv'
<1>1. CASE HistoryRefused(c) \/ Garbled(c) \/ HandleNoAuth(c)
  <2>1. UNCHANGED <<clock, clientVars, hubVars>> /\ pc[c] # "done"
    BY <1>1 DEF HistoryRefused, Garbled, HandleNoAuth
  <2>2. Finish(c, "auth") \/ Finish(c, "broken")
    BY <1>1 DEF HistoryRefused, Garbled, HandleNoAuth
  <2>. QED  BY <2>1, <2>2, CacheKept, FinishKeeps
<1>2. CASE HandleReply(c)
  <2>1. UNCHANGED <<clock, clientVars, hubVars>> /\ pc[c] = "reply"
    BY <1>2 DEF HandleReply
  <2>2. \/ Finish(c, "ok") /\ reply[c].kind = "ok"
        \/ Finish(c, "command")
    BY <1>2 DEF HandleReply
  <2>3. reply[c].kind = "ok" => executed[c] = 1
    BY <2>1 DEF IInv, ServedOnce
  <2>. QED  BY <2>1, <2>2, <2>3, CacheKept, FinishKeeps
<1>3. CASE NetFail(c)
  <2>1. /\ UNCHANGED <<clock, clientVars, grants, forgotten, executed>>
        /\ pc[c] # "done"
    BY <1>3 DEF NetFail
  <2>2. \/ (Finish(c, "auth") \/ Finish(c, "command")) /\ UNCHANGED late
        \/ /\ Finish(c, "command") /\ pc[c] = "message"
           /\ late' = late \cup {[call |-> c, key |-> using[c]]}
    BY <1>3 DEF NetFail
  <2>. QED  BY <2>1, <2>2, CacheKept, FinishKeeps
<1>. QED  BY <1>1, <1>2, <1>3

\* A call starts: a cached key that has not expired locally outlasts it.
LEMMA StartKeeps == ASSUME IInv, NEW c \in Calls, Start(c) PROVE IInv'
<1>1. UNCHANGED <<clock, clientVars, hubVars>> /\ pc[c] = "idle"
  BY DEF Start
<1>2. LocalTime \in {LocalTime} \cup 0..clock /\ key \in 0..Len(grants)
  BY DEF IInv, TypeOK
<1>3. CASE key # 0 /\ clock < expiresAt /\ PostInfo(c, "info", key)
  <2>1. clock < Deadline(key) + MessageDelay
    <3>1. expiresAt <= Deadline(key) + MessageDelay /\ Deadline(key) \in Nat
      BY <1>2, <1>3, GrantTime DEF IInv, GrantLasts, KeyLasts
    <3>2. clock \in Nat /\ expiresAt \in Nat
      BY DEF IInv, TypeOK
    <3>. QED  BY <1>3, <3>1, <3>2, Numbers
  <2>. QED  BY <1>1, <1>2, <1>3, <2>1, CacheKept, PostKeeps DEF PostInfo
<1>4. CASE PostInfo(c, "authInfo", 0)
  <2>1. 0 \in 0..Len(grants)
    BY DEF IInv, TypeOK
  <2>. QED  BY <1>1, <1>2, <1>4, <2>1, CacheKept, PostKeeps DEF PostInfo
<1>. QED  BY <1>3, <1>4 DEF Start

\* The hub's clock is read: within the bound of the exchange.
LEMMA StampKeeps == ASSUME IInv, NEW c \in Calls, Stamp(c) PROVE IInv'
<1>1. UNCHANGED <<clock, clientVars, hubVars>>
  BY DEF Stamp
<1>2. PICK time \in began[c]..clock \cup {LocalTime} :
        \/ pc[c] = "authInfo" /\ Post(c, "auth", time, 0)
        \/ pc[c] = "info" /\ Post(c, "message", time, using[c])
  BY DEF Stamp
<1>3. /\ clock - began[c] <= InfoDelay
      /\ time \in {LocalTime} \cup 0..clock
      /\ time # LocalTime => clock - time <= InfoDelay
  BY <1>2, SMTT(30) DEF IInv, TypeOK, WithinBounds
<1>4. CASE pc[c] = "authInfo" /\ Post(c, "auth", time, 0)
  <2>1. 0 \in 0..Len(grants)
    BY DEF IInv, TypeOK
  <2>. QED  BY <1>1, <1>3, <1>4, <2>1, CacheKept, PostKeeps
<1>5. CASE pc[c] = "info" /\ Post(c, "message", time, using[c])
  <2>1. using[c] \in 0..Len(grants) /\ using[c] # 0
    BY <1>5 DEF IInv, TypeOK, KeyGranted
  <2>2. clock < Deadline(using[c]) + MessageDelay + InfoDelay
    <3>1. /\ began[c] < Deadline(using[c]) + MessageDelay
          /\ Deadline(using[c]) \in Nat
      BY <1>5, <2>1, GrantTime DEF IInv, GrantLasts, CallLasts
    <3>2. clock \in Nat /\ began[c] \in Nat
      BY DEF IInv, TypeOK
    <3>. QED  BY <1>3, <3>1, <3>2, Numbers
  <2>. QED  BY <1>1, <1>3, <1>5, <2>1, <2>2, CacheKept, PostKeeps
<1>. QED  BY <1>2, <1>4, <1>5

\* A new key is cached within one exchange of its grant.
LEMMA HandleAuthKeeps == ASSUME IInv, NEW c \in Calls, HandleAuth(c) PROVE IInv'
<1> DEFINE k == reply[c].key
           lifetime == Lifetime(reply[c].expiresIn)
<1>1. /\ pc[c] = "authReply" /\ reply[c].kind = "key"
      /\ key' = k /\ expiresAt' = clock + lifetime
      /\ PostInfo(c, "info", k)
      /\ UNCHANGED <<clock, userId, open, hubVars>>
  BY DEF HandleAuth
<1>2. /\ k \in 0..Len(grants) /\ k # 0 /\ reply[c].expiresIn \in Nat
      /\ LocalTime \in {LocalTime} \cup 0..clock
      /\ clock \in Nat /\ began[c] \in Nat /\ clock - began[c] <= MessageDelay
  BY <1>1 DEF IInv, TypeOK, KeyGranted, WithinBounds
<1>3. lifetime \in Nat /\ lifetime > 0
  BY <1>2, LifetimeIsNat
<1>4. /\ grants[k] \in Grant /\ Deadline(k) = grants[k].at + lifetime
      /\ began[c] <= grants[k].at
  BY <1>1, <1>2, GrantTime DEF IInv, GrantLasts, CallLasts, Deadline
<1> HIDE DEF k, lifetime
<1>5. /\ clock + lifetime <= Deadline(k) + MessageDelay
      /\ clock < Deadline(k) + MessageDelay
  <2>1. grants[k].at \in Nat
    BY <1>4 DEF Grant
  <2>. QED  BY <1>2, <1>3, <1>4, <2>1, Numbers
<1>6. expiresAt' \in Nat
  BY <1>1, <1>2, <1>3
<1>7. KeyLasts'
  BY <1>1, <1>5 DEF KeyLasts, Deadline
<1>. QED  BY <1>1, <1>2, <1>5, <1>6, <1>7, PostKeeps DEF PostInfo

\* Closing the ClientSession keeps what is cached.
LEMMA CloseKeeps == ASSUME IInv, Close PROVE IInv'
<1>. USE DEF IInv, Close
<1>1. TypeOK'
  BY DEF TypeOK
<1>2. (WithinBounds /\ StampedLate /\ KeyGranted /\ ServedOnce /\ LateOnce)'
  BY DEF WithinBounds, StampedLate, KeyGranted, ServedOnce, LateOnce
<1>3. GrantLasts'
  BY DEF GrantLasts, KeyLasts, CallLasts, Deadline
<1>. QED  BY <1>1, <1>2, <1>3
-----------------------------------------------------------------------------
(* The hub's steps, and time.                                              *)

\* A grant leaves those before it as they are, and lasts for what was granted.
LEMMA HubAuthKeeps == ASSUME IInv, NEW c \in Calls, HubAuth(c) PROVE IInv'
<1>. USE DEF IInv
<1>a. PICK e \in Grants : \E read \in Readings(e) :
        /\ grants' = Append(grants, [at |-> clock, expiresIn |-> e, read |-> read])
        /\ \/ Respond(c, "authReply", Answer("key", Len(grants'), read))
           \/ Respond(c, "authReply", Undecodable)
  BY DEF HubAuth
<1>1. PICK read \in Readings(e) :
        /\ grants' = Append(grants, [at |-> clock, expiresIn |-> e, read |-> read])
        /\ \/ Respond(c, "authReply", Answer("key", Len(grants'), read))
           \/ Respond(c, "authReply", Undecodable)
  BY <1>a
<1> DEFINE n == Len(grants) + 1
           grant == [at |-> clock, expiresIn |-> e, read |-> read]
<1>0. e \in Nat /\ read \in Nat /\ clock \in Nat /\ grant \in Grant
  BY DEF Readings, TypeOK, Grant
<1>2. /\ grants' \in Seq(Grant) /\ Len(grants) \in Nat /\ Len(grants') = n
      /\ DOMAIN grants = 1..Len(grants) /\ DOMAIN grants' = 1..n
      /\ \A k \in 1..Len(grants) : grants'[k] = grants[k]
      /\ grants'[n] = grant
  <2>1. grants \in Seq(Grant)
    BY DEF TypeOK, Grant
  <2>2. grants' = Append(grants, grant)
    BY <1>1
  <2>. HIDE DEF grant
  <2>. QED  BY <1>0, <2>1, <2>2, AppendProperties, LenProperties, SMTT(30)
<1>3. PICK answer \in Replies(n) :
        /\ Respond(c, "authReply", answer)
        /\ answer.kind \in {"key", "undecodable"}
        /\ answer.kind = "key" => answer.key = n /\ answer.expiresIn = read
  <2>1. Answer("key", n, read) \in Replies(n) /\ Undecodable \in Replies(n)
    BY <1>0, <1>2 DEF Answer, Undecodable, Replies
  <2>2. CASE Respond(c, "authReply", Answer("key", Len(grants'), read))
    <3>1. Answer("key", n, read).kind = "key" /\ Answer("key", n, read).key = n
          /\ Answer("key", n, read).expiresIn = read
      BY DEF Answer
    <3>. QED  BY <1>2, <2>1, <2>2, <3>1
  <2>3. CASE Respond(c, "authReply", Undecodable)
    <3>1. Undecodable.kind = "undecodable"
      BY DEF Answer, Undecodable
    <3>. QED  BY <2>1, <2>3, <3>1
  <2>. QED  BY <1>1, <2>2, <2>3
<1>. USE DEF Respond
<1>4. pc[c] = "auth" /\ UNCHANGED <<clock, clientVars, began, outcome, late,
                                    forgotten, executed>>
  BY <1>3 DEF HubAuth
<1>5. /\ pc' = [pc EXCEPT ![c] = "authReply"]
      /\ reply' = [reply EXCEPT ![c] = answer]
      /\ stamp' = [stamp EXCEPT ![c] = LocalTime]
      /\ using' = [using EXCEPT ![c] = 0]
  BY <1>3
<1>. HIDE DEF Respond
<1>6. TypeOK'
  <2>1. reply' \in [Calls -> Replies(n)]
    <3>1. reply \in [Calls -> Replies(n)]
      <4>1. reply \in [Calls -> Replies(Len(grants))]
        BY DEF TypeOK, Replies
      <4>2. Replies(Len(grants)) \subseteq Replies(n)
        BY <1>2, SMTT(30) DEF Replies
      <4>. QED  BY <4>1, <4>2
    <3>. QED  BY <1>5, <3>1
  <2>2. pc' \in [Calls -> Awaits]
    BY <1>5 DEF TypeOK
  <2>3. late' \subseteq [call : Calls, key : 1..n]
    BY <1>2, <1>4, SMTT(30) DEF TypeOK
  <2>4. using' \in [Calls -> 0..n] /\ key' \in 0..n
    <3>1. using \in [Calls -> 0..Len(grants)] /\ key \in 0..Len(grants)
      BY DEF TypeOK
    <3>2. 0..Len(grants) \subseteq 0..n
      BY <1>2
    <3>. QED  BY <1>2, <1>4, <1>5, <3>1, <3>2
  <2>5. forgotten' \subseteq DOMAIN grants' /\ executed' \in [Calls -> Nat]
    <3>1. forgotten \subseteq DOMAIN grants /\ executed \in [Calls -> Nat]
      BY DEF TypeOK
    <3>. QED  BY <1>2, <1>4, <3>1, SMTT(30)
  <2>6. stamp' \in [Calls -> {LocalTime} \cup 0..clock]
    BY <1>5 DEF TypeOK
  <2>. QED  BY <1>2, <1>4, <2>1, <2>2, <2>3, <2>4, <2>5, <2>6
            DEF TypeOK, Replies, Grant
<1>7. WithinBounds' /\ StampedLate'
  BY <1>4, <1>5 DEF TypeOK, WithinBounds, StampedLate
<1>8. KeyGranted'
  <2>1. /\ pc'[c] = "authReply" /\ reply'[c] = answer
        /\ \A d \in Calls \ {c} :
             pc'[d] = pc[d] /\ reply'[d] = reply[d] /\ using'[d] = using[d]
    BY <1>5 DEF TypeOK
  <2>2. answer.kind = "key" => answer.key # 0
    BY <1>2, <1>3
  <2>. QED  BY <1>4, <2>1, <2>2 DEF KeyGranted
<1>9. ServedOnce' /\ LateOnce'
  BY <1>4, <1>5 DEF TypeOK, ServedOnce, LateOnce
<1>10. GrantLasts'
  <2>1. KeyLasts'
    <3>1. key \in 0..Len(grants)
      BY DEF TypeOK
    <3>. QED  BY <1>2, <1>4, <3>1 DEF GrantLasts, KeyLasts, Deadline
  <2>2. ASSUME NEW d \in Calls \ {c} PROVE CallLasts(d)'
    <3>1. pc'[d] = pc[d] /\ reply'[d] = reply[d] /\ using'[d] = using[d]
          /\ UNCHANGED began
      BY <1>4, <1>5 DEF TypeOK
    <3>2. CallLasts(d)
      BY DEF GrantLasts
    <3>3. pc[d] = "authReply" /\ reply[d].kind = "key" =>
            grants'[reply[d].key] = grants[reply[d].key]
      <4>1. reply[d].key \in 0..Len(grants)
        BY DEF TypeOK
      <4>. QED  BY <1>2, <4>1, SMTT(30) DEF KeyGranted
    <3>4. pc[d] \in {"info", "message"} => grants'[using[d]] = grants[using[d]]
      <4>1. using[d] \in 0..Len(grants)
        BY DEF TypeOK
      <4>. QED  BY <1>2, <4>1, SMTT(30) DEF KeyGranted
    <3>. QED  BY <3>1, <3>2, <3>3, <3>4 DEF CallLasts, Deadline
  <2>3. CallLasts(c)'
    <3>1. began[c] <= clock
      BY DEF WithinBounds
    <3>2. pc'[c] = "authReply" /\ reply'[c] = answer
      BY <1>5 DEF TypeOK
    <3>. QED  BY <1>2, <1>3, <1>4, <3>1, <3>2 DEF CallLasts
  <2>. QED  BY <2>1, <2>2, <2>3 DEF GrantLasts
<1>. QED  BY <1>6, <1>7, <1>8, <1>9, <1>10

\* The other answers: the command is carried out if and only if it is served.
LEMMA AnswersKeep ==
  ASSUME IInv, NEW c \in Calls,
         HubRefuse(c) \/ HubServe(c) \/ HubDistrust(c) \/ HubInvalid(c)
  PROVE  IInv'
<1>1. \A kind \in {"ok", "rejected", "undecodable"} :
        Answer(kind, 0, 0) \in Replies(Len(grants)) /\ Answer(kind, 0, 0).kind = kind
  BY DEF IInv, TypeOK, Answer, Replies
<1>2. CASE HubServe(c)
  <2>1. /\ pc[c] = "message" /\ UNCHANGED <<grants, forgotten>>
        /\ executed' = [executed EXCEPT ![c] = @ + 1]
    BY <1>2 DEF HubServe
  <2>2. PICK kind \in {"ok", "rejected", "undecodable"} :
          Respond(c, "reply", Answer(kind, 0, 0))
    BY <1>2, Zenon DEF HubServe, Undecodable
  <2>3. executed'[c] = 1
    <3>1. executed[c] = 0
      BY <2>1 DEF IInv, ServedOnce
    <3>. QED  BY <2>1, <3>1 DEF IInv, TypeOK
  <2>. QED  BY <1>1, <2>1, <2>2, <2>3, RespondKeeps
<1>3. CASE HubRefuse(c)
  BY <1>1, <1>3, RespondKeeps DEF HubRefuse
<1>4. CASE HubDistrust(c) \/ HubInvalid(c)
  <2>1. /\ pc[c] = "message" /\ UNCHANGED <<grants, forgotten, executed>>
        /\ \/ Respond(c, "reply", Answer("rejected", 0, 0))
           \/ Respond(c, "reply", Answer("undecodable", 0, 0))
    BY <1>4 DEF HubDistrust, HubInvalid, Undecodable
  <2>. QED  BY <1>1, <2>1, RespondKeeps
<1>. QED  BY <1>2, <1>3, <1>4

\* A message that was given up on is carried out once and is gone.
LEMMA HubServeLateKeeps == ASSUME IInv, NEW c \in Calls, HubServeLate(c) PROVE IInv'
<1>. USE DEF IInv
<1>1. PICK m \in late : m.call = c /\ late' = late \ {m}
  BY DEF HubServeLate
<1>2. /\ executed' = [executed EXCEPT ![c] = @ + 1]
      /\ UNCHANGED <<clock, clientVars, pc, began, using, stamp, reply, outcome,
                     grants, forgotten>>
  BY DEF HubServeLate
<1>3. /\ pc[c] = "done" /\ outcome[c] # "ok" /\ executed[c] = 0
      /\ \A l \in late' : l.call # c
  BY <1>1 DEF LateOnce
<1>4. /\ executed' \in [Calls -> Nat] /\ executed'[c] = 1
      /\ \A d \in Calls \ {c} : executed'[d] = executed[d]
  BY <1>2, <1>3 DEF TypeOK
<1>5. TypeOK'
  BY <1>1, <1>2, <1>4 DEF TypeOK
<1>6. WithinBounds' /\ StampedLate' /\ KeyGranted'
  BY <1>2 DEF WithinBounds, StampedLate, KeyGranted
<1>7. ServedOnce'
  BY <1>2, <1>3, <1>4 DEF ServedOnce
<1>8. LateOnce'
  BY <1>1, <1>2, <1>3, <1>4, SMTT(30) DEF LateOnce, TypeOK
<1>9. GrantLasts'
  BY <1>2 DEF GrantLasts, KeyLasts, CallLasts, Deadline
<1>. QED  BY <1>5, <1>6, <1>7, <1>8, <1>9

\* What the hub forgets, the client does not know.
LEMMA HubForgetKeeps ==
  ASSUME IInv, NEW k \in DOMAIN grants, HubForget(k)
  PROVE  IInv'
<1>. USE DEF IInv, HubForget
<1>1. TypeOK'
  BY DEF TypeOK
<1>2. (WithinBounds /\ StampedLate /\ KeyGranted /\ ServedOnce /\ LateOnce)'
  BY DEF WithinBounds, StampedLate, KeyGranted, ServedOnce, LateOnce
<1>3. GrantLasts'
  BY DEF GrantLasts, KeyLasts, CallLasts, Deadline
<1>. QED  BY <1>1, <1>2, <1>3

\* Time passes while every exchange is within its bound.
LEMMA TickKeeps == ASSUME IInv, Tick PROVE IInv'
<1>. USE DEF IInv, Tick
<1>1. TypeOK'
  <2>1. clock' \in 0..MaxClock /\ clock \in Nat /\ clock' = clock + 1
    BY DEF TypeOK
  <2>2. stamp' \in [Calls -> {LocalTime} \cup 0..clock']
    BY <2>1, SMTT(30) DEF TypeOK
  <2>. QED  BY <2>1, <2>2 DEF TypeOK
<1>2. WithinBounds'
  BY SMTT(30) DEF TypeOK, WithinBounds
<1>3. (StampedLate /\ KeyGranted /\ ServedOnce /\ LateOnce)'
  BY DEF StampedLate, KeyGranted, ServedOnce, LateOnce
<1>4. GrantLasts'
  BY DEF GrantLasts, KeyLasts, CallLasts, Deadline
<1>. QED  BY <1>1, <1>2, <1>3, <1>4

\* Stuttering keeps everything.
LEMMA StutterKeeps == ASSUME IInv, UNCHANGED vars PROVE IInv'
<1>. USE DEF IInv, vars
<1>1. TypeOK'
  BY DEF TypeOK
<1>2. (WithinBounds /\ StampedLate /\ KeyGranted /\ ServedOnce /\ LateOnce)'
  BY DEF WithinBounds, StampedLate, KeyGranted, ServedOnce, LateOnce
<1>3. GrantLasts'
  BY DEF GrantLasts, KeyLasts, CallLasts, Deadline
<1>. QED  BY <1>1, <1>2, <1>3

\* Every step keeps the invariant.
LEMMA NextKeeps == IInv /\ [Next]_vars => IInv'
<1>. SUFFICES ASSUME IInv, [Next]_vars PROVE IInv'
  OBVIOUS
<1>1. ASSUME NEW c \in Calls,
             \/ Start(c) \/ HistoryRefused(c) \/ Stamp(c) \/ Garbled(c)
             \/ HandleAuth(c) \/ HandleNoAuth(c) \/ HandleReply(c) \/ NetFail(c)
      PROVE  IInv'
  BY <1>1, EndingsKeep, StartKeeps, StampKeeps, HandleAuthKeeps
<1>2. ASSUME NEW c \in Calls,
             \/ HubAuth(c) \/ HubRefuse(c) \/ HubServe(c) \/ HubDistrust(c)
             \/ HubInvalid(c) \/ HubServeLate(c)
      PROVE  IInv'
  BY <1>2, HubAuthKeeps, AnswersKeep, HubServeLateKeeps
<1>3. ASSUME NEW k \in DOMAIN grants, HubForget(k) PROVE IInv'
  BY <1>3, HubForgetKeeps
<1>. QED  BY <1>1, <1>2, <1>3, CloseKeeps, TickKeeps, StutterKeeps DEF Next, Over
-----------------------------------------------------------------------------
(* The theorems.                                                           *)

\* The invariant holds in every state SdkClient's calls get into.
THEOREM Invariance == Spec => []IInv
  BY InitIInv, NextKeeps, PTL DEF Spec

\* Every variable keeps to the values of its kind.
THEOREM TypeCorrect == Spec => []TypeOK
<1>1. IInv => TypeOK
  BY DEF IInv
<1>. QED  BY <1>1, Invariance, PTL

\* No message carries a time stamp of the hub's that is older than two exchanges
\* (fetch_hub_timestamp, try_signing_keys), whatever the delays.
THEOREM StampsAreFresh == Spec => []StampFresh
<1>1. IInv => StampFresh
  <2>. SUFFICES ASSUME IInv, NEW c \in Calls, pc[c] \in {"auth", "message"},
                       stamp[c] # LocalTime
                PROVE  clock - stamp[c] <= InfoDelay + MessageDelay
    BY DEF StampFresh
  <2>1. clock \in Nat /\ began[c] \in Nat /\ stamp[c] \in Nat
    BY DEF IInv, TypeOK
  <2>2. clock - began[c] <= MessageDelay /\ began[c] - stamp[c] <= InfoDelay
    BY DEF IInv, WithinBounds, StampedLate
  <2>. QED  BY <2>1, <2>2
<1>. QED  BY <1>1, Invariance, PTL

\* How long a request can race against the expiry of its key, in every
\* interleaving, for any margin, floor, timeouts and grants: it is over within the
\* key's cached lifetime, two sdk/message exchanges and one sdk/info, counted from
\* the grant.
THEOREM OverrunsBounded == Spec => []OverrunBounded
<1>1. IInv => OverrunBounded
  <2>. SUFFICES ASSUME IInv, NEW c \in Calls, pc[c] = "message"
                PROVE  clock < Deadline(using[c]) + 2 * MessageDelay + InfoDelay
    BY DEF OverrunBounded, Deadline
  <2>1. /\ clock - began[c] <= MessageDelay
        /\ clock \in Nat /\ began[c] \in Nat
        /\ using[c] \in 0..Len(grants) /\ using[c] # 0
    BY DEF IInv, TypeOK, WithinBounds, KeyGranted
  <2>2. began[c] < Deadline(using[c]) + MessageDelay + InfoDelay
    BY DEF IInv, GrantLasts, CallLasts
  <2>3. Deadline(using[c]) \in Nat
    BY <2>1, GrantTime DEF IInv
  <2>. QED  BY <2>1, <2>2, <2>3, Numbers
<1>. QED  BY <1>1, Invariance, PTL
-----------------------------------------------------------------------------
(* Refinement.                                                             *)

USE DEF AMO!vars, Status

\* What a step of the client may do to the status of a call.
LEMMA FinishRefines ==
  ASSUME IInv, NEW c \in Calls, NEW how \in {"ok", "auth", "command", "broken"},
         pc[c] # "done", Finish(c, how),
         how = "ok" => executed[c] = 1 /\ pc[c] # "idle",
         UNCHANGED executed
  PROVE  AMO!Next
<1>. USE DEF IInv, Finish
<1>1. /\ pc'[c] = "done" /\ outcome'[c] = how
      /\ \A d \in Calls \ {c} : pc'[d] = pc[d] /\ outcome'[d] = outcome[d]
  BY DEF TypeOK
<1>2. [d \in Calls |-> Status(d)]' =
        [[d \in Calls |-> Status(d)] EXCEPT ![c] = IF how = "ok" THEN "ok" ELSE "failed"]
  BY <1>1
<1>3. CASE how = "ok"
  <2>1. AMO!Succeed(c)
    BY <1>2, <1>3 DEF AMO!Succeed
  <2>. QED  BY <2>1 DEF AMO!Next
<1>4. CASE how # "ok"
  <2>1. AMO!Fail(c)
    BY <1>2, <1>4 DEF AMO!Fail
  <2>. QED  BY <2>1 DEF AMO!Next
<1>. QED  BY <1>3, <1>4

\* A call that goes on from one await to the next says nothing to its caller.
LEMMA QuietStep ==
  ASSUME UNCHANGED <<executed, outcome>>,
         pc' = pc \/ \E c \in Calls, where \in Awaits \ {"idle", "done"} :
                       /\ pc[c] \notin {"idle", "done"}
                       /\ pc' = [pc EXCEPT ![c] = where],
         IInv
  PROVE  UNCHANGED AMO!vars
<1>1. CASE pc' = pc
  BY <1>1
<1>2. ASSUME NEW c \in Calls, NEW where \in Awaits \ {"idle", "done"},
             pc[c] \notin {"idle", "done"}, pc' = [pc EXCEPT ![c] = where]
      PROVE  UNCHANGED AMO!vars
  <2>1. ASSUME NEW d \in Calls PROVE Status(d)' = Status(d)
    BY <1>2 DEF IInv, TypeOK
  <2>. QED  BY <2>1
<1>. QED  BY <1>1, <1>2

\* A call is asked for, or fails at once because the ClientSession is closed.
LEMMA StartRefines == ASSUME IInv, NEW c \in Calls, Start(c) PROVE AMO!Next
<1>1. /\ UNCHANGED executed /\ pc[c] = "idle"
      /\ PostInfo(c, "info", key) \/ PostInfo(c, "authInfo", 0)
  BY DEF Start
<1>2. CASE open
  <2>1. PICK where \in {"info", "authInfo"} :
          pc' = [pc EXCEPT ![c] = where] /\ UNCHANGED outcome
    BY <1>1, <1>2 DEF PostInfo, Post
  <2>2. /\ pc'[c] = where
        /\ \A d \in Calls \ {c} : pc'[d] = pc[d]
    BY <2>1 DEF IInv, TypeOK
  <2>3. [d \in Calls |-> Status(d)]' =
          [[d \in Calls |-> Status(d)] EXCEPT ![c] = "pending"]
    BY <2>1, <2>2
  <2>4. AMO!Issue(c)
    BY <1>1, <2>3 DEF AMO!Issue
  <2>. QED  BY <2>4 DEF AMO!Next
<1>3. CASE ~open
  <2>1. Finish(c, "broken")
    BY <1>1, <1>3 DEF PostInfo, Post
  <2>. QED  BY <1>1, <2>1, FinishRefines
<1>. QED  BY <1>2, <1>3

\* The other requests of a call are nothing to its caller.
LEMMA StampRefines ==
  ASSUME IInv, NEW c \in Calls, Stamp(c) \/ HandleAuth(c)
  PROVE  AMO!Next \/ UNCHANGED AMO!vars
<1>1. /\ UNCHANGED executed /\ pc[c] \in {"authInfo", "info", "authReply"}
      /\ \E time, k : \E where \in {"auth", "message", "info"} :
           Post(c, where, time, k)
  BY DEF Stamp, HandleAuth, PostInfo
<1>2. CASE open
  <2>1. PICK where \in {"auth", "message", "info"} :
          pc' = [pc EXCEPT ![c] = where] /\ UNCHANGED outcome
    BY <1>1, <1>2 DEF Post
  <2>. QED  BY <1>1, <2>1, QuietStep
<1>3. CASE ~open
  <2>1. Finish(c, "broken")
    BY <1>1, <1>3 DEF Post
  <2>. QED  BY <1>1, <2>1, FinishRefines
<1>. QED  BY <1>2, <1>3

\* What ends a call is its failure, or its success once it has run.
LEMMA EndingsRefine ==
  ASSUME IInv, NEW c \in Calls,
         \/ HistoryRefused(c) \/ Garbled(c) \/ HandleNoAuth(c) \/ HandleReply(c)
         \/ NetFail(c)
  PROVE  AMO!Next
<1>1. CASE HandleReply(c)
  <2>1. UNCHANGED executed /\ pc[c] = "reply"
    BY <1>1 DEF HandleReply
  <2>2. \/ Finish(c, "ok") /\ reply[c].kind = "ok"
        \/ Finish(c, "command")
    BY <1>1 DEF HandleReply
  <2>3. reply[c].kind = "ok" => executed[c] = 1
    BY <2>1 DEF IInv, ServedOnce
  <2>. QED  BY <2>1, <2>2, <2>3, FinishRefines
<1>2. CASE HistoryRefused(c) \/ Garbled(c) \/ HandleNoAuth(c) \/ NetFail(c)
  <2>1. UNCHANGED executed /\ pc[c] # "done"
    BY <1>2 DEF HistoryRefused, Garbled, HandleNoAuth, NetFail
  <2>2. \/ Finish(c, "auth") \/ Finish(c, "broken") \/ Finish(c, "command")
    BY <1>2 DEF HistoryRefused, Garbled, HandleNoAuth, NetFail
  <2>. QED  BY <2>1, <2>2, FinishRefines
<1>. QED  BY <1>1, <1>2

\* An answer that carries nothing out is nothing to the caller.
LEMMA AnswersRefine ==
  ASSUME IInv, NEW c \in Calls,
         HubAuth(c) \/ HubRefuse(c) \/ HubDistrust(c) \/ HubInvalid(c)
  PROVE  UNCHANGED AMO!vars
<1>1. /\ UNCHANGED executed /\ pc[c] \in {"auth", "message"}
      /\ \E answer : \E where \in {"authReply", "reply"} : Respond(c, where, answer)
  BY DEF HubAuth, HubRefuse, HubDistrust, HubInvalid
<1>2. /\ UNCHANGED outcome
      /\ \E where \in {"authReply", "reply"} : pc' = [pc EXCEPT ![c] = where]
  BY <1>1 DEF Respond
<1>. QED  BY <1>1, <1>2, QuietStep

\* A command runs when its message is served, in time or late.
LEMMA ServedRefines ==
  ASSUME IInv, NEW c \in Calls, HubServe(c) \/ HubServeLate(c)
  PROVE  AMO!Next
<1>. USE DEF IInv
<1>1. executed' = [executed EXCEPT ![c] = @ + 1] /\ UNCHANGED outcome
  BY DEF HubServe, HubServeLate, Respond
<1>2. executed[c] = 0 /\ Status(c) \in {"pending", "failed"}
  <2>1. CASE HubServe(c)
    BY <2>1 DEF HubServe, ServedOnce
  <2>2. CASE HubServeLate(c)
    <3>1. PICK m \in late : m.call = c
      BY <2>2 DEF HubServeLate
    <3>. QED  BY <3>1 DEF LateOnce
  <2>. QED  BY <2>1, <2>2
<1>3. executed' = [executed EXCEPT ![c] = 1]
  BY <1>1, <1>2 DEF TypeOK
<1>4. ASSUME NEW d \in Calls PROVE Status(d)' = Status(d)
  <2>1. CASE HubServe(c)
    <3>1. pc[c] = "message" /\ pc' = [pc EXCEPT ![c] = "reply"]
      BY <2>1 DEF HubServe, Respond
    <3>. QED  BY <1>1, <3>1 DEF TypeOK
  <2>2. CASE HubServeLate(c)
    BY <1>1, <2>2 DEF HubServeLate
  <2>. QED  BY <2>1, <2>2
<1>5. AMO!Run(c)
  BY <1>2, <1>3, <1>4 DEF AMO!Run
<1>. QED  BY <1>5 DEF AMO!Next

\* Every step means one to the callers, or nothing.
LEMMA NextRefines ==
  IInv /\ [Next]_vars => [AMO!Next]_(AMO!vars)
<1>. SUFFICES ASSUME IInv, [Next]_vars
              PROVE  AMO!Next \/ UNCHANGED AMO!vars
  OBVIOUS
<1>1. ASSUME NEW c \in Calls,
             \/ Start(c) \/ HistoryRefused(c) \/ Stamp(c) \/ Garbled(c)
             \/ HandleAuth(c) \/ HandleNoAuth(c) \/ HandleReply(c) \/ NetFail(c)
      PROVE  AMO!Next \/ UNCHANGED AMO!vars
  BY <1>1, StartRefines, StampRefines, EndingsRefine
<1>2. ASSUME NEW c \in Calls,
             \/ HubAuth(c) \/ HubRefuse(c) \/ HubServe(c) \/ HubDistrust(c)
             \/ HubInvalid(c) \/ HubServeLate(c)
      PROVE  AMO!Next \/ UNCHANGED AMO!vars
  BY <1>2, AnswersRefine, ServedRefines
<1>3. ASSUME UNCHANGED vars \/ Close \/ Tick \/ \E k \in DOMAIN grants : HubForget(k)
      PROVE  UNCHANGED AMO!vars
  <2>1. UNCHANGED <<pc, outcome, executed>>
    BY <1>3 DEF vars, Close, Tick, HubForget
  <2>. QED  BY <2>1
<1>. QED  BY <1>1, <1>2, <1>3 DEF Next, Over

\* SdkClient.call keeps the promises of AtMostOnce: a command is carried out at
\* most once and has been if call returns, in spite of authentication races,
\* expiry, forgotten keys and messages that are served when nobody waits.
THEOREM Refinement == Spec => ImplementsAtMostOnce
<1>1. Init => AMO!Init
  BY DEF Init, AMO!Init
<1>. QED  BY <1>1, NextRefines, Invariance, PTL
          DEF Spec, AMO!Spec, ImplementsAtMostOnce
=============================================================================
