--------------------------- MODULE PairingProofs ---------------------------
(***************************************************************************)
(* Proofs about Pairing for every set of doors and any number of attempts. *)
(***************************************************************************)
EXTENDS Pairing, SequenceTheorems, TLAPS

\* The awaits before `auth` has been answered.
Early == {"idle", "hubId", "register", "verify", "migrate", "auth"}

\* The awaits at which the pairing has a phone, those at which the hub has
\* accepted it, and those at which the hub has taken over its signing key.
WithPhone == {"verify", "migrate", "auth", "clear", "connect", "fetch"}
WithVerified == WithPhone \ {"verify"}
WithSecret == WithVerified \ {"migrate"}

\* What the pairing has built up is there at the cloud and at the hub.
Progress ==
  /\ step # "idle" => attempt # 0
  /\ step \in WithPhone \/ sessionKey =>
       phone \in DOMAIN registered /\ registered[phone] = attempt
  /\ step \in WithVerified => phone \in verified
  /\ step \in WithSecret => phone \in DOMAIN hubSecret

\* So is what an answer on its way speaks of.
AnswerTrue ==
  /\ step = "register" /\ reply.kind = "ok" =>
       reply.phone \in DOMAIN registered /\ registered[reply.phone] = attempt
  /\ step = "verify" /\ reply.kind = "ok" => phone \in verified
  /\ step = "migrate" /\ reply.kind \in {"ok", "unreadable"} =>
       phone \in DOMAIN hubSecret
  /\ step = "auth" /\ reply.kind = "key" =>
       phone \in DOMAIN hubSecret /\ secret = hubSecret[phone]

\* Nothing is known of a session before `auth` is answered, and no devices
\* before that or when all that is left is to ask for them.
NothingYet ==
  /\ step \in Early => ~sessionKey
  /\ step \in Early \cup {"connect", "fetch"} => devices = {}

\* A request given up on belongs to an earlier pairing, or to one that failed
\* before it had a session, and to that pairing's own phone.
LateIsPast ==
  \A r \in late :
    /\ r.attempt = attempt => step = "done" /\ ~sessionKey
    /\ r.step # "register" =>
         r.phone \in DOMAIN registered /\ registered[r.phone] = r.attempt
    /\ r.step = "migrate" => r.phone \in verified

\* A registration that may still be carried out is the only one of its pairing.
AskedOnce ==
  /\ step = "hubId" \/ (step = "register" /\ reply = NoAnswer) =>
       \A i \in DOMAIN registered : registered[i] # attempt
  /\ \A r \in late : r.step = "register" =>
       /\ \A i \in DOMAIN registered : registered[i] # r.attempt
       /\ \A q \in late : q.step = "register" /\ q.attempt = r.attempt => q = r

\* A session key has shown the phone's secret to be the hub's.
SecretShared ==
  sessionKey => phone \in DOMAIN hubSecret /\ secret = hubSecret[phone]

\* Credentials end everything, and hold the phone and its secret.
CredsEnd ==
  /\ creds # NoCreds =>
       outcome = "ok" /\ creds.phone = phone /\ creds.secret = secret
  /\ outcome = "ok" => step = "done"

IInv ==
  /\ TypeOK /\ Progress /\ AnswerTrue /\ NothingYet /\ LateIsPast /\ AskedOnce
  /\ CredsEnd /\ CredentialsEarned /\ SecretShared /\ OnePhonePerAttempt
-----------------------------------------------------------------------------
(* What the model's helpers yield.                                         *)

USE DoorsAssumption, AttemptsAssumption
    DEF local, remote, world, Secrets, Steps, Answer, Registration, NoAnswer,
        NoCreds, Early, WithPhone, WithVerified, WithSecret

\* The candidate keys, and the answers when the cloud has registered n phones.
KeyNames == {"NOKEY", "session_key", "pairing_password", "secret"}
Replies(n) ==
  [kind : {"none", "ok", "denied", "refused", "garbled", "unreadable", "key",
           "noKey", "failed", "invalid", "lost"},
   found : SUBSET Doors, phone : 0..n]

\* Both lists of candidates are lists of key names, and so is what is left of
\* one when its first candidate has failed.
LEMMA KeyLists ==
  /\ AuthKeys \in Seq(KeyNames) /\ ClearKeys \in Seq(KeyNames)
  /\ <<>> \in Seq(KeyNames)
  /\ \A s \in Seq(KeyNames) : Len(s) > 1 => Tail(s) \in Seq(KeyNames)
<1>1. AuthKeys \in Seq(KeyNames) /\ ClearKeys \in Seq(KeyNames)
  BY DEF AuthKeys, ClearKeys, KeyNames
<1>2. <<>> \in Seq(KeyNames)
  BY EmptySeq, Zenon
<1>3. \A s \in Seq(KeyNames) : Len(s) > 1 => Tail(s) \in Seq(KeyNames)
  BY HeadTailProperties, EmptySeq
<1>. QED  BY <1>1, <1>2, <1>3

\* Registering a phone for an attempt adds it to those there are.
LEMMA RegisteredOneMore ==
  ASSUME TypeOK, NEW n \in 1..attempt, registered' = Append(registered, n)
  PROVE  /\ registered' \in Seq(1..attempt)
         /\ Len(registered) \in Nat /\ Len(registered') = Len(registered) + 1
         /\ DOMAIN registered = 1..Len(registered)
         /\ DOMAIN registered' = 1..Len(registered) + 1
         /\ \A i \in DOMAIN registered : registered'[i] = registered[i]
         /\ registered'[Len(registered) + 1] = n
  BY AppendProperties, LenProperties DEF TypeOK
-----------------------------------------------------------------------------
(* Initially.                                                              *)

\* At first there is nothing.
LEMMA InitIInv == Init => IInv
<1>. SUFFICES ASSUME Init PROVE IInv
  OBVIOUS
<1>. USE DEF Init
<1>1. TypeOK
  <2>1. keys \in Seq(KeyNames)
    BY KeyLists
  <2>2. registered \in Seq(1..attempt) /\ Len(registered) = 0
    BY EmptySeq
  <2>3. hubSecret \in [DOMAIN hubSecret -> Secrets] /\ DOMAIN hubSecret = {}
    OBVIOUS
  <2>4. reply \in Replies(0)
    BY DEF Replies
  <2>5. creds \in [phone : 0..0, secret : Secrets, devices : SUBSET Doors]
    OBVIOUS
  <2>6. /\ verified \subseteq DOMAIN registered
        /\ DOMAIN hubSecret \subseteq verified
        /\ late \subseteq [step : {"register", "verify", "migrate"},
                          attempt : 1..attempt, phone : 0..Len(registered)]
    BY <2>3
  <2>7. /\ attempt \in 0..MaxAttempts /\ step \in Steps /\ phone = 0
        /\ secret \in Secrets /\ devices \subseteq Doors /\ outcome = "none"
    OBVIOUS
  <2>8. sessionKey \in BOOLEAN
    BY Zenon
  <2>. QED  BY <2>1, <2>2, <2>3, <2>4, <2>5, <2>6, <2>7, <2>8
         DEF TypeOK, KeyNames, Replies
<1>2. Progress /\ AnswerTrue /\ NothingYet
  BY DEF Progress, AnswerTrue, NothingYet
<1>3. LateIsPast /\ AskedOnce
  BY DEF LateIsPast, AskedOnce
<1>4. CredsEnd /\ CredentialsEarned /\ SecretShared
  BY DEF CredsEnd, CredentialsEarned, SecretShared
<1>5. OnePhonePerAttempt
  BY DEF OnePhonePerAttempt, IsInjective
<1>. QED  BY <1>1, <1>2, <1>3, <1>4, <1>5 DEF IInv
-----------------------------------------------------------------------------
(* The client's steps and the network's.                                   *)

\* A new attempt starts from nothing; what was given up on is an old one's.
LEMMA PairKeeps == ASSUME IInv, Pair PROVE IInv'
<1>. USE DEF IInv, Pair
<1>1. TypeOK'
  <2>0. Len(registered) \in Nat
    BY DEF TypeOK
  <2>1. registered' \in Seq(1..attempt')
    BY DEF TypeOK
  <2>2. creds' \in [phone : 0..Len(registered)', secret : Secrets,
                 devices : SUBSET Doors]
    BY DEF TypeOK
  <2>3. late' \subseteq [step : {"register", "verify", "migrate"},
                      attempt : 1..attempt', phone : 0..Len(registered)']
    BY <2>0 DEF TypeOK
  <2>4. /\ attempt' \in 0..MaxAttempts /\ step' \in Steps /\ phone' = 0
      /\ secret' \in Secrets /\ devices' = {}
      /\ outcome' = "none"
    BY DEF TypeOK
  <2>5. sessionKey' \in BOOLEAN
    BY Zenon
  <2>6. UNCHANGED <<reply, keys, creds, registered, verified, hubSecret>>
    OBVIOUS
  <2>. QED  BY <2>0, <2>1, <2>2, <2>3, <2>4, <2>5, <2>6
         DEF TypeOK, Replies, KeyNames
<1>2. Progress'
  BY DEF TypeOK, Progress
<1>3. AnswerTrue'
  BY DEF AnswerTrue
<1>4. NothingYet'
  BY DEF NothingYet
<1>5. LateIsPast'
  BY DEF TypeOK, LateIsPast
<1>6. AskedOnce'
  BY DEF TypeOK, AskedOnce
<1>7. CredsEnd'
  BY DEF CredsEnd
<1>8. CredentialsEarned'
  BY DEF CredsEnd, CredentialsEarned
<1>9. SecretShared'
  BY DEF SecretShared
<1>10. OnePhonePerAttempt'
  BY DEF OnePhonePerAttempt, IsInjective
<1>. QED  BY <1>1, <1>2, <1>3, <1>4, <1>5, <1>6, <1>7, <1>8, <1>9, <1>10

\* Reading the hub's certificate decides nothing else.
LEMMA HubIdReadKeeps == ASSUME IInv, HubIdRead PROVE IInv'
<1>. USE DEF IInv, HubIdRead, Goto, Raise
<1>1. TypeOK'
  <2>0. Len(registered) \in Nat
    BY DEF TypeOK
  <2>1. reply' \in Replies(Len(registered))'
    BY <2>0 DEF TypeOK, Replies
  <2>2. keys' \in Seq(KeyNames)
    BY KeyLists DEF TypeOK, KeyNames
  <2>. QED  BY <2>0, <2>1, <2>2 DEF TypeOK, Replies, KeyNames
<1>2. Progress'
  BY DEF Progress
<1>3. AnswerTrue'
  BY DEF AnswerTrue
<1>4. NothingYet'
  BY DEF NothingYet
<1>5. LateIsPast'
  BY DEF LateIsPast
<1>6. AskedOnce'
  BY DEF AskedOnce
<1>7. CredsEnd'
  BY DEF CredsEnd
<1>8. (CredentialsEarned /\ SecretShared /\ OnePhonePerAttempt)'
  BY DEF CredentialsEarned, SecretShared, OnePhonePerAttempt, IsInjective
<1>. QED  BY <1>1, <1>2, <1>3, <1>4, <1>5, <1>6, <1>7, <1>8

\* The phone of the cloud's answer is this attempt's.
LEMMA RegisteredKeeps == ASSUME IInv, Registered PROVE IInv'
<1>. USE DEF IInv, Registered, Goto, Answered
<1>1. TypeOK'
  BY DEF TypeOK
<1>2. Progress'
  BY DEF Progress, AnswerTrue
<1>3. AnswerTrue'
  BY DEF AnswerTrue
<1>4. NothingYet'
  BY DEF NothingYet
<1>5. LateIsPast'
  BY DEF LateIsPast
<1>6. AskedOnce'
  BY DEF AskedOnce
<1>7. CredsEnd'
  BY DEF CredsEnd
<1>8. SecretShared'
  BY DEF NothingYet, SecretShared
<1>9. (CredentialsEarned /\ OnePhonePerAttempt)'
  BY DEF CredentialsEarned, OnePhonePerAttempt, IsInjective
<1>. QED  BY <1>1, <1>2, <1>3, <1>4, <1>5, <1>6, <1>7, <1>8, <1>9

\* The hub has accepted the phone that its answer is for.
LEMMA VerifiedKeeps == ASSUME IInv, Verified PROVE IInv'
<1>. USE DEF IInv, Verified, Goto, Answered
<1>1. TypeOK'
  BY DEF TypeOK
<1>2. Progress'
  BY DEF Progress, AnswerTrue
<1>3. AnswerTrue'
  BY DEF AnswerTrue
<1>4. NothingYet'
  BY DEF NothingYet
<1>5. LateIsPast'
  BY DEF LateIsPast
<1>6. AskedOnce'
  BY DEF AskedOnce
<1>7. CredsEnd'
  BY DEF CredsEnd
<1>8. (CredentialsEarned /\ SecretShared /\ OnePhonePerAttempt)'
  BY DEF CredentialsEarned, SecretShared, OnePhonePerAttempt, IsInjective
<1>. QED  BY <1>1, <1>2, <1>3, <1>4, <1>5, <1>6, <1>7, <1>8

\* The hub has taken the key over by the time its answer is read.
LEMMA MigratedKeeps == ASSUME IInv, Migrated PROVE IInv'
<1>. USE DEF IInv, Migrated, Goto
<1>1. TypeOK'
  <2>0. Len(registered) \in Nat
    BY DEF TypeOK
  <2>1. reply' \in Replies(Len(registered))'
    BY <2>0 DEF TypeOK, Replies
  <2>2. keys' \in Seq(KeyNames)
    BY KeyLists DEF TypeOK, KeyNames
  <2>. QED  BY <2>0, <2>1, <2>2 DEF TypeOK, Replies, KeyNames
<1>2. Progress'
  BY DEF Progress, AnswerTrue
<1>3. AnswerTrue'
  BY DEF AnswerTrue
<1>4. NothingYet'
  BY DEF NothingYet
<1>5. LateIsPast'
  BY DEF LateIsPast
<1>6. AskedOnce'
  BY DEF AskedOnce
<1>7. CredsEnd'
  BY DEF CredsEnd
<1>8. SecretShared'
  BY DEF NothingYet, SecretShared
<1>9. (CredentialsEarned /\ OnePhonePerAttempt)'
  BY DEF CredentialsEarned, OnePhonePerAttempt, IsInjective
<1>. QED  BY <1>1, <1>2, <1>3, <1>4, <1>5, <1>6, <1>7, <1>8, <1>9

\* A refusal ends the attempt and leaves what is there.
LEMMA RefusedKeeps == ASSUME IInv, Refused PROVE IInv'
<1>. USE DEF IInv, Refused, Raise, Answered
<1>1. TypeOK'
  <2>0. Len(registered) \in Nat
    BY DEF TypeOK
  <2>1. reply' \in Replies(Len(registered))'
    BY <2>0 DEF TypeOK, Replies
  <2>2. keys' \in Seq(KeyNames)
    BY KeyLists DEF TypeOK, KeyNames
  <2>. QED  BY <2>0, <2>1, <2>2 DEF TypeOK, Replies, KeyNames
<1>2. Progress'
  BY DEF Progress
<1>3. AnswerTrue'
  BY DEF AnswerTrue
<1>4. NothingYet'
  BY DEF NothingYet
<1>5. LateIsPast'
  BY DEF LateIsPast
<1>6. AskedOnce'
  BY DEF AskedOnce
<1>7. CredsEnd'
  BY DEF CredsEnd
<1>8. (CredentialsEarned /\ SecretShared /\ OnePhonePerAttempt)'
  BY DEF CredentialsEarned, SecretShared, OnePhonePerAttempt, IsInjective
<1>. QED  BY <1>1, <1>2, <1>3, <1>4, <1>5, <1>6, <1>7, <1>8

\* A session key comes from a hub that read the message with its secret.
LEMMA AuthenticatedKeeps == ASSUME IInv, Authenticated PROVE IInv'
<1>. USE DEF IInv, Authenticated, AfterAuth, Answered, Goto, Conclude, Return
<1>1. TypeOK'
  <2>0. Len(registered) \in Nat
    BY DEF TypeOK
  <2>1. reply' \in Replies(Len(registered))'
    BY <2>0 DEF TypeOK, Replies
  <2>2. keys' \in Seq(KeyNames)
    BY KeyLists DEF TypeOK, KeyNames
  <2>3. creds' \in [phone : 0..Len(registered)', secret : Secrets,
                 devices : SUBSET Doors]
    BY DEF TypeOK, Replies
  <2>. QED  BY <2>0, <2>1, <2>2, <2>3 DEF TypeOK, Replies, KeyNames
<1>2. Progress'
  BY DEF Progress
<1>3. AnswerTrue'
  BY DEF AnswerTrue
<1>4. NothingYet'
  BY DEF NothingYet
<1>5. LateIsPast'
  BY DEF LateIsPast
<1>6. AskedOnce'
  BY DEF AskedOnce
<1>7. CredsEnd'
  BY DEF CredsEnd
<1>8. CredentialsEarned'
  BY DEF CredentialsEarned
<1>9. SecretShared'
  BY DEF AnswerTrue, NothingYet, SecretShared
<1>10. OnePhonePerAttempt'
  BY DEF OnePhonePerAttempt, IsInjective
<1>. QED  BY <1>1, <1>2, <1>3, <1>4, <1>5, <1>6, <1>7, <1>8, <1>9, <1>10

\* setUserPassword changes nothing but the devices, which may end the pairing.
LEMMA ClearedKeeps == ASSUME IInv, Cleared PROVE IInv'
<1>. USE DEF IInv, Cleared, Conclude, Answered, Goto, Return
<1>1. TypeOK'
  <2>0. Len(registered) \in Nat
    BY DEF TypeOK
  <2>1. reply' \in Replies(Len(registered))'
    BY <2>0 DEF TypeOK, Replies
  <2>2. keys' \in Seq(KeyNames)
    BY KeyLists DEF TypeOK, KeyNames
  <2>3. creds' \in [phone : 0..Len(registered)', secret : Secrets,
                 devices : SUBSET Doors]
    BY DEF TypeOK, Replies
  <2>. QED  BY <2>0, <2>1, <2>2, <2>3 DEF TypeOK, Replies, KeyNames
<1>2. Progress'
  BY DEF Progress
<1>3. AnswerTrue'
  BY DEF AnswerTrue
<1>4. NothingYet'
  BY DEF NothingYet
<1>5. LateIsPast'
  BY DEF LateIsPast
<1>6. AskedOnce'
  BY DEF AskedOnce
<1>7. CredsEnd'
  BY DEF CredsEnd
<1>8. CredentialsEarned'
  BY DEF Progress, CredentialsEarned
<1>9. (SecretShared /\ OnePhonePerAttempt)'
  BY DEF SecretShared, OnePhonePerAttempt, IsInjective
<1>. QED  BY <1>1, <1>2, <1>3, <1>4, <1>5, <1>6, <1>7, <1>8, <1>9

\* The next candidate, or a reply that says nothing after the last one.
LEMMA NextKeyKeeps == ASSUME IInv, NextKey PROVE IInv'
<1>. USE DEF IInv, NextKey, Goto, Conclude, AfterAuth, Return
<1>1. TypeOK'
  <2>0. Len(registered) \in Nat
    BY DEF TypeOK
  <2>1. reply' \in Replies(Len(registered))'
    BY <2>0 DEF TypeOK, Replies
  <2>2. keys' \in Seq(KeyNames)
    BY KeyLists DEF TypeOK, KeyNames
  <2>3. creds' \in [phone : 0..Len(registered)', secret : Secrets,
                 devices : SUBSET Doors]
    BY DEF TypeOK, Replies
  <2>. QED  BY <2>0, <2>1, <2>2, <2>3 DEF TypeOK, Replies, KeyNames
<1>2. Progress'
  BY DEF Progress
<1>3. AnswerTrue'
  BY DEF AnswerTrue
<1>4. NothingYet'
  BY DEF NothingYet
<1>5. LateIsPast'
  BY DEF LateIsPast
<1>6. AskedOnce'
  BY DEF AskedOnce
<1>7. CredsEnd'
  BY DEF CredsEnd
<1>8. CredentialsEarned'
  BY DEF Progress, CredentialsEarned
<1>9. SecretShared'
  BY DEF TypeOK, Progress, NothingYet, SecretShared
<1>10. OnePhonePerAttempt'
  BY DEF OnePhonePerAttempt, IsInjective
<1>. QED  BY <1>1, <1>2, <1>3, <1>4, <1>5, <1>6, <1>7, <1>8, <1>9, <1>10

\* Opening the hub's session decides nothing else.
LEMMA ConnectedKeeps == ASSUME IInv, Connected PROVE IInv'
<1>. USE DEF IInv, Connected, Goto, Raise
<1>1. TypeOK'
  <2>0. Len(registered) \in Nat
    BY DEF TypeOK
  <2>1. reply' \in Replies(Len(registered))'
    BY <2>0 DEF TypeOK, Replies
  <2>2. keys' \in Seq(KeyNames)
    BY KeyLists DEF TypeOK, KeyNames
  <2>. QED  BY <2>0, <2>1, <2>2 DEF TypeOK, Replies, KeyNames
<1>2. Progress'
  BY DEF Progress
<1>3. AnswerTrue'
  BY DEF AnswerTrue
<1>4. NothingYet'
  BY DEF NothingYet
<1>5. LateIsPast'
  BY DEF LateIsPast
<1>6. AskedOnce'
  BY DEF AskedOnce
<1>7. CredsEnd'
  BY DEF CredsEnd
<1>8. (CredentialsEarned /\ SecretShared /\ OnePhonePerAttempt)'
  BY DEF CredentialsEarned, SecretShared, OnePhonePerAttempt, IsInjective
<1>. QED  BY <1>1, <1>2, <1>3, <1>4, <1>5, <1>6, <1>7, <1>8

\* The devices end the pairing, one way or the other.
LEMMA FetchedKeeps == ASSUME IInv, Fetched PROVE IInv'
<1>. USE DEF IInv, Fetched, Raise, Return
<1>1. TypeOK'
  <2>0. Len(registered) \in Nat
    BY DEF TypeOK
  <2>1. reply' \in Replies(Len(registered))'
    BY <2>0 DEF TypeOK, Replies
  <2>2. keys' \in Seq(KeyNames)
    BY KeyLists DEF TypeOK, KeyNames
  <2>3. creds' \in [phone : 0..Len(registered)', secret : Secrets,
                 devices : SUBSET Doors]
    BY DEF TypeOK, Replies
  <2>. QED  BY <2>0, <2>1, <2>2, <2>3 DEF TypeOK, Replies, KeyNames
<1>2. Progress'
  BY DEF Progress
<1>3. AnswerTrue'
  BY DEF AnswerTrue
<1>4. NothingYet'
  BY DEF NothingYet
<1>5. LateIsPast'
  BY DEF LateIsPast
<1>6. AskedOnce'
  BY DEF AskedOnce
<1>7. CredsEnd'
  BY DEF CredsEnd
<1>8. CredentialsEarned'
  BY DEF Progress, CredentialsEarned
<1>9. (SecretShared /\ OnePhonePerAttempt)'
  BY DEF SecretShared, OnePhonePerAttempt, IsInjective
<1>. QED  BY <1>1, <1>2, <1>3, <1>4, <1>5, <1>6, <1>7, <1>8, <1>9

\* What is given up on belongs to an attempt that has failed.
LEMMA NetFailKeeps == ASSUME IInv, NetFail PROVE IInv'
<1>. USE DEF IInv, NetFail, Raise, Unserved
<1>1. TypeOK'
  <2>0. Len(registered) \in Nat
    BY DEF TypeOK
  <2>1. reply' \in Replies(Len(registered))'
    BY <2>0 DEF TypeOK, Replies
  <2>2. keys' \in Seq(KeyNames)
    BY KeyLists DEF TypeOK, KeyNames
  <2>3. late' \subseteq [step : {"register", "verify", "migrate"},
                      attempt : 1..attempt', phone : 0..Len(registered)']
    BY <2>0 DEF TypeOK, Progress
  <2>. QED  BY <2>0, <2>1, <2>2, <2>3 DEF TypeOK, Replies, KeyNames
<1>2. Progress'
  BY DEF Progress
<1>3. AnswerTrue'
  BY DEF AnswerTrue
<1>4. NothingYet'
  BY DEF NothingYet
<1>5. LateIsPast'
  BY DEF TypeOK, Progress, NothingYet, LateIsPast
<1>6. AskedOnce'
  BY DEF LateIsPast, AskedOnce
<1>7. CredsEnd'
  BY DEF CredsEnd
<1>8. (CredentialsEarned /\ SecretShared /\ OnePhonePerAttempt)'
  BY DEF CredentialsEarned, SecretShared, OnePhonePerAttempt, IsInjective
<1>. QED  BY <1>1, <1>2, <1>3, <1>4, <1>5, <1>6, <1>7, <1>8

\* A lost answer speaks of nothing.
LEMMA LoseKeeps == ASSUME IInv, Lose PROVE IInv'
<1>. USE DEF IInv, Lose
<1>1. TypeOK'
  BY DEF TypeOK
<1>2. AnswerTrue'
  BY DEF AnswerTrue
<1>3. AskedOnce'
  BY DEF AskedOnce
<1>4. /\ (Progress /\ NothingYet /\ LateIsPast /\ CredsEnd)'
      /\ (CredentialsEarned /\ SecretShared /\ OnePhonePerAttempt)'
  BY DEF Progress, NothingYet, LateIsPast, CredsEnd, CredentialsEarned,
         SecretShared, OnePhonePerAttempt, IsInjective
<1>. QED  BY <1>1, <1>2, <1>3, <1>4
-----------------------------------------------------------------------------
(* The cloud's steps and the hub's.                                        *)

\* The cloud registers a phone for an attempt that has none.
LEMMA CloudRegisterKeeps == ASSUME IInv, CloudRegister PROVE IInv'
<1>. USE DEF IInv, CloudRegister
<1>1. TypeOK'
  <2>0. Len(registered) \in Nat
    BY DEF TypeOK
  <2>1. /\ registered' \in Seq(1..attempt')
        /\ Len(registered') = Len(registered) + 1
    BY <2>0, RegisteredOneMore DEF TypeOK, Progress
  <2>2. reply' \in Replies(Len(registered))'
    BY <2>0, <2>1 DEF TypeOK, Replies
  <2>. QED  BY <2>0, <2>1, <2>2, SMTT(30) DEF TypeOK, Replies, KeyNames
<1>2. Progress'
  BY DEF Progress
<1>3. AnswerTrue'
  BY DEF AnswerTrue
<1>4. LateIsPast'
  BY DEF LateIsPast
<1>5. AskedOnce'
  BY DEF LateIsPast, AskedOnce
<1>6. CredentialsEarned'
  BY DEF TypeOK, CredentialsEarned
<1>7. OnePhonePerAttempt'
  BY DEF AskedOnce, OnePhonePerAttempt, IsInjective
<1>8. (NothingYet /\ CredsEnd /\ SecretShared)'
  BY DEF NothingYet, CredsEnd, SecretShared
<1>. QED  BY <1>1, <1>2, <1>3, <1>4, <1>5, <1>6, <1>7, <1>8

\* The hub accepts the attempt's phone.
LEMMA HubVerifyKeeps == ASSUME IInv, HubVerify PROVE IInv'
<1>. USE DEF IInv, HubVerify, Respond
<1>1. TypeOK'
  <2>0. Len(registered) \in Nat
    BY DEF TypeOK
  <2>1. verified' \subseteq DOMAIN registered'
    BY <2>0, LenProperties DEF TypeOK, Progress
  <2>2. reply' \in Replies(Len(registered))'
    BY <2>0 DEF TypeOK, Replies
  <2>. QED  BY <2>0, <2>1, <2>2 DEF TypeOK, Replies, KeyNames
<1>2. Progress'
  BY DEF Progress
<1>3. AnswerTrue'
  BY DEF AnswerTrue
<1>4. LateIsPast'
  BY DEF LateIsPast
<1>5. AskedOnce'
  BY DEF AskedOnce
<1>6. CredentialsEarned'
  BY DEF CredentialsEarned
<1>7. (NothingYet /\ CredsEnd /\ SecretShared /\ OnePhonePerAttempt)'
  BY DEF NothingYet, CredsEnd, SecretShared, OnePhonePerAttempt, IsInjective
<1>. QED  BY <1>1, <1>2, <1>3, <1>4, <1>5, <1>6, <1>7

\* The hub switches the attempt's phone to a secret before there is a session.
LEMMA HubMigrateKeeps == ASSUME IInv, HubMigrate PROVE IInv'
<1>. USE DEF IInv, HubMigrate, Respond, Switched
<1>1. TypeOK'
  <2>0. Len(registered) \in Nat
    BY DEF TypeOK
  <2>1. hubSecret' \in [DOMAIN hubSecret' -> Secrets]
    BY DEF TypeOK
  <2>2. DOMAIN hubSecret' \subseteq verified'
    BY DEF TypeOK, Progress
  <2>3. reply' \in Replies(Len(registered))'
    BY <2>0 DEF TypeOK, Replies
  <2>. QED  BY <2>0, <2>1, <2>2, <2>3 DEF TypeOK, Replies, KeyNames
<1>2. Progress'
  BY DEF Progress
<1>3. AnswerTrue'
  BY DEF AnswerTrue
<1>4. AskedOnce'
  BY DEF AskedOnce
<1>5. CredentialsEarned'
  BY DEF CredentialsEarned
<1>6. SecretShared'
  BY DEF NothingYet, SecretShared
<1>7. (NothingYet /\ LateIsPast /\ CredsEnd /\ OnePhonePerAttempt)'
  BY DEF NothingYet, LateIsPast, CredsEnd, OnePhonePerAttempt, IsInjective
<1>. QED  BY <1>1, <1>2, <1>3, <1>4, <1>5, <1>6, <1>7

\* A refusal says nothing of what is there.
LEMMA HubDenyKeeps == ASSUME IInv, HubDeny PROVE IInv'
<1>. USE DEF IInv, HubDeny, Respond
<1>1. TypeOK'
  BY DEF TypeOK
<1>2. AnswerTrue'
  BY DEF AnswerTrue
<1>3. AskedOnce'
  BY DEF AskedOnce
<1>4. /\ (Progress /\ NothingYet /\ LateIsPast /\ CredsEnd)'
      /\ (CredentialsEarned /\ SecretShared /\ OnePhonePerAttempt)'
  BY DEF Progress, NothingYet, LateIsPast, CredsEnd, CredentialsEarned,
         SecretShared, OnePhonePerAttempt, IsInjective
<1>. QED  BY <1>1, <1>2, <1>3, <1>4

\* A session key is only granted to a message that the hub's secret reads.
LEMMA HubSdkKeeps == ASSUME IInv, HubSdk PROVE IInv'
<1>. USE DEF IInv, HubSdk, Respond, Permissions
<1>1. TypeOK'
  <2>0. Len(registered) \in Nat
    BY DEF TypeOK
  <2>1. reply' \in Replies(Len(registered))'
    BY <2>0 DEF TypeOK, Replies
  <2>. QED  BY <2>0, <2>1 DEF TypeOK, Replies, KeyNames
<1>2. AnswerTrue'
  BY DEF AnswerTrue
<1>3. AskedOnce'
  BY DEF AskedOnce
<1>4. /\ (Progress /\ NothingYet /\ LateIsPast /\ CredsEnd)'
      /\ (CredentialsEarned /\ SecretShared /\ OnePhonePerAttempt)'
  BY DEF Progress, NothingYet, LateIsPast, CredsEnd, CredentialsEarned,
         SecretShared, OnePhonePerAttempt, IsInjective
<1>. QED  BY <1>1, <1>2, <1>3, <1>4

\* The hub's answers to the fallback say nothing of what is there.
LEMMA HubListKeeps == ASSUME IInv, HubList PROVE IInv'
<1>. USE DEF IInv, HubList, Respond
<1>1. TypeOK'
  BY DEF TypeOK
<1>2. AnswerTrue'
  BY DEF AnswerTrue
<1>3. AskedOnce'
  BY DEF AskedOnce
<1>4. /\ (Progress /\ NothingYet /\ LateIsPast /\ CredsEnd)'
      /\ (CredentialsEarned /\ SecretShared /\ OnePhonePerAttempt)'
  BY DEF Progress, NothingYet, LateIsPast, CredsEnd, CredentialsEarned,
         SecretShared, OnePhonePerAttempt, IsInjective
<1>. QED  BY <1>1, <1>2, <1>3, <1>4
-----------------------------------------------------------------------------
(* What was given up on and is carried out after all.                      *)

Rest == <<attempt, step, reply, local, keys, outcome, creds>>

\* A late registration gives a phone to an attempt that has none.
LEMMA LateRegistration ==
  ASSUME IInv, NEW r \in late, r.step = "register",
         registered' = Append(registered, r.attempt),
         UNCHANGED <<verified, hubSecret, Rest>>, late' = late \ {r}
  PROVE  IInv'
<1>. USE DEF IInv, Rest
<1>0. r.attempt \in 1..attempt
  BY DEF TypeOK
<1>1. /\ registered' \in Seq(1..attempt)
      /\ Len(registered) \in Nat /\ Len(registered') = Len(registered) + 1
      /\ DOMAIN registered = 1..Len(registered)
      /\ DOMAIN registered' = 1..Len(registered) + 1
      /\ \A i \in DOMAIN registered : registered'[i] = registered[i]
      /\ registered'[Len(registered) + 1] = r.attempt
  BY <1>0, RegisteredOneMore
<1>2. TypeOK'
  BY <1>1, SMTT(30) DEF TypeOK
<1>3. Progress' /\ AnswerTrue' /\ NothingYet'
  BY <1>1 DEF Progress, AnswerTrue, NothingYet
<1>4. LateIsPast'
  BY <1>1 DEF LateIsPast
<1>5. AskedOnce'
  BY <1>1 DEF AskedOnce, LateIsPast
<1>6. CredsEnd' /\ CredentialsEarned' /\ SecretShared'
  BY <1>1 DEF TypeOK, CredsEnd, CredentialsEarned, SecretShared
<1>7. OnePhonePerAttempt'
  BY <1>1 DEF AskedOnce, OnePhonePerAttempt, IsInjective
<1>. QED  BY <1>2, <1>3, <1>4, <1>5, <1>6, <1>7

\* A late connection is one of the phone of its own attempt.
LEMMA LateVerification ==
  ASSUME IInv, NEW r \in late, r.step = "verify",
         verified' = verified \cup {r.phone},
         UNCHANGED <<registered, hubSecret, Rest>>, late' = late \ {r}
  PROVE  IInv'
<1>. USE DEF IInv, Rest
<1>1. r.phone \in DOMAIN registered
  BY DEF LateIsPast
<1>2. TypeOK'
  BY <1>1, SMTT(30) DEF TypeOK
<1>3. Progress' /\ AnswerTrue' /\ NothingYet'
  BY DEF Progress, AnswerTrue, NothingYet
<1>4. LateIsPast' /\ AskedOnce'
  BY DEF LateIsPast, AskedOnce
<1>5. CredsEnd' /\ CredentialsEarned' /\ SecretShared'
  BY DEF CredsEnd, CredentialsEarned, SecretShared
<1>6. OnePhonePerAttempt'
  BY DEF OnePhonePerAttempt, IsInjective
<1>. QED  BY <1>2, <1>3, <1>4, <1>5, <1>6

\* A late key upgrade changes no secret that a session relies on.
LEMMA LateMigration ==
  ASSUME IInv, NEW r \in late, r.step = "migrate", NEW s \in Secrets,
         hubSecret' = Switched(r.phone, s),
         UNCHANGED <<registered, verified, Rest>>, late' = late \ {r}
  PROVE  IInv'
<1>. USE DEF IInv, Rest
<1>1. /\ r.phone \in verified
      /\ r.phone \in DOMAIN registered /\ registered[r.phone] = r.attempt
      /\ r.attempt = attempt => step = "done" /\ ~sessionKey
  BY DEF LateIsPast
<1>2. /\ DOMAIN hubSecret' = DOMAIN hubSecret \cup {r.phone}
      /\ hubSecret' \in [DOMAIN hubSecret' -> Secrets]
      /\ \A q \in DOMAIN hubSecret : q # r.phone => hubSecret'[q] = hubSecret[q]
  BY DEF Switched, TypeOK
<1>3. TypeOK'
  BY <1>1, <1>2, SMTT(30) DEF TypeOK
<1>4. Progress' /\ NothingYet'
  BY <1>2 DEF Progress, NothingYet
<1>5. AnswerTrue'
  BY <1>1, <1>2 DEF AnswerTrue, Progress
<1>6. LateIsPast' /\ AskedOnce'
  BY DEF LateIsPast, AskedOnce
<1>7. CredsEnd' /\ CredentialsEarned'
  BY <1>2 DEF CredsEnd, CredentialsEarned
<1>8. SecretShared'
  BY <1>1, <1>2 DEF SecretShared, Progress
<1>9. OnePhonePerAttempt'
  BY DEF OnePhonePerAttempt, IsInjective
<1>. QED  BY <1>3, <1>4, <1>5, <1>6, <1>7, <1>8, <1>9

\* Those are the requests that may be carried out late.
LEMMA RemoteLateKeeps == ASSUME IInv, RemoteLate PROVE IInv'
<1>1. PICK r \in late :
        /\ \/ /\ r.step = "register"
              /\ registered' = Append(registered, r.attempt)
              /\ UNCHANGED <<verified, hubSecret>>
           \/ /\ r.step = "verify"
              /\ verified' = verified \cup {r.phone}
              /\ UNCHANGED <<registered, hubSecret>>
           \/ /\ r.step = "migrate"
              /\ \E s \in Secrets : hubSecret' = Switched(r.phone, s)
              /\ UNCHANGED <<registered, verified>>
        /\ late' = late \ {r}
        /\ UNCHANGED Rest
  BY Zenon DEF RemoteLate, Rest
<1>2. CASE r.step = "register"
  BY <1>1, <1>2, LateRegistration
<1>3. CASE r.step = "verify"
  BY <1>1, <1>3, LateVerification
<1>4. CASE r.step = "migrate"
  BY <1>1, <1>4, LateMigration
<1>. QED  BY <1>1, <1>2, <1>3, <1>4
-----------------------------------------------------------------------------
(* The theorems.                                                           *)

\* Every step of a pairing keeps the invariant.
LEMMA NextKeeps == IInv /\ [Next]_vars => IInv'
<1>. SUFFICES ASSUME IInv, [Next]_vars PROVE IInv'
  OBVIOUS
<1>1. CASE Pair
  BY <1>1, PairKeeps
<1>2. CASE Client
  BY <1>2, HubIdReadKeeps, RegisteredKeeps, VerifiedKeeps, MigratedKeeps,
     RefusedKeeps, AuthenticatedKeeps, ClearedKeeps, NextKeyKeeps,
     ConnectedKeeps, FetchedKeeps DEF Client
<1>3. CASE Network
  BY <1>3, NetFailKeeps, LoseKeeps DEF Network
<1>4. CASE Remote
  BY <1>4, CloudRegisterKeeps, HubVerifyKeeps, HubMigrateKeeps, HubDenyKeeps,
     HubSdkKeeps, HubListKeeps, RemoteLateKeeps DEF Remote
<1>5. CASE UNCHANGED vars
  <2>. USE <1>5 DEF IInv, vars
  <2>1. TypeOK' /\ Progress' /\ AnswerTrue' /\ NothingYet'
    BY SMTT(30) DEF TypeOK, Progress, AnswerTrue, NothingYet
  <2>2. LateIsPast' /\ AskedOnce' /\ CredsEnd'
    BY DEF LateIsPast, AskedOnce, CredsEnd
  <2>3. CredentialsEarned' /\ SecretShared' /\ OnePhonePerAttempt'
    BY DEF CredentialsEarned, SecretShared, OnePhonePerAttempt, IsInjective
  <2>. QED  BY <2>1, <2>2, <2>3
<1>. QED  BY <1>1, <1>2, <1>3, <1>4, <1>5 DEF Next, Over

\* The invariant holds in every state a pairing gets into (PairingSession.pair).
THEOREM Invariance == Spec => []IInv
  BY InitIInv, NextKeeps, PTL DEF Spec

\* Every variable keeps to the values of its kind, whatever is lost or late.
THEOREM TypeCorrect == Spec => []TypeOK
<1>1. IInv => TypeOK
  BY DEF IInv
<1>. QED  BY <1>1, Invariance, PTL

\* Credentials are only returned for a phone that this very pairing registered,
\* that the hub accepted and whose key it took over, with a device at least:
\* pair() has no path to them that leaves a step out.
THEOREM OnlyEarnedCredentials == Spec => []CredentialsEarned
<1>1. IInv => CredentialsEarned
  BY DEF IInv
<1>. QED  BY <1>1, Invariance, PTL

\* The secret of a phone with an SDK session stays the hub's, in the Credentials
\* as well, although key upgrades that were given up on may be carried out at any
\* time (_upgrade_signing_key).
THEOREM SdkSecretsLast == Spec => []SdkSecretLasts
<1>1. IInv => SdkSecretLasts
  BY DEF IInv, SecretShared, CredsEnd, SdkSecretLasts
<1>. QED  BY <1>1, Invariance, PTL

\* However often the user starts over and whatever is carried out late, the
\* cloud registers one phone for each pairing at most (_register_with_cloud).
THEOREM OnePhoneEach == Spec => []OnePhonePerAttempt
<1>1. IInv => OnePhonePerAttempt
  BY DEF IInv
<1>. QED  BY <1>1, Invariance, PTL

\* No step of a pairing loses the devices it has discovered (device_ids, which
\* _clear_password_expiry and _discover_device_ids only ever fill).
THEOREM DevicesAreKept == Spec => DevicesKept
<1>1. IInv /\ [Next]_vars =>
        [devices # {} /\ attempt' = attempt => devices' = devices]_vars
  <2>. SUFFICES ASSUME IInv, Next, devices # {}, attempt' = attempt
                PROVE  devices' = devices
    OBVIOUS
  <2>1. step \notin Early \cup {"connect", "fetch"}
    BY DEF IInv, NothingYet
  <2>2. CASE Pair
    BY <2>2 DEF IInv, TypeOK, Pair
  <2>3. CASE Client
    BY <2>1, <2>3
       DEF Client, HubIdRead, Registered, Verified, Migrated, Refused, Raise,
           Authenticated, Cleared, NextKey, Connected, Fetched, Answered,
           AfterAuth, Conclude
  <2>4. CASE Network
    BY <2>4 DEF Network, NetFail, Lose
  <2>5. CASE Remote
    BY <2>5 DEF Remote, CloudRegister, HubVerify, HubMigrate, HubDeny, HubSdk,
                HubList, RemoteLate, Respond
  <2>. QED  BY <2>2, <2>3, <2>4, <2>5 DEF Next, Over, vars
<1>. QED  BY <1>1, Invariance, PTL DEF Spec, DevicesKept
=============================================================================
