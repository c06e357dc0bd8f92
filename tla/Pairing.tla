------------------------------ MODULE Pairing ------------------------------
(***************************************************************************)
(* PairingSession.pair (pairing.py): the handshake that turns an           *)
(* activation code into Credentials, one await after another, with the     *)
(* hub's and the cloud's side of every step.  A step's request may be      *)
(* carried out and its answer lost, or be carried out when nobody waits    *)
(* for it any more.  After an exception the user may start over, with a    *)
(* new PairingSession and, from the cloud, a new phone.                    *)
(***************************************************************************)
EXTENDS Integers, Sequences, Functions

CONSTANTS
  Doors,        \* the devices of the hub this phone has access to
  MaxAttempts   \* bound on how often the user starts over

ASSUME DoorsAssumption == Doors # {}
ASSUME AttemptsAssumption == MaxAttempts \in Nat

VARIABLES
  attempt,    \* number of the pairing under way or last made
  step,       \* the await it is suspended at
  reply,      \* the answer on its way to it
  phone,      \* PairingSession.phone_id; 0 before registration
  secret,     \* _MigratedSecret.secret
  sessionKey, \* whether `auth` has yielded a session key
  devices,    \* device_ids
  keys,       \* what is left of try_signing_keys' candidates
  outcome,    \* how the pairing ended
  creds,      \* the Credentials it returned
  registered, \* cloud: for each phone it registered, in order, the pairing
              \* that asked for it
  verified,   \* hub: the phones that have connected
  hubSecret,  \* hub: the SDK secret of each phone, by the phones it migrated
  late        \* requests given up on that may yet be carried out

local == <<phone, secret, sessionKey, devices>>
remote == <<registered, verified, hubSecret>>
world == <<remote, late>>
vars == <<attempt, step, reply, phone, secret, sessionKey, devices, keys,
          outcome, creds, registered, verified, hubSecret, late>>

Secrets == {"control", "ecdh"}
Steps == {"idle", "hubId", "register", "verify", "migrate", "auth", "clear",
          "connect", "fetch", "done"}
AuthKeys == <<"NOKEY", "pairing_password", "secret">>
ClearKeys == <<"session_key", "pairing_password", "secret", "NOKEY">>
NoCreds == [phone |-> 0, secret |-> "control", devices |-> {}]

\* An answer, and the devices that can be made out in it, or a phone's ID.
Answer(kind, found) == [kind |-> kind, found |-> found, phone |-> 0]
Registration(id) == [kind |-> "ok", found |-> {}, phone |-> id]
NoAnswer == Answer("none", {})

Init ==
  /\ attempt = 0
  /\ step = "idle"
  /\ reply = NoAnswer
  /\ phone = 0
  /\ secret = "control"
  /\ sessionKey = FALSE
  /\ devices = {}
  /\ keys = <<>>
  /\ outcome = "none"
  /\ creds = NoCreds
  /\ registered = <<>>
  /\ verified = {}
  /\ hubSecret = <<>>
  /\ late = {}
-----------------------------------------------------------------------------
(* Building blocks.                                                        *)

Goto(where, candidates) ==
  /\ step' = where
  /\ keys' = candidates
  /\ reply' = NoAnswer
  /\ UNCHANGED <<outcome, creds>>

Raise(how) ==
  /\ step' = "done"
  /\ outcome' = how
  /\ reply' = NoAnswer
  /\ keys' = <<>>
  /\ UNCHANGED creds

Return(found) ==
  /\ step' = "done"
  /\ outcome' = "ok"
  /\ creds' = [phone |-> phone, secret |-> secret, devices |-> found]
  /\ reply' = NoAnswer
  /\ keys' = <<>>

\* pair() once it is through with the SDK protocol.
Conclude(found) ==
  /\ devices' = found
  /\ \/ found # {} /\ Return(found)
     \/ found = {} /\ Goto("connect", <<>>)

\* After the auth step: `setUserPassword` if there is a session key.
AfterAuth(key, found) ==
  /\ sessionKey' = key
  /\ \/ key /\ devices' = found /\ Goto("clear", ClearKeys)
     \/ ~key /\ Conclude(found)

Answered(where, kinds) == step = where /\ reply.kind \in kinds
-----------------------------------------------------------------------------
(* The client.                                                             *)

\* A new PairingSession.
Pair ==
  /\ step \in {"idle", "done"}
  /\ outcome # "ok"
  /\ attempt < MaxAttempts
  /\ attempt' = attempt + 1
  /\ phone' = 0
  /\ secret' = "control"
  /\ sessionKey' = FALSE
  /\ devices' = {}
  /\ outcome' = "none"
  /\ step' = "hubId"
  /\ UNCHANGED <<reply, keys, creds, world>>

\* read_hub_id: the hub's certificate, or HubUnreachableError without one.
HubIdRead ==
  /\ step = "hubId"
  /\ \/ Goto("register", <<>>)
     \/ Raise("unreachable")
     \/ Raise("broken")           \* a certificate that does not parse
  /\ UNCHANGED <<attempt, local, world>>

\* Mutation: the new phone is not verified before the key upgrade.
RegisteredUnverified ==
  /\ Answered("register", {"ok"})
  /\ phone' = reply.phone
  /\ Goto("migrate", <<>>)
  /\ UNCHANGED <<attempt, secret, sessionKey, devices, world>>

Registered ==
  /\ Answered("register", {"ok"})
  /\ phone' = reply.phone
  /\ Goto("verify", <<>>)
  /\ UNCHANGED <<attempt, secret, sessionKey, devices, world>>

Verified ==
  /\ Answered("verify", {"ok"})
  /\ Goto("migrate", <<>>)
  /\ UNCHANGED <<attempt, local, world>>

\* Mutation: the key upgrade is best effort as a whole.
MigratedAnyhow ==
  /\ step = "migrate"
  /\ \/ reply.kind = "ok" /\ secret' = "ecdh"
     \/ reply.kind \in {"unreadable", "refused"} /\ secret' = "control"
  /\ Goto("auth", AuthKeys)
  /\ UNCHANGED <<attempt, phone, sessionKey, devices, world>>

\* The ECDH secret if the hub's half can be read, else the original one.
Migrated ==
  /\ step = "migrate"
  /\ \/ reply.kind = "ok" /\ secret' = "ecdh"
     \/ reply.kind = "unreadable" /\ secret' = "control"
  /\ Goto("auth", AuthKeys)
  /\ UNCHANGED <<attempt, phone, sessionKey, devices, world>>

\* 401 or 403 is an AuthenticationError, except of v3migrate.  A body that is
\* not the expected JSON is read, and raises, everywhere but in "verify".
Refused ==
  /\ \/ Answered("register", {"denied"}) /\ Raise("auth")
     \/ Answered("verify", {"denied"}) /\ Raise("auth")
     \/ step \in {"register", "verify", "migrate"} /\ reply.kind = "refused"
        /\ Raise("pairing")
     \/ step \in {"register", "migrate", "connect", "auth", "clear"}
        /\ reply.kind = "garbled" /\ Raise("broken")
  /\ UNCHANGED <<attempt, local, world>>

\* try_signing_keys has returned the first reply that is not INVALID.
Authenticated ==
  /\ Answered("auth", {"key", "noKey"})
  /\ AfterAuth(reply.kind = "key", IF reply.kind = "key" THEN reply.found ELSE {})
  /\ UNCHANGED <<attempt, phone, secret, world>>

\* Mutation: the devices found last win over those found first.
ClearedOverwriting ==
  /\ Answered("clear", {"ok", "failed"})
  /\ Conclude(IF reply.kind = "ok" THEN reply.found ELSE {})
  /\ UNCHANGED <<attempt, phone, secret, sessionKey, world>>

\* _clear_password_expiry: device_ids or discovered.
Cleared ==
  /\ Answered("clear", {"ok", "failed"})
  /\ Conclude(IF devices # {} THEN devices
              ELSE IF reply.kind = "ok" THEN reply.found ELSE {})
  /\ UNCHANGED <<attempt, phone, secret, sessionKey, world>>

\* Mutation: the last candidate key is tried for ever.
NextKeyForever ==
  /\ step \in {"auth", "clear"}
  /\ reply.kind \in {"invalid", "lost"}
  /\ Goto(step, IF Len(keys) > 1 THEN Tail(keys) ELSE keys)
  /\ UNCHANGED <<attempt, local, world>>

\* try_signing_keys: INVALID, a timeout and a ClientError all lead to the next
\* candidate; after the last, {} stands for a reply that says nothing.
NextKey ==
  /\ step \in {"auth", "clear"}
  /\ reply.kind \in {"invalid", "lost"}
  /\ \/ Len(keys) > 1 /\ Goto(step, Tail(keys)) /\ UNCHANGED local
     \/ /\ Len(keys) = 1
        /\ \/ step = "auth" /\ AfterAuth(FALSE, {})
           \/ step = "clear" /\ Conclude(devices) /\ UNCHANGED sessionKey
        /\ UNCHANGED <<phone, secret>>
  /\ UNCHANGED <<attempt, world>>

\* _discover_device_ids gives up quietly: a PairingError, no devices.
Connected ==
  /\ step = "connect"
  /\ \/ reply.kind = "ok" /\ Goto("fetch", <<>>)
     \/ reply.kind \in {"refused", "denied", "lost"} /\ Raise("pairing")
  /\ UNCHANGED <<attempt, local, world>>

\* So it does with a body that is no JSON; JSON of another shape than a list
\* of messages raises AttributeError or TypeError.
Fetched ==
  /\ step = "fetch"
  /\ \/ /\ reply.kind \in {"ok", "refused", "garbled", "lost"}
        /\ devices' = reply.found
        /\ \/ reply.found # {} /\ Return(reply.found)
           \/ reply.found = {} /\ Raise("pairing")
     \/ reply.kind = "garbled" /\ Raise("broken") /\ UNCHANGED devices
  /\ UNCHANGED <<attempt, phone, secret, sessionKey, world>>

\* The request of this step, if it has not been carried out.
Unserved ==
  IF reply # NoAnswer THEN {}
  ELSE {[step |-> step, attempt |-> attempt, phone |-> phone]}

\* Mutation: a registration that times out is sent again.
NetFailResent ==
  /\ step \in {"register", "verify", "migrate"}
  /\ late' = late \cup Unserved
  /\ \/ step = "register" /\ Goto(step, <<>>)
     \/ step # "register" /\ Raise("unreachable")
  /\ UNCHANGED <<attempt, local, remote>>

\* Mutation: a key upgrade that times out is sent again.
NetFailMigrateResent ==
  /\ step \in {"register", "verify", "migrate"}
  /\ late' = late \cup Unserved
  /\ \/ step = "migrate" /\ Goto(step, <<>>)
     \/ step # "migrate" /\ Raise("unreachable")
  /\ UNCHANGED <<attempt, local, remote>>

\* A timeout or ClientError of the steps that report it.
NetFail ==
  /\ step \in {"register", "verify", "migrate"}
  /\ late' = late \cup Unserved
  /\ Raise("unreachable")
  /\ UNCHANGED <<attempt, local, remote>>

\* The other steps carry on with nothing.
Lose ==
  /\ step \in {"auth", "clear", "connect", "fetch"}
  /\ reply.kind # "lost"
  /\ reply' = Answer("lost", {})
  /\ UNCHANGED <<attempt, step, local, keys, outcome, creds, world>>
-----------------------------------------------------------------------------
(* The cloud and the hub (external).                                       *)

Respond(kind, found) ==
  /\ reply = NoAnswer
  /\ reply' = Answer(kind, found)
  /\ UNCHANGED <<attempt, step, local, keys, outcome, creds, late>>

CloudRegister ==
  /\ step = "register"
  /\ reply = NoAnswer
  /\ registered' = Append(registered, attempt)
  /\ reply' \in {Registration(Len(registered')), Answer("garbled", {})}
  /\ UNCHANGED <<attempt, step, local, keys, outcome, creds, verified,
                 hubSecret, late>>

HubVerify ==
  /\ step = "verify"
  /\ Respond("ok", {})
  /\ verified' = verified \cup {phone}
  /\ UNCHANGED <<registered, hubSecret>>

\* The phones' secrets once a phone's is s.
Switched(p, s) == [q \in DOMAIN hubSecret \cup {p} |->
                     IF q = p THEN s ELSE hubSecret[q]]

\* The hub takes over the signing key and, unless it leaves the migrationData
\* out, switches to the new secret, whatever becomes of its reply.
HubMigrate ==
  /\ step = "migrate"
  /\ \E s \in Secrets :
       /\ \/ s = "ecdh" /\ Respond("ok", {})
          \/ Respond("unreadable", {})
          \/ Respond("garbled", {})
       /\ hubSecret' = Switched(phone, s)
  /\ UNCHANGED <<registered, verified>>

\* What was given up on is carried out after all.  (`auth` and setUserPassword
\* leave nothing behind that a later step depends on: the password set is the
\* one in force.)
RemoteLate ==
  \E r \in late :
    /\ \/ /\ r.step = "register"
          /\ registered' = Append(registered, r.attempt)
          /\ UNCHANGED <<verified, hubSecret>>
       \/ /\ r.step = "verify"
          /\ verified' = verified \cup {r.phone}
          /\ UNCHANGED <<registered, hubSecret>>
       \/ /\ r.step = "migrate"
          /\ \E s \in Secrets : hubSecret' = Switched(r.phone, s)
          /\ UNCHANGED <<registered, verified>>
    /\ late' = late \ {r}
    /\ UNCHANGED <<attempt, step, reply, local, keys, outcome, creds>>

HubDeny ==
  /\ step \in {"register", "verify", "migrate", "connect", "fetch"}
  /\ \/ Respond("refused", {})
     \/ step \in {"register", "verify", "connect"} /\ Respond("denied", {})
  /\ UNCHANGED remote

\* The device permissions in a reply: all of them if it is in plain JSON; the
\* first one if it is sealed, because its first block is lost, no JSON parser
\* takes the rest, and the pattern that salvages it matches one key; or none.
Permissions == {Doors, {}} \cup {{d} : d \in Doors}

\* `auth` and `setUserPassword`, which the hub can only read with its secret.
HubSdk ==
  /\ step \in {"auth", "clear"}
  /\ \/ Respond("invalid", {})
     \/ Respond("garbled", {})
     \/ /\ phone \in DOMAIN hubSecret
        /\ secret = hubSecret[phone]
        /\ \E found \in Permissions :
             Respond(IF step = "auth" THEN "key" ELSE "ok", found)
     \/ Respond(IF step = "auth" THEN "noKey" ELSE "failed", {})
  /\ UNCHANGED remote

HubList ==
  /\ \/ step = "connect" /\ (Respond("ok", {}) \/ Respond("garbled", {}))
     \/ step = "fetch" /\ \/ \E found \in {Doors, {}} : Respond("ok", found)
                          \/ Respond("garbled", {})
  /\ UNCHANGED remote

Over ==
  /\ step = "done"
  /\ outcome = "ok" \/ attempt = MaxAttempts
  /\ UNCHANGED vars
-----------------------------------------------------------------------------
Client ==
  \/ HubIdRead \/ Registered \/ Verified \/ Migrated \/ Refused
  \/ Authenticated \/ Cleared \/ NextKey \/ Connected \/ Fetched
Network == NetFail \/ Lose
Remote ==
  \/ CloudRegister \/ HubVerify \/ HubMigrate \/ HubDeny \/ HubSdk \/ HubList
  \/ RemoteLate

Next == Pair \/ Client \/ Network \/ Remote \/ Over

Spec == Init /\ [][Next]_vars

\* The event loop handles what has arrived, and every POST has a timeout.
FairSpec == Spec /\ WF_vars(Client) /\ WF_vars(Network)
-----------------------------------------------------------------------------
(* Properties.                                                             *)

\* Every variable holds a value of its kind.
TypeOK ==
  /\ attempt \in 0..MaxAttempts
  /\ step \in Steps
  /\ reply \in [kind : {"none", "ok", "denied", "refused", "garbled", "unreadable",
                       "key", "noKey", "failed", "invalid", "lost"},
               found : SUBSET Doors, phone : 0..Len(registered)]
  /\ phone \in 0..Len(registered)
  /\ secret \in Secrets
  /\ sessionKey \in BOOLEAN
  /\ devices \subseteq Doors
  /\ keys \in Seq({"NOKEY", "session_key", "pairing_password", "secret"})
  /\ outcome \in {"none", "ok", "auth", "pairing", "unreachable", "broken"}
  /\ creds \in [phone : 0..Len(registered), secret : Secrets, devices : SUBSET Doors]
  /\ registered \in Seq(1..attempt)
  /\ verified \subseteq DOMAIN registered
  /\ DOMAIN hubSecret \subseteq verified
  /\ hubSecret \in [DOMAIN hubSecret -> Secrets]
  /\ late \subseteq [step : {"register", "verify", "migrate"}, attempt : 1..attempt,
                      phone : 0..Len(registered)]

\* Credentials are only returned for a phone that this very pairing registered,
\* the hub accepted and whose signing key the hub took over, and they list at
\* least one of the hub's devices - whatever failed on the way (pair).
CredentialsEarned ==
  creds # NoCreds =>
    /\ creds.phone \in verified \cap DOMAIN hubSecret
    /\ registered[creds.phone] = attempt
    /\ creds.devices # {}

\* Once `auth` has shown that the hub reads with the phone's secret, it stays
\* the hub's for this phone, up to and in the Credentials, whichever key upgrade
\* that was given up on the hub carries out later: none of them is this phone's,
\* since v3migrate is not sent again when its answer fails to come.  (Without a
\* session key the Credentials may hold a secret that is not the hub's.)
SdkSecretLasts ==
  sessionKey =>
    /\ phone \in DOMAIN hubSecret /\ hubSecret[phone] = secret
    /\ creds # NoCreds => creds.secret = hubSecret[creds.phone]

\* A pairing that fails may leave a phone behind at the cloud and the hub, but
\* one only, even if its registration is carried out after it was given up on:
\* no pairing asks the cloud for a phone twice (_register_with_cloud).
OnePhonePerAttempt == IsInjective(registered)

\* Devices once discovered are not lost again before the pairing is over.
DevicesKept ==
  [][devices # {} /\ attempt' = attempt => devices' = devices]_vars

\* The Credentials list "every device ID this phone has access to under the
\* paired hub" (Credentials.devices).
EveryDeviceListed == creds # NoCreds => creds.devices = Doors

\* Every pairing returns or raises (the timeouts, the finite lists of keys).
PairingEnds == step # "idle" ~> step = "done"
=============================================================================
