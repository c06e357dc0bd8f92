# A TLA+ model of bnd-garage-client

`bnd-garage-client` is an asyncio library that controls a garage-door hub over
the LAN. These modules model what is hard to test in it: several tasks sharing
one negotiated session, retries and timeouts of requests that open a door,
results that arrive later and for somebody else, replies of which the first
block cannot be decrypted, and a pairing handshake with three parties. TLC
checks the models on small instances; TLAPS proves every safety and action
property that holds, and both refinements, for every value of the constants.

Sources are quoted relative to the repository; the package is
`src/bnd_garage_client/`.

## The system

| Part | State | Operations | Talks to |
|---|---|---|---|
| `HubClient` session layer (`client.py`) | `_session_token`, `_session_secret`, `_session_established_at`, `_session_lock` | `connect`, `_call`, `_active_session`, `_establish_session`, `_respect_rate_limit`, `close` | hub, control API: `app/connect`, then signed requests |
| `HubClient` commands (`client.py`, `const.py`) | none of their own; results wait at the hub | `send_command`, `open_door`, `close_door`, `stop_door`, `set_open_percent`, `set_*_lockout`, `set_advanced_parameter` | `_call` |
| `HubClient` queries (`client.py`, `models.py`) | none | `get_status`, `get_device_ids`, `get_hub_info`, `get_device_logs`, `get_wifi_diagnostics` | `_call` |
| `SdkClient` (`sdk_client.py`) | `_session_key`, `_session_expires_at`; no lock | `_ensure_session`, `call`, `get_notification_history`, `close` | hub, SDK protocol, through `sdk_protocol.py` |
| SDK envelope (`sdk_protocol.py`) | none | `fetch_hub_timestamp`, `send_signed_command`, `try_signing_keys` | hub: `sdk/info`, `sdk/message` |
| Reply decoding (`crypto.py`, `sdk_client.py`, `pairing.py`) | none | `decrypt_pairing_reply`, `repair_sdk_reply`, `_decode`, `_decode_pairing_reply`, `_extract_session_key` | |
| Pairing (`pairing.py`, `transport.py`) | `hub_id`, `phone_id` and the locals of `pair` | `read_hub_id`, register, verify, migrate, auth, setUserPassword, discovery | vendor's cloud, hub on both protocols |
| Data classes, constants, errors | none | `status_from_raw` | |

What is hard, part by part:

* **Session layer.** Coordinators share one client. asyncio switches tasks at
  every await, so that the lock around `_call`, the two attempts in it, the
  lifetime of the session, the hub's own idea of which sessions are alive, a
  timeout racing a late execution, a cancelled holder of the lock, and the
  public `connect()`, which takes no lock, all meet. Correct means: one call at
  a time inside; a request is carried out at most once; a normal return means
  that it was; what is signed belongs together; the rate limit is kept; all
  calls end.
* **Commands.** The hub answers at once or later, through a mailbox per phone.
  `send_command` polls it once. Correct means: an error is real, and is not
  reported twice; in calm surroundings, it is the caller's own.
* **Codes and status.** The numbers that say "lock out the phones" and the list
  that says whether they are. Correct means: what the caller meant happens, and
  what he is shown is so, even if he acts on an old status.
* **SdkClient.** No lock, local expiry, two exchanges between the check of the
  key and its use. Correct means: at most once, as above; how long a key can
  be in flight after it has expired is bounded; time stamps are fresh.
* **Decoding.** The first 16 characters of each reply are lost. Correct means:
  what is recovered is right, and success can be told from failure.
* **Pairing.** Up to nine awaits with three parties, any of which may fail after
  the other side has acted. Correct means: Credentials are for a phone that was
  registered, accepted and migrated in this very attempt; devices once found
  are not lost; a failed attempt leaves at most one phone behind; every attempt
  ends.

## Modules

| Module | Models | State and actions |
|---|---|---|
| `AtMostOnce` | the promise of `_call` to its callers; abstract | `status` (what the caller knows), `runs` (what the hub did); `Issue`, `Run`, `Succeed`, `Fail` |
| `HubSession` | session layer | a process per invocation, `pc` naming the await it is suspended at; one action for everything between two awaits |
| `HubSessionProofs`, `HubSessionLockedProofs` | | theorems about `HubSession`: always, and as long as nobody calls `connect()` |
| `HubQueries` | the five queries as readers of a reply's messages | pure operators |
| `DoorCommand` | `send_command`, `set_advanced_parameter` and the queries on an instance of `AtMostOnce` | `landed` is the hub's mailbox, `fate` what became of each request, `blame` whose failure was raised, `asked` and `told` what a query was and returned |
| `DoorCommandProofs` | | theorems about `DoorCommand` |
| `HubControls` | codes, encoding, feature list, status | `wire` is the action field on its way, `intent` what it was meant to do, `shown` the last `HubStatus` |
| `HubControlsProofs` | | theorems about `HubControls` |
| `SdkSession` | `SdkClient` with `try_signing_keys`, `fetch_hub_timestamp`, `get_notification_history` | `key`, `expiresAt` as in the code; every await of the two POSTs; `stamp`, the time a message carries; a clock; `forgotten`, the keys the hub has dropped |
| `SdkSessionProofs` | | theorems about `SdkSession` |
| `SdkReply` | decoding | pure operators, applied to every reply of a small universe in one step |
| `SdkReplyProofs` | | theorems about `SdkReply`, and the theory of scanning and parsing texts they need |
| `Pairing` | `PairingSession.pair` with cloud and hub | `step` is the await, `keys` the candidates left to `try_signing_keys`, `late` the requests given up on that may yet be carried out |
| `PairingProofs` | | theorems about `Pairing` |
| `MC...` | instances for TLC | constants, symmetry |

`DoorCommand` builds on `AtMostOnce`, and `HubSession` and `SdkSession` are
shown to implement it, so that what `DoorCommand` assumes of `_call` is what the
session layer provides. `Pairing` takes from `SdkReply` that a sealed reply
shows one door (`SealedShowsOneDoor`, `Permissions`).

Definitions called a *mutation* are not part of a model: each is a plausible bug
in place of the definition that follows it, and makes a property fail.

### HubSession and the code

| Code | Model |
|---|---|
| `_call` up to `async with lock` | `StartCall` |
| lock taken, `_active_session`, first POST | `Acquire`, `Usable`, `Post`, `PostConnect` |
| answer to `app/connect` | `HandleGrant`, `HandleNoSecret`, `HandleBadLimit`, `HandleRefusal` |
| end of `_respect_rate_limit`'s sleep | `Wake` |
| 403 on the first attempt | `HandleRejection` |
| any other answer | `HandleReply` |
| `ClientTimeout`, `ClientError` | `NetFail` |
| cancellation of the task, at any await | `Cancel` |
| `connect()` | `StartConnect`, then the same actions, without the lock |
| `close()` | `Close`; a POST after it raises `RuntimeError` |

Exceptions are outcomes: "auth", "unreachable" for the two `GarageError`s, and
"broken" for those that are none (`KeyError`, `TypeError`, `JSONDecodeError`,
`RuntimeError`). A session is a number that is both its token and its secret, so
that a half-stored one shows as two different numbers. A request that is
abandoned while in flight stays in `late`, where the hub may still carry it out.

### What is assumed of the other side

The hub and the cloud are not in the repository. Their actions are taken from
how the client treats them: a 403 says that nothing was carried out (that is
why the code retries it); any other status, a lost answer or a garbled one says
nothing; a signature with another session's secret is refused; the mailbox
hands each result over once, with any reply, before the reply's own message, and
loses what it hands to a call that was given up; a query is answered at once; a
message without the hub's own time may be turned down; the SDK secret decides
whether the hub can read a message; fields come in the order the tests show; the `cmd` field of an action
holds one byte; `connect()` of a phone may end its earlier sessions.

In `HubSession` the wall clock of the rate limit and the monotonic clock of the
session's age run together, and the tenth of a second added to the sleep is left
out. Between a 403 and the second attempt aiohttp releases the response; that
this does not yield to another task is part of `HandleRejection`.

## Runs

| Run | Module, configuration | What it shows |
|---|---|---|
| `session_delivery` | `MCHubSession_delivery` | `OneCallAtATime`, `ExecutedAtMostOnce`, refinement of `AtMostOnce`, with two calls, a `connect()`, faults, timeouts, a cancelled task, `close()` |
| `session_locked` | `MCHubSession_locked` | `RetryUsesOwnSession`, `TornSessionUnused`, `SessionAccessSerialized`, `RateLimitRespected` with all faults and a caller that may be cancelled, when nobody calls `connect()`; `EveryOpEnds` |
| `session_rejected_twice` | `MCHubSession_rejected_twice` | violated: the second 403 raises the wrong error, `client.py:541` is dead code |
| `session_connect_unlocked` | `MCHubSession_connect_unlocked` | violated: `connect()` changes the session under a running call |
| `commands` | `MCDoorCommand` | `EveryErrorIsReal` and `StatusIsOwn` always, `ExactVerdict` and `CalmQueriesExact` in calm surroundings |
| `controls` | `MCHubControls` | `IntentCarriedOut` (which includes that ending the phone lockout is never refused), `StatusTellsTruth` |
| `sdk_session` | `MCSdkSession` | `OverrunBounded`, `StampFresh`, refinement of `AtMostOnce` |
| `sdk_auth_error` | `MCSdkSession_auth_error` | violated: a timeout of the `auth` exchange is reported as rejected credentials |
| `reply_repair` | `MCSdkReply_repair` | `LongNamesRepaired`, `ErrorCodeSurvives`, `SessionKeyRecovered`, `SealedShowsOneDoor` |
| `reply_silent_loss` | `MCSdkReply_silent_loss` | violated: a short first field vanishes, value included |
| `pairing` | `MCPairing` | `CredentialsEarned`, `SdkSecretLasts`, `OnePhonePerAttempt`, `DevicesKept`, `PairingEnds` |
| `pairing_devices` | `MCPairing_devices` | violated: one of two doors is listed |

### Bounds

* `HubSession`: two calls race for the lock and the session fields. They are not
  enough for everything: with three, the answer to one grant is lost, a second
  grant names a moment that cannot be read, and a third call uses that session,
  which is why `nextAccess` is what the hub announced with its newest session,
  nothing if that cannot be read. The theorems cover every number of calls. A
  `connect()` is a second writer. The clock
  runs to `MaxClock`, with a lifetime of one tick: a session can be fresh, on
  the edge and expired. `nextAccess` is now or a tick ahead. Grants stop where
  `nextAccess` would pass `MaxClock`. `HubForget` is confined to sessions that
  somebody still knows of. `session_locked` starts the clock at one lifetime:
  a monotonic clock below `SESSION_LIFETIME_SECONDS` (a host up for less than
  two minutes) lets a half-stored session look fresh against the initial time
  stamp 0.0, and it would be used once and be refused.
* `session_delivery` lets either call be cancelled, so that the two remain
  interchangeable, and its symmetry sound; `session_locked` checks liveness and
  does without symmetry, with one call that may be cancelled.
* `session_locked` leaves out `connect()`, and `RateLimitRespected` speaks of
  runs in which no call has been cancelled, because it fails with them: the
  session is stored before the sleep, so a call cancelled in it leaves a session
  behind that the next call uses at once, ahead of `nextAccess`. The moment in
  question is the one that came with the newest session: whoever never learns of
  it, because the answer was lost, asks the hub for another session anyway.
* `DoorCommand`: two senders and a setter give every way of receiving another's
  result, and one query every way of meeting one; unless it is calm, `MaxRough`
  lets three of the four take place. The number of messages is bounded by the
  number of commands.
* `HubControls`: a slot with codes below 256 and the one with codes above it are
  listed, two are not; a preset with the code 256, the first that needs the
  `base` field; the lowest percentage, one that is refused, and the highest.
* `SdkSession`: a tick is ten seconds. The margin and an `sdk/info` exchange are
  one tick; the floor of 5 seconds and the 15 of an `sdk/message` exchange are
  rounded up, to one tick and to two. A grant lasts two ticks, or is not read
  and taken for the default of three. That the margin is to "avoid a request
  racing against expiry mid-flight" (`sdk_client.py:28`) cannot be had with these
  timeouts: a request that leaves with the last cached second may be under way
  for 25 more. `OverrunBounded` holds for all of them and says how late the race
  can be. `MaxClock` is past the end of the grant, so that calls do meet an
  expired key. Both calls are `get_notification_history`s, which are calls with
  a check in front of them.
* `SdkReply`: lengths around the 6 and 5 characters of a name, and the 7 of a
  string, that lie within the lost block.
* `Pairing`: three attempts, so that a later one meets what an earlier one left
  behind, and what is still being carried out for it; two doors, to tell all
  from one.

### Fairness

`HubSession`: the event loop runs what is ready, so the steps after an answer
are weakly fair; each POST carries a `ClientTimeout`, so `NetFail` is weakly
fair; `asyncio.Lock` is first come, first served, so `Acquire` is strongly
fair; time passes. Nothing is assumed of the hub, of callers or of `close()`.
`Pairing`: the client's steps and the timeouts, nothing of the remote side.

## What is proved

`HubSessionProofs`, for all sets of calls and connects, all lifetimes, fault
sets, throttles, cancellations and clock bounds:

* `TypeCorrect`, `MutualExclusion`, `AtMostOnceExecution`: `Spec` implies
  `[]TypeOK`, `[]OneCallAtATime`, `[]ExecutedAtMostOnce`;
* `Refinement`: `Spec` implies `ImplementsAtMostOnce`.

None of the properties is inductive: that a request has not run yet when the
hub serves it depends on what is still in flight, and a `connect()` must not be
able to free the lock or to send a request. The invariant `IInv` adds
`ConnectsOnlyConnect`, `OutcomeWhenDone` and `Delivery`: where a call stands
with the hub at each await. A request in flight has not run, a 403 says that it
has not, a good answer that it has, and an abandoned one is in `late` only as
long as it has not. There is a lemma for each action; the steps that end an
invocation share `LeaveLocals` and `FinishLocals`, POSTs `PostLocals`. In the
refinement, whatever moves an invocation to another await is a stutter
(`MovingStutters`), ending is `Succeed` or `Fail` (`LeavingImplements`), and
what the hub carries out is `Run` (`ExecutingImplements`).

The assumptions are those named in `HubSession`: calls and connects are
disjoint, the lock's `NoOne` is none of them, times are natural numbers.

`HubSessionLockedProofs`, for the same constants, as long as nobody calls
`connect()` (with it, `session_connect_unlocked` shows the first one violated,
and a second writer falsifies the invariant on which the others rest):

* `AccessIsSerialized`: `Spec` implies `SessionAccessSerialized`, from
  `OneCallAtATime` alone;
* `RetriesUseTheirSession`: `[]RetryUsesOwnSession`;
* `RateLimitKept`: `RateLimitRespected`;
* `TornSessionsUnused`: `[]TornSessionUnused`, if the host has been up for a
  session's lifetime when the client is created.

The invariant `Locked` adds to `IInv` what the lock is for: a call negotiates
only because there is no usable session, and finds none when the answer arrives
(`NegotiatesForNeed`); the session it sleeps on is the one that is stored when
it wakes up (`SleepsOnItsSession`). `Rated` adds for the rate limit that the
grant on its way, or slept on, names what the hub announced last, and that a
usable session nobody sleeps on has been waited for. It holds until somebody is
cancelled, which nobody takes back (`CancelledStays`). For half-stored sessions,
`LongUp` says that the clock has passed one lifetime and that no token means no
time stamp.

`HubControlsProofs`, for all sets of advertised slots, presets, percentages and
stops: `IntentsCarriedOut`, `StatusIsTrue` and `TypeCorrect`. That the command
which ends the phone lockout is never refused is the part of `IntentsCarriedOut`
that the lemma `LockoutEnds` carries.
The invariant `IInv` says what the properties leave open: the command on the
wire is the code of what the caller meant (`WireMeansIntent`), and a toggle that
a caller was shown carries one of its own slot's two commands, the one that ends
the state it was shown in (`ShownTogglesOwn`). It stays true however old the
status is. The lemmas below it are facts of the code tables (`EffectiveOfAction`:
`_effective_command` undoes `_action_for_command`; `PercentCodeFits`;
`CodesApart`) and of reading a list of any order back (`ToggleIsOwn`,
`ListReadBack`). The assumption on presets is that none of their codes is a
toggle's, a door's or a percentage's.

`DoorCommandProofs`, for all sets of senders, setters and queries, and every
bound on them: `ErrorsAreReal`, `StatusesAreOwn`, `VerdictsAreExact`,
`CalmAnswersAreExact` and `TypeCorrect`. There are two invariants. `Safe` holds
in any surroundings. It says where an invocation stands with its two requests
(`CallsAccounted`, `PollsAccounted`), whose a message in the mailbox or in a
reply can be (`OwnersKnown`), that a failure is in one place at most, the
mailbox, one reply or one error raised (`FailuresOnce`), and that the reply to a
query ends with the query's own answer, behind messages without a body
(`QueryAnswered`). `Calm` says for calm surroundings what the mailbox and the
reply hold at each await of the one invocation that runs (`Calmly`), and that it
leaves an empty mailbox to the next. The lemmas below them are about `First`:
the first of any set of positions is one of them, exists because natural numbers
are well-founded, and the first failure in a reply is the failure of some
command. The assumptions are that senders, setters and queries are disjoint.

`SdkSessionProofs`, for all calls, grants, delays and margins: `StampsAreFresh`,
`OverrunsBounded`, `TypeCorrect`, and `Refinement`: `SdkClient.call` implements
`AtMostOnce`. None of them assumes that the margin covers the exchanges. The
invariant says that no exchange outlasts its delay (`WithinBounds`), when a stamp
was read (`StampedLate`), where a call stands with the hub (`ServedOnce`,
`LateOnce`), and until when each key is cached or on its way (`GrantLasts`,
counted from the `Deadline` of its grant, the cached lifetime after it): an `auth`
exchange later at most in the cache, and by the exchanges still to come later in
the hands of a call, whichever call stored it and whichever overtook.

`PairingProofs`, for all sets of doors and any number of attempts:
`OnlyEarnedCredentials`, `SdkSecretsLast`, `OnePhoneEach`, `DevicesAreKept` and
`TypeCorrect`. The invariant says what the cloud and the hub hold at each step
for what the attempt has built up (`Progress`) and for the answer on its way
(`AnswerTrue`); that a request given up on belongs to a pairing that is over or
that failed before it had a session (`LateIsPast`), so that carrying it out late
changes neither the phone nor the secret of a pairing in progress; and that a
pairing's registration is under way, late, or carried out, and only one of these
(`AskedOnce`).

`SdkReplyProofs`, for all sets of lengths of names, strings and numbers
(`LengthsAssumption`: positive natural numbers): `ErrorCodeAlwaysSurvives`,
`LongNamesAlwaysRepaired`, `SessionKeyAlwaysRecovered` and
`SealedAlwaysShowsOneDoor`. The state machine has one step, so the invariant
(`Answered`) only says that what was decoded was decoded from a reply, and the
theorems come down to what the decoding yields for each of the replies that the
lengths give. The shapes of the data are those of `Datas`, with two fields or
objects at most; the lengths are arbitrary. Three theories carry the proofs:

* *Scanning and parsing.* A scan of two texts joined is the scan of the second
  from where the first ends (`ScannedJoined`); one lexeme more is one step of
  the parse (`ParsedMore`), and a parse that has failed stays so
  (`FailureStays`). `Takes` says which state of the parse a text leads to from
  which; it is composed along a reply's fields. What needs induction over a
  text is reduced to sets of numbers: a set that holds 0 and the successor of
  each of its members holds all numbers, or there would be a least one outside
  (`Counting`, from the library's theorem on least elements).
* *The cut.* Which token the lost block ends in follows from the widths of what
  stands before it (`IsCut`, `Widths`, `CutAt`); what is left of that token, and
  all that follows it, is as it was (`TailTyped`, `TailJoined`). `Ending` always
  lies behind the cut (`EndingStays`): the guesses keep it, and the pattern finds
  it, so that the error code survives.
* *The guesses.* Texts that differ in one name alone have the same lexemes but
  for that name (`SameBut`, `Alike`), so the right guess is JSON as the original
  is, and returns it but for the name. Each guess before it fails for good
  (`GuessFails`): for a list, the first guess takes the end of the first object
  for the end of the data, and meets a brace where a name must be; for a string,
  both take it for a name, and no colon follows.

A sealed reply is never JSON: the lost block always ends in a token that opens
no bracket (`FlatCut`), so that what is left begins with a complete value or
with an error, and the ending follows (`NotJson`). It shows one door, because
what stands six tokens behind the name of the permissions is the first door,
and no other part of a reply has that name (`OneDoor`, `Unnamed`). It does show
it if the permissions are not the first field, whose name is the one that the
cut can hit (`DoorsShown`).

Only model-checked:

* liveness, `EveryOpEnds` and `PairingEnds`: the prover has no fairness;
* the violated properties of the next section, of which TLC shows a run.

## Disagreements between code and documentation

* `client.py:526`: a second 403 raises `HubUnreachableError`; the
  `AuthenticationError` after the loop (`client.py:541`) cannot be reached.
* `client.py:264`: `connect()` bypasses the lock whose comment says that it
  serializes access to the session state.
* `crypto.py:121`: a short first field is dropped with its value, while the
  docstring says that every value survives.
* `sdk_client.py:142`: a timeout of the `auth` exchange raises
  `AuthenticationError`, which `errors.py:15` keeps for rejected credentials.
* `pairing.py:512`: only the first device of an encrypted reply is listed, while
  `models.py:33` promises every one.

Seen while modelling, without a run of their own: an unusable answer with status
200 raises exceptions that are no `GarageError` (`errors.py:7`); the one poll of
`send_command` may come before the result (`client.py:425`); `sdk_secret` may be
the original secret (`models.py:46`); the margin of 10 seconds does not "avoid a
request racing against expiry mid-flight" (`sdk_client.py:28`), since the client
itself allows its exchanges 10 and 15 seconds (`sdk_protocol.py:61`, `:86`), and
`OverrunBounded` says what is true instead; a `devices/fetch` answer that is JSON
of another shape than expected raises `AttributeError` or `TypeError` out of
`pair` (`pairing.py:411`-`431`).

## Not modelled

* Cryptography and TLS: library functions. The models take from them that a
  signature with another secret is refused, and `SdkReply` that a reply decrypted
  without its IV lacks its first block. The envelopes' other fields (IDs,
  request numbers, headers) carry nothing that a property speaks of.
* The fields of statuses, logs, samples and notifications beyond those the
  properties compare: they are copied one by one.
* Messages without a `processState`: the hub is taken to state it. Where it does
  not, `client.py:423` reads -1 and raises, while `client.py:363` and `:429` do not.
* The `state` that `SdkClient._decode` salvages beside the error code
  (`sdk_client.py:118`): no property speaks of it.
* Cancellation of `SdkClient.call` and of `pair`: neither holds anything that it
  would have to give back.
* Liveness of `SdkSession`: its calls wait for nothing but their own POSTs, and
  never for each other.
* `__init__.py` exports names.
* Labels, logs, titles, and their order.

## Plan

Order of work: the session layer first, because every request passes through it
and two tasks share it; then what is built on it (`DoorCommand`, `HubControls`);
then the second client (`SdkSession`, `SdkReply`); then `Pairing`; then the
queries beside the commands, time stamps and forgotten keys, and requests that
outlive their pairing. All of these exist. So do the proofs of every safety and
action property that holds, and of both refinements.

What is left: the unlocked `connect()`, of which the theorems say that it
neither breaks the lock nor makes a request run twice, and a run shows that it
changes the session under a call. Which weaker promise about the session's
fields survives it is open.
