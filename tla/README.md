# TLA+ verification of Eblusha Plus

Eblusha Plus is a messenger: a TypeScript server (`src/src`, Express, Socket.IO,
Postgres through Prisma, Redis, BullMQ), a React web client (`src/frontend`), an
Android application (`src/android`, with an older Capacitor wrapper in
`src/capacitor`). The server has no locks of its own. What it keeps consistent it
keeps by three means: Node runs one callback at a time, single SQL statements
and Redis scripts are atomic, and rows are updated on a condition. Everything in
between, and there is an `await` on nearly every line, is open to other requests.
That is what these modules model: **the steps between awaits**.

Paths are given as in the repository tree, `src/...`; `PROJECT.json` maps every
definition to the lines it models.

## 1. Inventory

| Component | Code | State | Operations | What is hard |
|---|---|---|---|---|
| Refresh-token sessions | `src/src/lib/authSessions.ts`, `routes/auth.ts`, `lib/adminUsers.ts` | table `refreshToken`: a chain of rows per session (`replacedByToken`) | login, refresh (rotation), logout, device revocation, ban, unban | two refreshes of one token, retries after a lost answer, logout or ban against a rotation in flight, the 16-hop limit |
| Direct calls | `src/src/realtime/socket.ts` | maps `callState`, `activeDirectCalls`, `callRingTimers`, `directCallGraceTimers` | `call:invite/accept/decline/end/room:join/room:leave`, `disconnecting`, ring timer, two grace timers | handlers suspended in a query while the maps change, glare, reconnects, timers against late events |
| Group calls | `src/src/realtime/socket.ts` | `callState`, `activeGroupCalls`, `groupAloneTimers` | the same events, `finishGroupCall`, `syncGroupAloneTimer` | several ways to leave last, timers that outlive their call |
| Presence | `src/src/realtime/socket.ts` | Redis sets of sockets, a queue per user, `user.status`, throttle maps | connect, activity, disconnect, recompute, deferred flush, sweep | ordering of recomputations, skipped writes, crashes of the server |
| Secret inbox | `src/src/routes/secret.ts`, `src/src/lib/secretInbox.ts`, `src/frontend/src/domain/secret/SecretInboxPump.tsx` | `secretMessage`, `secretDelivery`, Redis list, seen marks and payload cache per device, attempts in the client | push, send, pull, ack, decryption | three stores without a transaction, lost requests, repetition, poisoned messages at the head of the list |
| Secret threads | `src/src/routes/threads.ts`, `ChatsPage.tsx` | conversation status, pinned device; keys in the devices | create, accept, decline; mint, share, request and import a key | two devices accept at once, old events, lost key packages |
| Devices, prekeys, pairing | `src/src/routes/devices.ts`, `routes/e2ee.ts`, `deviceManager.ts` | `userDevice`, `devicePrekey`, `devicePairing`; secrets in the browser | register, publish, claim, pair, revoke | count-then-insert caps, answers that are lost, two tabs |
| Conversations and messages | `src/src/routes/conversations.ts`, `routes/messages.ts` | rows of members, messages, reactions and receipts | add, leave, send, edit, delete, react, read | what is written and what is announced are different steps |
| Call E2EE keys | `src/src/lib/callE2ee.ts`, `routes/calls.ts` | one Redis key per conversation | get or create, ensure at accept | get-then-set against set-if-absent |
| Chunked uploads | `src/src/routes/upload.ts` | a directory per upload | init, part, complete, delete, collector | complete against delete or a repeated part |
| Link previews | `src/src/jobs` | a queue, message metadata | enqueue, fetch, write | lost update of metadata |
| Registration invites | `src/src/lib/registrationInvites.ts` | a code per user | rotate, resolve | unique-code retry |
| Web client, session | `src/frontend/src/core/auth/session.ts` | tokens, a refresh in flight, a timer | refresh, send again, log out, log in | answers of before a login, requests that wait for one refresh |
| Web client, chats | `src/frontend/src/ui/pages/ChatsPage.tsx`, `useChatSocketSubscriptions.ts` | the list, a message cache per conversation, cursors of older pages | queries, polls, events, selection, resume | answers and events overtake each other, are abandoned or lost |
| Web client, calls | `src/frontend/src/core/call-state`, `ChatsPage.tsx` | the call store, pending answers of the lock screen, ring and dial timers | ring, accept, decline, hang up, replay | handlers that outlive their page, timers against events, answers by several ways |
| Files, storage, invites, admin, LiveKit, scripts, rendering, mobile | the rest | rows and files | one query per request, streaming, rendering | little concurrency, or outside TLC's reach |

The components meet in four places. A ban or a device revocation ends sessions and
disconnects sockets. The sockets of `socket.ts` carry call events and presence;
`disconnecting` runs through calls first and presence last. Devices receive secret
messages through the inbox, woken by `secret:notify`; what sets up the key of a
secret chat travels the same way. The client's session interceptor sits before
every HTTP request, and its pages follow the server by events, which may be lost,
and by queries, which are repeated.

**What makes each component correct.** Sessions: a session is one chain, a logged
out session stays dead, a retry never logs anybody out. Calls: one record per
call, no invite lost to another, no ring for an answered call, no call without
somebody in it or a timer to end it. Presence: the status follows the last change
and reaches the database in the end. Inbox: at-least-once delivery, an answered
push is kept, nothing blocks the list. Secret chats: one live thread per pair, one
device pinned, one key on both sides, held by the chosen devices only; a prekey
that can be claimed has its secret. Client: only a revoked session signs the user
out; a page comes to show what the server stores, without holes; a client rings
for the call it shows and answers it once.

The hazards, line by line, with the properties that cover them or the reason why
none does, are in `PROJECT.json` ("hazards").

## 2. The modules

| Module | Models | State ↔ code |
|---|---|---|
| `SessionStore` | what the sessions promise (abstract) | `tips` are the tokens a session works with, `used` all it ever had |
| `RefreshSessions` | the sessions at the server; refines `SessionStore` | `status`, `sess`, `dev`, `next`, `expired` are columns of `refreshToken`; `lock` the row lock of an open transaction; `job[p]` the request `p` with the await it is suspended at |
| `CallInfo` | `ActiveCallInfo`, `addParticipant`, `removeParticipant` | a function from users to their sockets |
| `CallLife` | what the 1:1 calls of a conversation promise (abstract) | `call` is the call that rings or was answered, `placed` counts the calls |
| `DirectCall` | 1:1 calls of one conversation; refines `CallLife` | one variable per map; `task[k]` a suspended handler, `st` its snapshot of `callState` |
| `GroupCall` | group calls of one conversation | the same; `alone` is `groupAloneTimers`, `clock` numbers `Date.now()` |
| `Presence` | the presence of one user | `socks`, `active` are Redis sets; `queued` and `run` the promise chain of `presenceUpdateQueue`; `observed`, `timer`, `flush` the throttle; `sweep` the periodic repair; `db` is `user.status` |
| `Mailbox` | what an inbox promises (abstract) | `held`, `handled`, `excused` |
| `SecretInbox` | the inbox of one device, end to end; refines `Mailbox` | `stored`, `rows` in Postgres; `list`, `seen` in Redis; `push`, `pull`, `acks` requests in flight; `attempts`, `got`, `given` the client |
| `SecretThread` | secret chats of two users at the server | `conv` is the conversation row with its pin; `req` accepting and declining requests and socket events between read and write |
| `Prekeys` | one-time prekeys, at the server and in a device with several tabs | `free`, `taken` are `devicePrekey`; `secrets` the browser's store; `pub[b]` a publication of a tab |
| `SecretSetup` | how devices get the key of a secret chat; composes the two above with the clients | `key` the key store; `job` a share in progress; `msgs` the inboxes; `events` socket events; `attempted`, `receipts` the marks a client keeps |
| `ChatSync` | a page that follows a group conversation: membership, list, newest messages | `member`, `sent`, `post`, `moving` the server; `room`, `joins`, `wire` the socket; the rest the page |
| `History` | older pages of several conversations in one page | `cache` and `meta` as in the code, `saved` is `olderMetaByConvRef`, `load` a page on its way |
| `MessageState` | one message: edits, deletion, reactions, receipts, and a page that shows it | `row` the message's row; `reqs` requests between write and announcement; `copy` the cached message |
| `SessionClient` | the session of the web client | a token is a login and a number, of its row or of its issue as an access token: `gen` and `signed` are the newest of each; `store` is the session of the store, `refresh` is `refreshPromise`, `xhr` the requests, the timer's refresh and the check at the start |
| `CallClient` | direct calls in one client | `ui` is the call store, the answers of the lock screen and the refs of the pages with their timers; `pages` the pages mounted so far; `jobs` what waits for the user; `todo` the answers being replayed |
| `RefreshSessionsProofs`, `PresenceProofs`, `DirectCallProofs`, `SecretInboxProofs` | theorems about the module of that name | |
| `CallClientProofs` | theorems about `CallClient`, and about `MCCalls` with those of `DirectCallProofs` | |
| `ConversationProofs` | theorems about `GroupCall`, `ChatSync`, `MessageState` and `MCConversation` | |
| `SecretSetupProofs` | theorems about `SecretThread`, `Prekeys` and `SecretSetup` | |
| `WebClientProofs` | theorems about `History` and `SessionClient`, and about `MCWebClient` with those of `SecretSetupProofs` | |
| `MC...` | instances for TLC | |

Six of the MC modules hold instances of several components that share a run:
`MCConversation` (`GroupCall`, `ChatSync`, `MessageState`), `MCSecretServer`
(`SecretInbox`, `Prekeys`), `MCWebClient` (`SecretSetup`, `History`,
`SessionClient`), `MCLive` (`RefreshSessions`, `SecretSetup`), `MCCalls`
(`DirectCall`, `CallClient`) and `MCCallsThreads` (`MCCalls`, `SecretThread`). Their
initial state chooses the part that moves, and the others stand still: this is a way to run them together and says nothing of how they
interact. They extend the modules whose properties are proved, so that a run and a theorem
speak of the same definition, and TLC evaluates the assumptions. Components that
do interact are composed in modules (`SecretSetup`) or meet in an abstract specification:
`Mailbox` is what `SecretInbox` implements and `SecretSetup` builds on, `SessionStore` what
`RefreshSessions` implements and the server of `SessionClient` keeps to. `CallLife` has one
implementation, `DirectCall`.

Every handler is split at its awaits and nowhere else: what runs between two of
them is one action, with all its assignments. A query that throws is an action
too (`QueryFails`, `PostFails`, `PullFails`, `SweepFails`, a failed Redis command
in `Presence!Redis`). Timers are armed or not, and an armed one may fire at any
moment, which covers every length of the delays. Definitions that are marked
*Mutant* in a comment are not part of the model: they are plausible bugs, each
paired in `PROJECT.json` with the property that notices it.

### RefreshSessions

A rotation is an interactive Prisma transaction: its conditional `UPDATE` takes
the row lock (`BeginRotation`), the insert and the commit are `CommitRotation`. If
the update matched nothing the request goes back to the chain (`LoseRace`,
`Walk`), which is followed for at most `MaxHops` rows (16 in the code). Logout,
device revocation and ban are one `updateMany`: it takes a snapshot (`RevokeScan`),
waits for the locks on the rows it found and writes those that still match
(`RevokeApply`), as READ COMMITTED does. A row inserted between the two is missed.
This is why a *session* being logged out is safe (a row found is locked by the
very rotation that would insert its successor, and no longer matches afterwards,
so the session is not dead at that point) and a *ban* is not (see findings).

`SessionStore` says what must come of this, without rows, locks and requests: a session
has at most one token to be rotated with, each rotation replaces it by one that no
session had, and a session that was closed has none ever after.

### DirectCall, GroupCall

The two share the handlers and `CallInfo`. They are separate modules because a
conversation is one or the other for good, and each handler branches on it at
once. One server process is modelled: `callState` and the active maps are kept in
memory by the process and shared with no other. A client may send any event at
any time, from any of its sockets, and may be gone when its handler resumes.

`CallLife` says what must come of `callState` in a 1:1 conversation, without sockets that
come and go, timers and handlers in flight: there is one call at a time, nobody's invite
takes the place of one that rings, it is answered once and for good, and a call that is
over is not there again. It does not say who may end a call: the handlers do not agree on
that (see findings).

### Presence

Redis commands of the one process go over one connection and take effect in the
order they are sent; writes to the database do not (pool). `slipped` records that
Redis changed without a recomputation that follows (a failed command, an expired
key), `mixed` that two database writes were in flight together or the last one
failed: after these the code promises nothing until the next change, and the
properties say so. `Restart` loses the memory and leaves Redis alone.

### SecretInbox

`/messages/push` writes the message, then the deliveries, then the Redis list by
one script, each after an await; `/send` writes the first two in one transaction.
Pulls read the head of the list, look up payloads (the cache may or may not still
have them), and drop ids that nothing can serve. The pump acks what it imported
and what it gave up (`given`); it does not wait for acks. It gives up a key package or control
message that it failed to decrypt more than twenty times, or first tried half an hour ago,
and forgets the attempts at one it has not tried for as long: times are not modelled, so a
message may be old once there was an earlier attempt (`Old`), and attempts may lapse
(`Lapses`). Attempts are counted on without end; the model stops one above the threshold,
where more make no difference. An item of `/send` of any other kind (`Skipped`; the default
header of the route makes one, `secret.ts:99`) has no thread and is passed over, neither
acked nor counted (`SecretInboxPump.tsx:576`). Keys expire: a seen mark may
expire at any time, the list only when every mark of its entries is gone, since
each entry sets its mark for as long as it extends the list. `excused` collects
what was in the list when it expired and what an operator purged.

### SecretThread, Prekeys, SecretSetup

A thread is created under an advisory lock of the pair, so creation is one step; accepting
and declining read the row and write it later without looking again, which is why
the pin can be replaced by a request that overlapped. The older socket events `secret:chat:accept`
and `secret:chat:decline` write the same columns; the first looks at neither pin nor creator.
Nothing else replaces a pin (`PinReplacedByOverlapOrEvent`). The events are not in
`SecretSetup`: no client emits them (the Android application has the methods, which nothing calls).
Publishing prekeys stores the secrets, posts the keys, and drops the secrets of
those the answer does not accept; the server counts and then inserts, so it can
exceed the cap, by what is published at the same time (`OvershootBounded`).
In `SecretSetup` keys are named after the device that generated them. A share claims a
prekey, encrypts and posts; a package that cannot be opened is reported missing, a
device without a key asks for one, a page that is opened shares again. `Mailbox` is
what it assumes of the inbox. Revocation is in `Prekeys` and not composed. The engine
behind `SECRET_ENGINE_V2`, which no build sets, is left out, and with it what only it
or the debug page calls.

### ChatSync, History, MessageState

All three are a page of the web client against the server's routes. In React Query a
`refetch` or an invalidation abandons the fetch in progress, and a cached answer of before
an event can replace what the event brought: the models do both. `ChatSync` has one
message of others, memberships that change while the list is read, and rooms that
are joined after a query. `History` has cursors, the copy of the cursor that is
shown, and answers that arrive for a conversation no longer selected. In it the page stays mounted: a remount
of `ChatsPage`, where a cache of several pages outlives the cursors of the page, is not modelled.
`MessageState` has the page of the author or of the reader; edits, deletions, reactions
and receipts are written in one step and announced in another.

### SessionClient, CallClient

`SessionClient` takes from `RefreshSessions` what a client sees of it: the newest row of a
login is rotated, an older one of the chain is answered with the newest, a revoked login is
refused, and every answer has an access token of its own. Requests that were refused
wait for one refresh and are then sent again; the user may log out and in
meanwhile. The check of a stored session when a page is loaded refreshes once more when it fails or its refresh is
lost; loading the page is counted as a fault, so it takes two to see the latter. `CallClient` is a client against a server that may send anything
(`DirectCall` says what it really sends). A handler and the effects React runs after it are
one step; what waits is the question for the microphone, timers, and answers given
on the lock screen before a page is there.

## 3. Runs

All bounds are constants of the configurations, and all passing runs are
exhaustive within them.

| Run | Checks | Instance |
|---|---|---|
| `refresh_sessions` | `TypeOK`, `SessionIsChain` (`OneTipPerSession` and `ChainKeepsIdentity`), `KeepsStore`, `NoSpuriousDenial`, `AnswersOwnSession` | 3 tokens, 2 sessions, 1 device, 2 requests, 2 hops |
| `live` | `RequestsFinish`, `KeyArrives` | sessions: 2 tokens, one of them a row older than sessions; secret chats: 1 device of each user, 2 prekeys, 1 fault |
| `refresh_ban_race` | `BanRevokesAll`, violated | as `refresh_sessions`, with a legacy row |
| `direct_call` | `PartsTypeOK`, `NoPhantomRecord`, `KeepsLife`; `RingerIsShown`, `AnsweredOnce`; `OneLiveThread`, `PinReplacedByOverlapOrEvent` | server: 2 users with a socket each, 2 handlers in flight and the grace task, 2 calls; client: 2 conversations, 1 page, 4 acts; secret chats: 2 devices of each user, 2 conversations, 2 requests |
| `call_recorded_twice` | `OneRecordPerCall`, violated | the server as above |
| `call_redial` | `RedialKeepsRinging`, violated | a second socket for one user, 1 call |
| `conversation` | `PartsTypeOK`; `AloneHasTimer`, `NoEmptyCall`, `AloneCallEnds`; `ListIsCorrected`, `UnreadIsReported`; `PageConverges` (`ListConverges` of `ChatSync`, `PageAndServerAgree` of `MessageState`), `NewestArrive` | group calls: 2 users with a socket each, 2 handlers, 2 reads of the clock; list: 1 message, page of 1, 2 acts, 1 fault; message: 1 act besides what the page does, 1 fault |
| `group_duration` | `DurationOfCall`, violated | 2 sockets, 2 reads of the clock |
| `presence` | `TypeOK`, `SettledPresence`, `SkippedWriteHasFlush`, `AbsentUserGoesOffline` | 2 sockets, 2 recomputations waiting |
| `presence_sweep` | `SweepSparesConnected`, violated | as above |
| `secret_server` | `TypeOK`, `KeepsMailbox`, `AnsweredIsKept`, `InboxDrains`; `ServableHasSecret`, `OvershootBounded` | inbox: a thread message, a key package and an item the pump passes over, 1 sender, 1 pull, window 2, poison threshold 1, list of 3; prekeys: 1 device, 2 tabs, 4 keys, cap 2, batch 1 |
| `web_client` | `PartsTypeOK`; `KeysAgree`, `OnlyChosenAreKeyed`, `OnlyRepeatsMiss`, `KeyNotForgotten`; `NoHoles`; `RetriesWithNewer`, `SignedOutOnlyWhenRevoked` | setup: 1 thread, 2 devices of each user, 1 prekey, 2 shares, 1 fault; history: 2 conversations, page of 1, 3 messages, 1 fault; session: 2 logins, 2 requests, 2 hops, 3 answers with tokens, 2 faults |

**Why the bounds are enough.** Two requests in flight are what a race needs; a
third only repeats what one of the two did, unless it waits for it, and waits go
over single rows. Three tokens give a chain of two rotations, longer than the two
hops allowed, so the hop limit is met. Two calls are what a handler needs to
wake up in a call that is not its own. Three sockets of two users tell a user with
one socket left from a user gone. A window of two in a list of three lets messages wait behind those that cannot be
decrypted, dead ids, and an item that is passed over; two of the last sort fill the window. The inbox moves in four
ways (`again` in `MCSecretServer`): each of the three messages is sent until it is stored, or one of two is repeated
at will, either of the thread message and the key package, or the item passed over beside the key package. A threshold of one
tells a first failure from one too many. `refresh_sessions`
has no legacy rows so that tokens are symmetric; `live` and
`refresh_ban_race` start from one. Two conversations are what an answer for the
wrong one needs, three messages at a page of one make two older pages; a cap of two
prekeys and two tabs let two publications pass the count together; two devices of
a user are a device that was chosen and one that was not, in `web_client` and for the threads of
`direct_call` at both ends. `SecretSetup`
moves in two parts in `web_client`: two shares at a time without a linked device, or
one share with it, with faults only while keys for it are on the way. Larger instances
were checked by themselves: `CallClient` with 2 pages (1.9 million states), `MessageState`
with 2 acts and no fault (1.0 million). Tokens, sessions, requests, handlers and the two
sockets of a user are symmetric where no liveness is checked.

**Deadlock** is checked in `refresh_sessions`, `refresh_ban_race` and `live`. The other
models stop where the bound on calls, clock, acts or sockets is used up, and say
`CHECK_DEADLOCK FALSE`.

**Fairness.** `RefreshSessions` and `SecretInbox`: what was taken up is gone on with;
Postgres wakes waiting transactions in order, which is strong fairness of a request
that waits for a row lock. In `SecretInbox` the device is online and its pump polls
(the code sets an interval), pulls and acks do not fail for ever, and the payload
cache, which expires, does not serve forgotten ids for ever: strong fairness of the
steps that succeed. From some time on it polls often enough that no attempts lapse (`<>[]` in `Fairness`): they do
only half an hour after the last. Nothing is assumed of senders, which may stop anywhere. `GroupCall`: resumed handlers, timers that fire.
`Presence`: the queue and the timers run, keys nobody refreshes expire, the sweep,
which `setInterval` repeats, gets through again and again. Clients owe nothing:
they may stay, leave or be silent. `ChatSync` and `MessageState`: requests that were
sent are served, the socket reconnects by itself, what is on the wire arrives, and the
page polls (`refetchInterval` 15 s); the user need not do anything. `SecretSetup`: shares are
started when the page or the pump has cause to, and go on; each device's inbox
is pumped; nudged tabs publish and are answered. Faults are bounded, and an
unbounded loss of every retry is not assumed away by anything else.

## 4. Proofs

For each component an inductive invariant is proved, `IInv` or a name of its own: that it holds
initially, that every step keeps it (with a case or a lemma for each action), and that it
implies the property. The theorems hold for every
value of the constants that satisfies the named assumptions of the modules, which say
that bounds are numbers and that a value for "none" is none of the others. TLC evaluates
them in every run.

Every invariant and every action property that a passing run checks, and the
three refinements, are stated by a theorem. What only TLC checks is liveness.

### RefreshSessions

`RefreshSessionsProofs` proves, for any number of tokens, sessions, devices and
requests and any hop limit, from the three assumptions of the module (`Legacy` is
a set of tokens, `MaxHops` is positive, `Nil` is none of the other values):

| Theorem | Statement |
|---|---|
| `TypeCorrect` | `Spec => []TypeOK` |
| `NoFork` | `Spec => []SessionIsChain` |
| `SessionsAreStore` | `Spec => KeepsStore`, that is `Store!Spec` under the refinement mapping |
| `DenialHasCause` | `Spec => NoSpuriousDenial` |
| `AnswerIsOwn` | `Spec => AnswersOwnSession` |

The argument. `OneTipPerSession` is not inductive: a rotation that commits adds a
row to a session, and that this is the only one that is not rotated away depends on
what the request learnt several awaits earlier. The inductive invariant `IInv`
adds what makes that knowledge hold:

* `JobInv`: a request that walks or rotates stands on a row of the session of its
  token; an open rotation (`commit`) holds the lock of a *live* row, and its successor is
  an unused token in the same session, or in an unused one for a legacy row;
* `ApartInv`: two open rotations have different rows, successors and new sessions;
* `LockInv`: only an open rotation holds a lock, so a revocation waits for it;
* `RowInv`: rows that are absent have no session, clients hold tokens of rows.

`QuietStep` treats at once the actions that write no row.

The refinement maps a session to its live rows that were not rotated away, and to
all its rows. A login opens a session (`CreateOpens`), a commit rotates one, or opens
one for a row older than sessions (`CommitRotates`), the writing half of a revocation closes
the sessions whose live rows it found (`ApplyCloses`), and every other step leaves `Store` as
it is (`OthersKeepRows`). That a commit rotates, and never opens again what was closed,
rests on `JobInv` and `LockInv`: it adds a row to a session only while a live row of that session is
locked, so the session is not closed. The other two action properties follow from `IInv`
and one step.

### Presence

`PresenceProofs` proves, for any number of sockets and any bound on the queue,
from `QueueAssumption` (the bound is positive) and `NoneAssumption` (`None` is no
status and no recomputation):

| Theorem | Statement |
|---|---|
| `TypeCorrect` | `Spec => []TypeOK` |
| `Settled` | `Spec => []SettledPresence` |
| `SkippedIsKept` | `Spec => []SkippedWriteHasFlush` |

`SettledPresence` speaks of the moment when the queue is empty; `ReadInv` extends
it backwards: as soon as nothing waits behind the recomputation that runs, what
that one read is what Redis says, since any change since then would have queued
another. `SkippedWriteHasFlush` speaks of moments without a write in flight;
`FlightInv` says what a write in flight will do when it lands: unless two
overlapped (`mixed`), it is the only one, and it writes the status observed last or
the deferred write is armed behind it. `TimerInv` gives that write something to
write.

### GroupCall

`ConversationProofs` proves, for any number of users, of sockets of each, of suspended
handlers and of calls, from `OwnerAssumption` (a socket has a user) and
`ClockAssumption`:

| Theorem | Statement |
|---|---|
| `GroupTypeCorrect` | `Spec => []TypeOK` |
| `TimerFitsCall` | `Spec => []AloneHasTimer` |
| `CallHasSomebody` | `Spec => []NoEmptyCall` |

The invariant is the three together and `SockInv`, that a suspended handler serves
a socket. They need each other: the timer is armed by the number of participants,
and the call that its expiry, or the last leaver, ends must not remain empty. Steps
are sorted by what they do to the call: `QuietStep` (nothing), `SyncedStep` (ends in
`syncGroupAloneTimer`), `FinishStep`, `LeaveStep`, `EntersStep`. The one exception is
the invite that opens a call (`OpensInv`), which enters its caller and arms the timer
only after an await: meanwhile other handlers may add and remove participants, and
`AloneHasTimer` holds because that handler is still to run.

### ChatSync, MessageState

`ConversationProofs`, for any number of messages, size of a page, things the users do and faults:

| Theorem | Statement |
|---|---|
| `ChatTypeCorrect` | `ChatSpec => []ChatTypeOK` |
| `ListNeverStuck` | `ChatSpec => []ListIsCorrected` |
| `MessageTypeCorrect` | `MessageSpec => []MessageTypeOK` |
| `ReaderIsReported` | `MessageSpec => []UnreadIsReported` |

`ListIsCorrected` is the safety core of `ListConverges`: fairness only has to let happen what
it says is still to come. It is inductive as it stands, with the types, since it names everything that
can still correct the list: an answer that was read after the last change, a read not yet
served, a change not yet announced, news on the way. The lemmas follow the news: what is
appended to the events on the way or taken from them leaves the others in place
(`NewsAppended`, `NewsTaken`), and news that are taken have the list read again (`ListRefetched`).

`UnreadIsReported` needs a second invariant: `NobodySaysRead`, that as long as the server has
not stored that the message is read, no copy, no fetched page, no event and no request past
its write says that it is. Otherwise a page could think the server knows, and not report.
The property counts requests that failed, so `FewerMissing`, `OneMoreMissing` and
`FailureReported` are about the cardinality of the reports that are missing.

### DirectCall

`DirectCallProofs`, for any number of users, sockets, suspended handlers and calls:

| Theorem | Statement |
|---|---|
| `TypeCorrect` | `Spec => []TypeOK` |
| `RecordsAreOfCalls` | `Spec => []NoPhantomRecord` |
| `CallsLive` | `Spec => KeepsLife`, that is `Life!Spec` with `callState` and `calls` |

`TaskInv` says what a suspended handler knows: whose event it serves, and that one
that awaits the call's key has a call in hand. `NumberInv` orders the calls placed.
`NoPhantomRecord` compares all records with the calls placed and over, so the
proof needs what `FoldFunction` computes: `SumMore` and `TotalFacts`, by induction over the
number of calls in a set (`LogStep`, `QuietStep` and a lemma for each action use them). For
`CallsLive`, `StateStep` says all that a step may do to `callState`: delete it, mark it
answered, or, where no call is pending, put the next one there; `StateLives` reads that as
steps of `CallLife`. A call is marked as answered from the `callState` of the moment, not from
a snapshot (`socket.ts:1981-1990`, 2253-2255): a handler that put its snapshot back, as the
mutant `InviteRingsLate` does, would make an answered call ring, or bring back one that is over.

### SecretInbox

`SecretInboxProofs`, for any messages, senders, pulls, window, threshold and bound
of the list:

| Theorem | Statement |
|---|---|
| `TypeCorrect` | `Spec => []TypeOK` |
| `AnsweredKept` | `Spec => AnsweredIsKept` |
| `InboxIsMailbox` | `Spec => KeepsMailbox`, that is `Box!Spec` under the refinement mapping |

`RowsInv`: what is in the list or was pulled has a row, or is excused; a request past its
first store has stored it. `KeptInv`: an id that is marked as seen, was pulled or is about
to be acknowledged is in the list, was handled, or is excused; only what was handled is
acknowledged. Without the part about `seen` a repeated push, which finds the mark and does not
append, could be answered for a message that is nowhere. The refinement is proved step by
step: each action is one of `Mailbox` or leaves `Box` as it is. `Except`, what `LREM`
leaves of the list, is a recursive function; `ExceptFacts` says which messages it keeps,
in how many entries.

### History

`WebClientProofs`, for any conversations, messages, loads and faults, and pages of any size:

| Theorem | Statement |
|---|---|
| `HistoryTypeCorrect` | `HistorySpec => []HistoryTypeOK` |
| `HistoryHasNoHoles` | `HistorySpec => []NoHoles` |

`NoHoles` compares what is cached with the cursor, and answers on their way change both.
`FetchInv` and `LoadInv` say what an answer promises before it arrives: a newest page has, or
reaches with its cursor, every message up to its last and has none missing in between; an older page
does so for the messages before the cursor it was asked for. `FilledInv` is the case the code
handles by a count: if nothing was fetched yet and events filled the cache, it holds at
most a page and there is no cursor, so the next answer starts the pagination instead of leaving
it at none. `CursorInv`: no cursor is ahead of what was sent, so a new message is never
before one. `PageFacts` is what the route's query returns: the newest messages, and a cursor that
all others are before.

### SessionClient

`WebClientProofs`, for any logins, requests, hops, rotations and faults:

| Theorem | Statement |
|---|---|
| `SessionTypeCorrect` | `SessionSpec => []SessionTypeOK` |
| `RetryIsNewer` | `SessionSpec => []RetriesWithNewer` |
| `SignOutHasCause` | `SessionSpec => SignedOutOnlyWhenRevoked` |
| `ClientIsServedByStore` | `SessionSpec => ServedByStore` |

`NewInv`: the access token of a refresh that was answered is newer than every one of that
login anywhere in the page, in the store, in a request or in what the check at the start
has read; the refresh token is no older than the one that was presented, and may be the
same row. `RequestsInv`: who waits, waits for the one refresh. `LoginInv`: as long as nobody
signed in during a refresh, the store, the check and the refresh are of one login, and
what the check writes back is no newer than what is being refreshed: so a refusal is of
the session that is signed out. `OneCheck` is that a page checks its session once.

`ClientIsServedByStore` and `SessionsAreStore` tie the two ends of a session together by
`SessionStore`: the server that the client is proved against opens, rotates and
closes logins as `RefreshSessions` does sessions. The first was checked by TLC on an instance with one
fault, in a run of its own, before it was proved. They do not show
that each single answer of `RefreshSessions` is one that `SessionClient` allows; for that, what
`NoSpuriousDenial` and `AnswersOwnSession` say of answers was compared by hand.

### SecretThread, Prekeys, SecretSetup

`SecretSetupProofs`, for any devices, threads, requests, tabs, prekeys, shares, copies
and faults:

| Theorem | Statement |
|---|---|
| `OneThread` | `ThreadSpec => []OneLiveThread` |
| `PinReplaced` | `ThreadSpec => PinReplacedByOverlapOrEvent` |
| `Servable` | `PoolSpec => []ServableHasSecret` |
| `Overshoot` | `PoolSpec => []OvershootBounded` |
| `TypeCorrect` | `Spec => []TypeOK` |
| `OneKeyPerChat` | `Spec => []KeysAgree` |
| `ChosenOnly` | `Spec => []OnlyChosenAreKeyed` |
| `MissesAreRepeats` | `Spec => []OnlyRepeatsMiss` |
| `KeyIsRemembered` | `Spec => []KeyNotForgotten` |

Threads: `ReqInv` is what a request read before its await, `ConvInv` what states of a row
mean; that there is one live thread is inductive with them. `PinReplaced` is about every step that changes a
pin: that a creation or a decline is none rests on `ConvInv`, that a request which writes a pin after another must have
read the chat before, on `ReqInv`. Prekeys: `PubInv` follows a
publication through its requests: its keys have secrets and are nowhere at the server until
they are inserted, and the tabs' keys are distinct. `CapInv` counts a device's free
keys together with those that a publication has been promised and not yet inserted: that
sum, unlike the number of free keys, is bounded inductively.

`SecretSetup` is composed of the two, and its proof of their invariants and its own:
`ShareInv`, `MessageInv`, `KeyInv` and `EventInv` say of a share, a message, a stored key and
an event that the key is of the initiator of its chat and goes to a device that may
hold it; `PeerInv` that a pin is never a device of the initiator. They imply `KeysAgree` and
`OnlyChosenAreKeyed`. `OnlyRepeatsMiss` is about prekeys: `SealInv` says that two packages
under one prekey have the same sender and recipient, and that a package's prekey was
claimed and is still the recipient's, unless the recipient has a key; `ApartInv` that
devices have no prekeys in common.

`KeyNotForgotten` is what `KeyArrives` rests on: while the pinned device of an active chat has
no key, no device that should send it has done with it. A device has done with a share when
it marked it as attempted in this session, or when it knows the receipt. So `MarkInv`: a share that
is marked is going on, or its package is on the way, or its recipient has a key; `ReceiptInv`:
receipts are of devices with a key. `MarkKept` follows each share and each package through a
step: a share goes on, its mark is taken back (`Retry`), or its package was posted
(`ShareCarried`); a package stays, or its recipient has a key once it is handled
(`PackageCarried`), where a package that does not open is a case of `OnlyRepeatsMiss`. This is why
the property excepts a device that has the key of *another* chat: without the exception TLC
finds it violated with two chats (one claim served the shares of both, see the observations).
With the exception the property and both invariants held in 5.3 million states of that
instance, which is too large to finish.

### CallClient

`CallClientProofs`, for any conversations, pages mounted one after the other, and events:

| Theorem | Statement |
|---|---|
| `ClientTypeCorrect` | `ClientSpec => []ClientTypeOK` |
| `RingerShown` | `ClientSpec => []RingerIsShown` |
| `AnsweredAtMostOnce` | `ClientSpec => []AnsweredOnce` |

Most of what happens only takes away: `Quieter` relates two states of the store and the
pages' refs when the second shows, tracks and rings for nothing that the first does not, and
has the same answers. It is transitive, every helper is shown to be quiet, and a quiet
change keeps `Good`, so an action is a chain of quiet steps and at most one that is not:
a ring (`ShownGood`), an accepted call (`AnsweredGood`). `Fresh` is the heart of
`AnsweredOnce`: a call that could still be accepted, because it is shown, tracked or being
accepted, was not accepted since it was shown; `OneAnswer`, that no call is being accepted
twice, makes it inductive. `Matches` keeps the ringer of the first page and the call that is shown together
between the handlers of an event, before the effects run (`SettledFacts`). An
event runs through all pages, by a recursive function: `ReceivedGood` is by induction
over them.

### Runs of several components

The modules that let TLC run several components choose one of them and let it move.
`PartsBehave`, in `ConversationProofs`, `CallClientProofs` and `WebClientProofs`, proves that each of
their behaviours is a behaviour of every part, for any values of the constants: so what is proved of a
component holds in the run as well, and the run shows no more than instances of the parts.
`PartsTypeCorrect` (`PartsSpec => []PartsTypeOK`) follows from it and the theorems on the types
of the parts.

### Induction

The provers cannot instantiate the library's induction theorems, which take an operator.
The proofs use a set instead: `LeastNat` derives from `WFMin` and `NatLessThanWellFounded`
that a set of numbers has a least element, `Induction` that a set with 0 and all successors has
all numbers. With it, what the folds and recursive functions of the models compute is
proved, not only checked: `Except`, `Received`, and the sum of `log`.

### What proving changed in the models

Some properties could not be proved as they stood, and TLC then showed why on a larger
instance. `OnlyRepeatsMiss` said that the recipient of a package that does not open has the
key of *its* chat. With two chats it may have only that of the other: `inFlightClaims` is
keyed by the recipient device alone (`secretKeyPackages.ts:38-43`), so shares of two chats
use one prekey. `SessionClient` let tokens expire that were not yet issued, and left out the
401 for a failed query of the session (`auth.ts`). Compared with `SessionStore`, its server
rotated tokens that have a successor already; the code answers those with the newest row of
the chain (`authSessions.ts:159-164`), so rows and access tokens are now numbered apart.
`PageConverges` left open whether the page is ever wrong with nothing on its way:
`ListIsCorrected` and `UnreadIsReported` say it is not, and name the exceptions.
`SecretSetup` and `SecretInbox` lacked assumptions on their constants that the code has, as
that the two users have no device in common.

### Only model-checked

Liveness (`RequestsFinish`, `KeyArrives`, `AloneCallEnds`, `PageConverges`, `NewestArrive`,
`AbsentUserGoesOffline`, `InboxDrains`): fairness and `ENABLED` are beyond the prover. Of four of
them a theorem states the safety part, that what has to come is never forgotten:
`AloneHasTimer` of `AloneCallEnds`, `ListIsCorrected` of the half of `PageConverges` that is
`ListConverges`, `KeepsMailbox` of `InboxDrains`, `KeyNotForgotten` of `KeyArrives`.

## 5. Findings

Five runs end in a counterexample, each against a sentence in the code.

1. `refresh_ban_race`: `adminUsers.ts` says a ban revokes every refresh token. A
   rotation that commits between the snapshot and the update, or a login past its
   check, leaves a live row, and `/refresh` does not read `bannedAt`.
2. `call_recorded_twice`: the delete that claims the end of a call (`socket.ts:2159`)
   may delete the next call; the first is recorded twice, the second vanishes.
3. `call_redial`: a repeated invite does not renew `inviterSocketId`, so the grace
   timer of the lost socket still ends the call (`socket.ts:1171`).
4. `group_duration`: an invite to a running group call resets the start its duration
   is computed from (`socket.ts:1878`).
5. `presence_sweep`: the sweep marks OFFLINE a user that connected after it counted
   (`socket.ts:766`), and whose recomputation is over: nothing is waiting that would put it right
   before the next change.

**Observations** made while modelling, which no sentence of the repository
contradicts or whose harm is a matter of judgement; several are hazards with a note.

*Calls, server.* A call end that clears the next call's ring timer; a call accepted and yet
recorded as missed; an accept that makes an ended call active again (`activeDirectCalls`;
`callState` stays as it is, so `CallLife` is not concerned); two "started" messages when
the first two sockets join a group call without an invite (`socket.ts:2271`).

*Calls, client.* The page's handlers are registered with empty dependencies and never
removed (`ChatsPage.tsx:3306-3702`). Leaving the page leaves its ringtone and the 25 s timer
running, which then sends `call:decline` even for a call that was answered (961-962 say
otherwise). `ended` or `declined` of one conversation clears the popup, or the dial
timer, of another. An accept is not checked again after the microphone was granted. A
native answer given after its call was cancelled stays, and is replayed on the next
call of that conversation. Putting it back after a refused permission does nothing.

*Secret chats.* A cancelled thread can be revived by an acceptance that overlaps; the
older event `secret:chat:accept` pins any device of either user (`socket.ts:1693`), although `threads.ts:179`
guards the pin; direct items of a kind the pump does not know stay at the head of the list until it expires, and
as many as a pull takes stop the inbox; `POST /conversations` creates a
secret chat without the lock. A device at its prekey cap whose keys were all claimed by
lost requests publishes no more (`deviceManager.ts:159-165`). Shares of two chats with
one device at the same time claim one prekey (`secretKeyPackages.ts:38-43`); the second package
cannot be opened and is repaired only by a later request for the key.

*Session.* A request refused before a new login is sent again with the next user's token.

*Conversations.* A page does not join its rooms again after a reconnection, although a
comment says so: `onDisconnect` resets what `onConnect` looks at (`ChatsPage.tsx:3156`, 3174);
joining is repeated by other ways. Paging may show the state of another
conversation for a render (1721-1724). The socket of a member that left stays in the
room (`conversations.ts:829-900`). Two requests at once create two direct chats (537-590).

*Messages.* An edit that overlaps a deletion gives the deleted row a text again
(`messages.ts:302-360`). A deletion is announced without the message, so a page that has it
among its older ones keeps showing it. An edit, the preview worker and
`GET /:id/preview` write the whole metadata from what they read before: marks of edits
and previews are lost, the preview of a link outlives the edit that removed it. A failed
preview job keeps its id and is never enqueued again. If both requests by which a reader
marks a message fail, it stays unread until the data changes or the window is focused.

*Uploads.* `complete` checks the parts and then streams them (`upload.ts:548-555`), while a part may be
sent again or the upload deleted; a late part recreates the directory (492). Cancelling aborts
a part that is retried once (`ChatsPage.tsx:5094-5106`), and the message may still be sent.

*Android.* `RealtimeService` ignores a new token while it connects; a disconnect at logout may
overlap a connect; `TokenRefreshInterceptor` may log in twice and repeats the request with
the old header.

## 6. Plan

Written: the modules above. What is left, in this order:

1. **`Presence`**: broadcasts (`emitEffectivePresence`, outside the queue) and a second
   server process. **`SecretInbox`**: batches of `/send`, two receiving devices with the
   shared payload cache.
2. **`CallE2eeKey`** (set-if-absent against get-then-set), checked against the promise
   of `calls.ts:60-61`.
3. **`ChunkUpload`** and **`LinkPreview`**: their code promises nothing under
   concurrency (see the observations), so an abstract specification has to be agreed on first.

New runs take the place of violations that were documented long enough, or share a
configuration with a related one, so that the whole suite stays quick.

## 7. Not modelled

Cryptography, media, rendering, streaming of files, SQL that is one statement per
request, rate limits (where one decides what a handler does, both outcomes are
possible), the admin and debug pages, invitations, storage, and the mobile applications.
Of the 67,000 lines of the implementation about 7,000 are mapped. Most of the rest renders: the panes,
overlays, editors and modals of the web client, whose state is local to a component. Of what
is modelled in part: in `CallClient` the minimum duration of a call, the list of calls in
progress, group calls and media; in `Prekeys` the collection of old prekeys; in
`SessionClient` the cookie, which the server prefers to the token of the store, and the native session; in
`MessageState` the metadata and the preview of a message; in `ChatSync` renaming,
avatars, proposals, contacts. Other users and
other conversations are left out wherever the code keys everything by user,
conversation or device. Postgres and Redis are external and modelled as far as the code relies
on them: atomic statements and scripts, row locks, snapshots per statement,
expiry of keys. A Redis restart that loses data is not modelled.

## 8. Use

    tlc -workers 2 -config DirectCall.cfg MCCallsThreads.tla
    tlapm ConversationProofs.tla

The largest runs take about two minutes on two cores, the proofs of a
module one or two.
