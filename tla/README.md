# TLA+ verification of Sync Server

Sync Server is a messaging server ("planet"): a Rust/actix process over
PostgreSQL and Redis that serves accounts, direct messages, rooms, one-to-one
calls, a reputation system ("guild") with daily limits, moderation, and
federation with other planets. A Next.js dashboard and mobile clients use its
HTTP and WebSocket API.

This directory holds TLA+ models of the parts of the server whose correctness
depends on the order of concurrent steps, the TLC configurations that check
them on small instances, and TLAPS proofs of the properties that matter most
for instances of any size. Paths below are relative to the repository.

## 1. How the server runs

* Handlers run on several worker threads. A database call is synchronous within
  a handler, but two requests interleave between any two statements, and most
  handlers use no transaction. Where there is one it runs at READ COMMITTED:
  every statement sees the newest committed rows, and a row that was written
  stays locked until the commit.
* `await` points (Redis, HTTP, password hashing, WebSocket writes) let other
  requests of the same thread run.
* The process may stop anywhere; there is no journal besides the tables.
* State outside the database: Redis keys with a time to live (QR login, password
  reset, call offers), Redis pub/sub (no delivery guarantee), process memory
  (setup token, registration limiter, actor key cache, WebSocket sessions).

The models follow from that. An action is one SQL statement, or a group of
statements that no other step can separate (because of a row lock, or because
the rows they read never change); `pc`-like variables say where a request is.

## 2. Inventory

| Component | State | Operations | What is hard | What makes it correct |
|---|---|---|---|---|
| Refresh tokens (`routes/auth.rs`) | `refresh_tokens`, `users` | login, refresh, logout, approve, suspend, delete | read, revoke and insert are separate statements | a family is one chain; a family that is over stays over; no token outlives its user |
| Guild activity (`services/guild_service.rs`) | `user_guild_stats`, `daily_action_counters` | message, attachment, contact lookup, read receipt, freeze, unfreeze, prune | judged from a row read before the lock | the limit holds at the increment; a day is counted once; frozen until reviewed or quiet |
| Calls (`ws/session.rs`, `services/call_service.rs`, `routes/calls.rs`) | `call_records`, `active_call` of each session, offer stash | offer, answer, reject, hangup, disconnect, heartbeat | hangups, answers and disconnects of two parties and several devices cross | a live call is followed by a session that can end it; a party is told when the other ends it |
| Federation (`routes/federation.rs`, `services/federation_service.rs`) | `federation_deliveries`, `federation_inbox_activities`, `federation_remote_messages`, `messages` | send, post, mark, retry; inbox | repeated, lost, delayed requests; crashes between statements | at most one message per activity; delivered means accepted |
| Rooms (`services/room_service.rs`) | `rooms`, `room_members`, `room_messages` | create, rename, add, remove, leave, delete, send, read | membership checked, then used; last members leaving together | no room without members; no message of a removed member |
| Accounts (`routes/auth.rs`, `services/user_service.rs`) | `users`, settings, limiter and setup token in memory | register, device login, first administrator, shadow users, approve, delete | check, await, insert | max_users and the limiter hold up to the concurrency; one administrator from one setup link; no tokens before approval |
| QR login (`routes/auth.rs`) | Redis record or memory fallback | create, poll, approve | load, change, save | an approval is consumed once |
| Password reset (`routes/auth.rs`) | Redis key | request, reset | get, update, delete | a token is used once |
| Guild score (`services/guild_service.rs`) | `guild_score_events`, score and rank of `user_guild_stats` | award, penalty, clawback, community upvote, snapshot, prune | deduplication, cap and vote checks are look-ups; score written from a copy | an event counts once and within the daily cap; two users do not gain from each other's votes; the score is the sum of its events |
| Guild policy (`services/guild_service.rs`) | `admin_settings` | save, level and rank of a user, progress, limits | tables with gaps, boundaries, i32 products | a day has one row; no rank of 100 percent or more lowers a limit; an active day costs no level |
| Moderation (`services/moderation_service.rs`) | `moderation_reports`, columns of `users` | report, resolve, daily automatic review | two reviews of one report or one user; restart in the hour of the review | a review stands; what a report says was done is so; warnings are counted; a restriction is never shortened |
| Direct messages (`routes/messages.rs`, `services/message_service.rs`, `services/moderation_service.rs`) | `messages`, `user_blocks`, reports, cards | send, block, unblock, read | the gates are separate queries; read receipts are two updates | a message passes only gates that were open; read implies delivered; dates in order |
| Agent tokens, administrators (`auth/middleware.rs`, `services/agent_token_service.rs`, `routes/admin.rs`) | `agent_tokens`, JWT claims, `users`, audit log | create, verify, revoke, suspend, delete | the credential, the account and the act are checked and done one after the other | nobody acts on a power lost before the request; a token has an owner |
| Settings (`routes/admin.rs`, `services/admin_service.rs`) | `admin_settings`, `admin_audit_logs` | update_config, get_config | eight settings, eight commits, validated one by one | an answer is one configuration; what is not audited has failed |
| Push (`services/push_*`, `services/apns_service.rs`, `routes/push.rs`, `routes/push_relay.rs`) | `device_push_tokens` | register, unregister, dispatch, relay | three modes, failing APNs, failing relay, timeouts, devices changing hands | success means sent; one notification per event; never to a former user |
| Stickers (`services/sticker_service.rs`, `routes/stickers.rs`) | `stickers` | upload, review, rename and merge groups, list | quota counted, then used; with and without the guild transaction | the quotas hold; a group is listed in whole |
| News, backups | single rows | single statements | nothing interleaves | - |
| Health, ALTCHA, GeoIP, e-mail, dashboard | none that the server relies on | - | - | - |

How they interact: every message, room and contact operation runs the guild
transaction; a direct message to a user of another planet goes through the
federation outbox, and the inbox stores an inbound note as a direct message of a
shadow user; moderation decisions feed the guild score; suspension and deletion
of a user act on every table by foreign keys; calls, messages and rooms publish
events on the Redis channel of a user, which each of its WebSocket sessions
forwards.

`PROJECT.json` lists, under `hazards`, what can go wrong at which line, and which
property would catch it.

## 3. Modules

| Module | What it is |
|---|---|
| `RefreshTokens` | token families, statement by statement |
| `RefreshTokensProofs` | its theorems |
| `GuildActivity` | the guild transaction with its row lock |
| `GuildActivityProofs` | its theorems |
| `Calls` | session loops, call records, offer stash |
| `CallsProofs` | its theorems |
| `FederationInbox`, `FederationOutbox` | receiving and sending planet |
| `Federation` | both, with the network between them |
| `DeliveryContract` | abstract specification: what federation promises |
| `FederationProofs` | invariant and refinement |
| `Rooms` | a room, its members and their transactions |
| `RoomReads` | read cursors and unread counts of a room |
| `DirectMessages` | a direct message through the gates before it, with blocks and reports |
| `ReadReceipts` | delivered_at and read_at of direct messages |
| `Push` | device tokens, dispatch, relay |
| `Accounts` | how accounts come to be, and the limits on them |
| `AccountsProofs` | its theorems, and those about `Push` |
| `PasswordReset`, `QrLogin` | one-time credentials |
| `OneTimeUse` | abstract specification: what a one-time credential promises |
| `AdminAccess` | a request to the administration API, from credential to audit entry |
| `Settings` | update_config and get_config |
| `Moderation` | reports, their review by administrators and by the daily task |
| `GuildScore` | contribution events, score and rank |
| `GuildPolicy` | the policy's tables, their validation and what is computed from them |
| `Stickers` | uploads under quotas, review, groups |
| `ConversationsProofs` | theorems about `Rooms`, `RoomReads`, `ReadReceipts`, `DirectMessages` |
| `CredentialsProofs` | theorems about `QrLogin`, `PasswordReset`, `AdminAccess`, `Settings` |
| `StandingProofs` | theorems about `Moderation`, `GuildPolicy`, `GuildScore`, `Stickers`, and lemmas about sums |
| `MC*` | instances for TLC: functions for constants, symmetry sets |

`MCConversations` (`Rooms`, `RoomReads`, `ReadReceipts`, `DirectMessages`),
`MCAccounts` (`Accounts`, `Push`), `MCCredentials` (`QrLogin`, `PasswordReset`,
`AdminAccess`, `Settings`), `MCStanding` (`GuildScore`, `GuildPolicy`,
`Moderation`, `Stickers`) and `MCProgress` (`GuildActivity`, `Calls`) put modules together that
share no state in the model.
A behaviour of all of them is a behaviour of each, side by side, so TLC looks at
the behaviours of one at a time: `part`, chosen in the initial state, says which,
and the variables of the others stay as they are.

Operators named `X_Something` after a comment "Mutant:" are faulty versions of
`X`, used to see that a property notices the fault; no specification uses them.

### RefreshTokens

`rows`, `owner`, `fam`, `revoked`, `expired` are the columns of
`refresh_tokens`; `users`, `active`, `approved` those of `users`. A refresh is
`RefreshLookup` (SELECT), `Consume` (UPDATE by id, which does not look at the row
again), `LoadUser`, `Rotate` (INSERT). A revoked token leads to `RefreshReplay`
and `RevokeFamily`, which logout uses too. `Abort` is any error return or a
crash after a statement. Requests that change nothing are stuttering steps. The
history variable `raced` marks families two refreshes worked on at once, `ended`
those revoked by logout or replay detection; `sharers` is the most requests that had
looked a token up before any of them revoked it, `heirs` the tokens minted for it.

### GuildActivity

`Begin` reads the clock and copies the row (or inserts it, which locks it);
`UpdateActivity` writes the verdict of `assess_human_activity` on that copy over
the newest row, taking the lock, and advances the day from the row RETURNING
gave; `PassGate` compares counter and limit; `CommitCounted` does the guarded
operation, increments and commits; `CommitUncounted` commits without counting
(limit reached, unsupported attachment type, or `record_human_activity`).
`Rollback` stands for errors, a yellow card and crashes. `Limit` stands for the
level, rank and enforcement rules of the policy: a number for each action and
each count of active days. Derived level and rank are functions of the days and
the score and are left out. `record_human_activity` reads the clock twice, for
the day and for the time; the model reads it once.

### Calls

A session is `idle` in its loop or between two awaits of a handler: `ack` after
the call record was created, `relay` before the event is published, `closing` in
the clean-up. `status` is written unconditionally by `update_status`, whatever it
was. Lost publishes, failed status writes, silent clients and crashes count
against `MaxFault`.
A client names the other party of the call as its peer and does not call itself;
everything else a client may send in any order is allowed. Deleting a user in a
call, typing events, ICE candidates and the push notification are left out.

### Federation

The outbox has one row per activity and destination (`Row`). A request has a list of
destinations (`list`, at most `MaxList` of them, one of which may be in it twice) and
serves the one `at` the index it has reached; `upsert` makes the row of that one,
and the row is marked before the next one is served. `Post`/`Answered` are the two ends
of the HTTP call. The inbox
handler is `Refuse` (any check before the first write) or `RecordActivity`,
`RecordNote`, `StoreMessage`, and `HandlerFails` after a write. `Federation` adds
`OtherRequest` (the network repeats a request that was sent, or other software sends
an activity of its own), `TransportError` (whatever became of the request) and
`CrashOne`. The refinement mapping to `DeliveryContract` takes `recorded` for
`accepted`, the message counts for `copies`, and the activities with a row marked
delivered for `reported`.

The destinations of a list may be inboxes of one planet. The same activity id is posted
to each, and the receiver knows an activity by its id alone
(`src/services/federation_service.rs:93`), so the second one is answered "duplicate",
which the outbox takes for a delivery. The model does so, too: the contract
is about the activity, and promises one copy of it, not one for every recipient.

### Rooms

Each operation is a transaction: `Start` reads, `Insert`, `DeleteMember`, `Touch`,
`CountRemaining`, `ClearMembers`, `DropRoom` are its statements, `Commit` makes its
changes (`ins`, `del`) visible. Row locks are `hold` (member rows) and `mode` (the
rooms row: the share lock of a foreign key, an update, a delete); who is locked
out waits, and a cycle of waiting ends by `Rollback`. A request adds one member at
a time. Two things the code allows are written into the properties as history
variables: two leaves that overlap do not see each other and may leave an empty
room (`outCrossed`), and a leave that deletes the room may take along a member
being added (`inCrossed`).

### Accounts

A request goes from `hash` (limiter or setup token checked, password being
hashed) over `count` (settings read) and `insert` (users counted) to `made`
(inserted), then `Finish` records the registration, hands out tokens or clears
the setup link. `maker` stands for the identity of a row: a name may be deleted
and taken again while a request is at work. `Restart` loses requests, limiter and
link, and makes a new link if there is no administrator.

### PasswordReset and QrLogin

The steps between two awaits: look-up, update and deletion of a reset token;
load, mint and save of an approval; load and delete of a poll. Every call of QR
login to Redis may fail, at most `MaxFault` times, and then uses the memory of
the process. A write that fails may have reached Redis before its answer was lost
(`Write`), and then is made in both. The model shows what that fallback costs: a session saved in memory
while Redis was away is not deleted from there when Redis is back, so its tokens
are handed out until it expires; `HandedOutOnce` is therefore stated for runs
without a fault.

Both implement `OneTimeUse`, in which a credential is issued, used at most once and
spent for good, unless it is excused, and even then not once it is spent. The mapping is
`SessionLife` and `TokenLife`: a credential is spent when no store has it and no request
works with it; a use is a hand-out of tokens, or a password set; excused are credentials
that two requests shared, a token that a request set a password with but did not delete,
and every session once Redis has failed.

### RoomReads

`created` is the beginning of a message's transaction, `visible` its commit; a
cursor is the clock of the server read before the UPDATE. `shown` are the messages
a member could see when it marked the room or wrote into it, `crossed` those in
flight meanwhile, `twice` the members with two such operations at once.

### DirectMessages and ReadReceipts

`send_message` asks its gates one query at a time; `wasOpen` collects the gates
that were open at some moment of the request. The clock is left out: a card, a
restriction and a recent report may end at any time. A review may turn a report
into a restriction just between the two queries that look for one and for the
other (`switched`). In `ReadReceipts` a request has one timestamp for two updates;
`among` and `between` are the messages that arrive during a request and between
its updates, `mixed` those there when a second request began.

### Push

A dispatch is a job: the list of devices is read and routed (`Route`), then come
the calls to APNs one at a time (`send_to_tokens`), the fall-back of hybrid mode,
and the post to the relay, which is the same server's `/webhook` route elsewhere.
APNs is external: a push is accepted, refused, or the call fails with or without
the push going out. `sent` counts pushes by device, `held` the devices on which
the recipient was signed in during the job.

### AdminAccess and Settings

A request to the administration API is `extract_claims` or `verify`,
`CheckAccount`, an act, `append_audit_log`; `held` records what the credential was
good for at some moment of the request. `Settings` saves and reads one setting at
a time; `wanted` is what a request that nobody disturbs leaves behind or reads.

### Moderation

A review plans what it does to which report (`plan`), then for each copies and
writes the user's row and writes the report, all uncommitted (`until1`,
`warned1`, `suspends`, `resolves`) until `Commit`. The daily review is one
request that plans all overdue reports; `lastRun` is lost by a restart, and the
pass may then run twice in its hour. `doubled` are reports under two reviews at
once, `entangled` the users of two reviews at once. A rank, a level and the score
that a review feeds are `GuildScore`'s.

### GuildScore and GuildPolicy

`record_contribution_event` is one transaction, statement by statement: `Begin`
copies the row, `sync_derived_state`, `CheckEvents`, `granter_is_meaningful` and
`ApplyCap` follow, `InsertEvent` writes from the copy and commits. `ledger` is the
score had the events of the user come one after the other, `crossed` the users for
whom they did not. `GuildPolicy` has the operators of the policy and a user who
lives under tables that administrators save; its tables are all those of at most
`MaxRows` rows over a set of rows (`Entry`), the refused ones included. `Sorted` is
the set of the stable sorted arrangements of a table, of which there is one; a save
takes it.

### Stickers

An upload counts, sums and inserts; a user's does so behind the lock of the guild
transaction, an administrator's without one. The list of groups is the walk over
the table that the code makes, compared with what it should hold.

## 4. Runs

| Run | Instance | Shows |
|---|---|---|
| `refresh_tokens` | 1 user, 3 tokens, 1 family, 3 requests | `RotatedNotForked`, `ForksAreShared`, `NoTokenOutlivesUser`, `OverFamilyStaysOver` |
| `logout_race` | 1 family, 2 requests | violation: a token minted after its family was logged out |
| `guild_activity` | 1 user, 2 requests, 5 instants in 3 days | `GateStillHolds`, `ActiveDaysAreDistinct`, `FrozenUntilReviewOrQuiet` |
| `calls` | one call, 3 sessions (a callee with 2 devices), 1 fault; or two calls, one either way, 2 sessions | `LiveCallIsFollowed`, `PeerIsTold` |
| `call_stuck` | 2 sessions | violation: a call record stuck in "initiated" |
| `progress` | guild: 2 requests, 2 instants; calls: 2 sessions, 1 call, 2 faults | liveness: `RequestsEnd`, `SilentCallEnds` |
| `federation` | a note to 1 or 2 of 2 inboxes, a follow from elsewhere, 3 requests, 2 retry passes, 1 crash | `KeepsContract`, `AcceptedIsStored`, `PendingIsAttended`, `DeliveredIsFinal` |
| `conversations` | `Rooms`: 3 users, 2 requests | `RoomInv`, `MembersAreKept` |
| | `RoomReads`: 2 members, 2 messages, 1 mark, 3 instants | `CursorInv`, `CursorMovesOn` |
| | `ReadReceipts`: 2 messages, 2 requests, 3 instants | `ReceiptInv` |
| | `DirectMessages`: 2 users, 2 messages, 1 request, 2 open reports | `GateInv` |
| `accounts` | `Accounts`: 3 names, 2 requests, limits of 1 | `CapOvershoot`, `RateOvershoot`, `OneBootstrap`, `NoTokensBeforeApproval` |
| | `Push`: 2 users, 3 tokens (iOS, VoIP, Android), 1 dispatch, all modes | `PushInv` |
| `credentials` | `QrLogin`: 2 sessions, 3 families, 3 requests, 1 fault | `QrInv`, `SpentStaysSpent` |
| | `PasswordReset`: 2 users, 2 tokens, 3 requests, 1 interrupted reset per token | `ResetInv`, `SpentStaysSpent` |
| | `AdminAccess`: 2 administrators, 1 agent token, 2 requests, 2 instants | `AccessInv` |
| | `Settings`: 2 requests, 5 settings | `SettingsInv` |
| `standing` | `GuildScore`: 2 users, 2 requests, 3 events, 2 days | `ScoreInv` |
| | `GuildPolicy`: tables of at most 2 rows and the default one, 8 days | `PolicyInv`, `StandingIsKept` |
| | `Moderation`: 1 user, 2 reports, an administrator and the daily review, an instant before its hour and one in it, 1 restart | `ReviewInv`, `StandingIsKept` |
| | `Stickers`: a user, an administrator, 2 requests, 3 rows | `StickerInv` |
| `push_android` | an iOS and an Android device | violation: success reported, nothing sent to Android |

`guild_activity`, `calls`, `federation` and `accounts` also check
the type invariant of their module. In `conversations`, `credentials` and `standing`,
and for `Push`, an invariant is the conjunction of a module's type invariant and of
what its named parts say:

* `RoomInv`: a room has members (`RoomHasMembers`), nothing is left of a room that is
  gone (`NothingLeftBehind`), a message is of a member (`SenderIsMember`).
  `MembersAreKept`: a leave takes nobody else along (`LeaveTakesNobody`), and a room
  without its owner admits nobody (`ClosedWithoutOwner`).
* `CursorInv`: a message that was not shown is unread (`NothingSkipped`).
  `CursorMovesOn`: a cursor does not go back.
* `ReceiptInv`: read is delivered (`ReadIsDelivered`), dates are in order
  (`DatesInOrder`).
* `GateInv`: every gate was open at some moment of the request (`GatesWereOpen`).
* `PushInv`: success means sent (`SuccessReachesAll`), one notification per event
  (`TwiceOnlyAfterFailure`), a call rings by one kind of push (`RingsOneWay`), nothing
  goes to a former user of a device (`NotToFormerUser`).
* `QrInv`: tokens are handed out once (`HandedOutOnce`). `ResetInv`: a reset token sets
  one password (`UsedOnce`). `SpentStaysSpent`: both implement `OneTimeUse`,
  and neither comes back.
* `AccessInv`: who acts held the power to (`PowerWasHeld`), an agent token has an owner
  (`TokensHaveOwners`).
* `SettingsInv`: an answer is one configuration (`AnswerIsWhole`), a setting without an
  audit entry is of an update that failed or is under way (`UnauditedHasFailed`).
* `ScoreInv`: a reference counts once (`CountedOnce`), votes stay within the cap
  (`CapHolds`) and are not returned (`NoVoteRing`), the score is the sum of the events
  and the rank is the score's (`ScoreIsLedger`).
* `PolicyInv`: a day has one row (`EachDayHasOneRow`), progress is a percentage
  (`ProgressInRange`), limits do not fall with a rank of 100 percent or more
  (`RankLowersNoLimit`).
* `ReviewInv`: warnings are counted (`WarningsAreCounted`), what a report says was done
  is so (`RecordedActionHolds`). `StandingIsKept`: a review stands (`ReviewStays`), a
  restriction is not shortened (`RestrictionStays`), an active day costs no level
  (`LevelStays`).
* `StickerInv`: the quotas (`QuotaHolds`) and the list of groups (`GroupsAreComplete`).

The provisos of these properties are in section 5.

Why the bounds are enough. Three requests let two refreshes race while a third
logs out; three tokens are a login and two rotations, so a fork, a replay and a
revival all fit. Nothing a request does reaches a second family, which the theorems
have any number of. Two requests of one user are what a lost update needs, and five
instants of two per day cover same day, next day, a suspicious window and a
recovery window of two instants, and a freeze after two suspicious days; the
theorems remove these bounds for the invariants. Two calls are what it takes to
abandon one; a third session is a second device of the callee, and the constraint
`Focus` keeps faults and the second device to behaviours with one call, which with a
fault is the call to the user of two devices, and two calls to one either way. Three requests
carrying one note are one for each of two destinations and a repeat, by the sender or by
the network; a list of two has the same destination twice, or two; theorem `Refinement`
is about any number. Two transactions on a room are what it
takes to cross; the third user is the one who is neither owner nor leaving. With
limits of 1 and two requests, three names are enough to pass the bounds if the
checks were missing. Three requests are two approvals and a poll, or two polls and
an approval.

A message and a mark, or two messages of one member, are what it takes to skip a
message or to move a cursor back; three instants are one before, one at and one
after. The gates are asked by one request while everything else moves around it: a
second request only sends messages, which the set of messages already allows.
One dispatch and its relay are two processes; dispatches do not read each other.
Two uploads against a quota of two, with a table of three, pass it if it can be
passed; sizes 1 and 2 against three bytes pass the other. Three events of two
users are a vote, its return and a third that is a repeat or passes the cap. Two
reports make a plan of more than one report; a second day would only make the daily
review possible again, which a restart does, too. `Repeat` is 3 there, so escalation is
by the blocked terms only; escalation by number takes the same steps. The policy's
`Int32` is 32767: with limits up to 1000 and multipliers up to 250 percent, products
fall on both sides of it.

Runs that may really come to rest (all tokens minted, all requests used) say
`CHECK_DEADLOCK FALSE`; `calls`, `call_stuck`, `progress`, `accounts` and
`guild_activity` check deadlock.

Fairness, in `progress`. `GuildActivity` has strong fairness on the steps of a
request: the handler runs on, and PostgreSQL queues those who wait for a row
lock, so none is overtaken for ever. `Calls` has weak fairness on what a
session does by itself: its task keeps running and its heartbeat interval keeps
ticking. Clients, the network and crashes are never assumed to act.

## 5. Findings

* `logout_race`: logout, or replay detection, revokes the rows that exist; a
  refresh in flight adds one afterwards (`api/openapi.yaml:628`).
* `push_android`: the dispatch gives Android tokens to the relay
  (`src/services/push_dispatch_service.rs:86`, "Only include platforms the push relay
  can actually deliver to (e.g. android)"); the relay keeps the iOS ones only and
  answers 204 (`src/routes/push_relay.rs:57`).
* `call_stuck`: the socket fails while the offer is acknowledged; the clean-up
  does not know of the call (`src/ws/session.rs:443`).

Rules that the documentation states without a proviso and the code keeps only
while requests do not overlap are stated with that proviso, as history variables
that say exactly which overlaps matter:

* "same family — rotated, not forked" (`src/routes/auth.rs:878`): two overlapping
  refreshes of one token both succeed, because the revocation is by id and its
  effect is not checked. `RotatedNotForked` excepts `raced` families; `ForksAreShared`
  is about those as well, and bounds the fork: a token is exchanged at most as often as
  refreshes held it at one time, and never by one that looks it up after the first of
  them has revoked it.
* "frozen until review or quiet-period clears" (`api/openapi.yaml:210`): the
  verdict of an activity, made before an administrator's freeze, is written after
  it. `FrozenUntilReviewOrQuiet` excepts `overlapped` users.
* "Once any admin exists, this route returns 409" (`src/routes/auth.rs:512`): two
  overlapping setups both succeed. `OneBootstrap` excepts `crossed` setups.
* "enforcing the `MAX_USERS` limit" (`src/services/user_service.rs:174`):
  `CapOvershoot` bounds by how much overlapping registrations exceed it.
* "single-use token" (`src/routes/auth.rs:1077`): `UsedOnce` excepts tokens two
  resets work with at a time, and resets interrupted before the key is deleted.

* "already been reviewed" (`src/services/moderation_service.rs:585`): two overlapping
  reviews of a report both write it, the later one wins, and both count in the
  user's warnings or one is lost. `ReviewStays` excepts `doubled` reports,
  `WarningsAreCounted` and `RestrictionStays` except `entangled` users.
* "duplicate_reference" (`src/services/guild_service.rs:212`): overlapping events of a
  user are both counted, pass the cap and lose one another's points. `ScoreInv`
  excepts `crossed` users.
* "as delivered and read" (`src/services/message_service.rs:94`): a message that
  arrives between the two updates is read and never delivered. `ReadIsDelivered`
  excepts those (`between`).
* Unread counts: a message in flight while a member marks the room is never counted
  for that member. `NothingSkipped` excepts messages that `crossed`; a cursor goes
  back where two operations of its member overlap (`twice`).
* The gates of a direct message hold at some moment of the request, not together, and
  the one for new contacts may be passed while a review replaces a report by a
  restriction (`switched`).
* The quota of stickers: an administrator's uploads that overlap may pass it;
  `QuotaHolds` excepts `crossed` administrators.
* A push that fails for one device in hybrid mode is sent again to all of them
  (`TwiceOnlyAfterFailure`); in direct mode without an APNs configuration iOS devices
  are skipped and success is reported (`SuccessReachesAll`).
* An update of the settings that is refused halfway keeps what was saved before, and
  has no audit entry (`UnauditedHasFailed`).

Met while modelling, without a run: someone who is not a member of an existing
room is answered 403 (`src/services/room_service.rs:506`), where a test expects
404 (`tests/rooms_tests.rs:396`); the push of a message goes to VoIP tokens, too,
although VoIP pushes are for calls; of two recipients a remote planet has of one activity
the second gets no message, although its row says delivered; a snapshot announces a level-up only when the
policy raised it, since a day's activity has already stored the new level; in
the default policy rank D multiplies the limits by 120 percent and rank C, above it,
by nothing, so that this promotion lowers them.

## 6. Proofs

All proofs are checked by TLAPS to the last leaf, for every value of the
constants; the assumptions are the `ASSUME`s of the modules (distinctness of
`None`, ranges of the numbers), which TLC evaluates on every run.

* **RefreshTokens.** `FamilyInv` strengthens `RotatedNotForked`: in a family that
  is not `raced`, at most one refresh is in flight, and the usable tokens of the
  family are at most the one it presented. Without it, a refresh about to consume
  its token could coexist with another usable token. `NoTokenOutlivesUser` needs
  only the foreign key and its cascade. `OverFamilyStaysOver` is a step property
  from `FamilyInv`: only a refresh in flight mints into an existing family, and
  only a usable token starts one. `ForkInv`, for `ForksAreShared`: the refreshes still
  at work with a token are counted with the tokens minted for it, and a usable token has
  none of these and only such requests as have yet to revoke it; so a look-up, which
  wants a usable token, finds that nothing but the requests in `Holding` counts.
* **GuildActivity.** `GateInv`: from its first write to its commit a request holds
  the row lock of its user (`WriterHoldsLock`), so nobody else increments between
  the comparison and the increment; `StreaksExplained` keeps the streak within
  the freeze threshold, which the type invariant needs. `DayInv`: rows are never
  dated ahead of the clock, nor ahead of a request of the same day that has still
  to write.
* **Federation.** `ContractInv`: one handler at a time has an activity in hand,
  and it has stored nothing of it yet (`OneInHand`); every "ok" on its way, in a
  reply, a verdict or a delivered row, is about a recorded activity
  (`OkMeansRecorded`). From it, each step is a step of `DeliveryContract` or
  changes nothing of it: theorem `Refinement`.
* **Accounts.** `ShapeInv` adds to the types that an account just made by a request
  at work is still that account (`MakersKnown`), from which
  `NoTokensBeforeApproval` follows. `CapInv` counts every request past the count of
  users as an account it may still make: accounts and such requests together stay
  below max_users plus the number of requests, because a request passes only when
  there is room for one more; `RateInv` is the same argument for the limiter.
  Counting uses the library's theorems on finite sets. `BootInv`, for `OneBootstrap`: unless two setups overlapped, a setup that may still
  insert is alone and finds no administrator.
* **GuildActivity**, the freeze. `FrozenInv`: a request in flight of a user without
  overlaps is the only one, and the row it judged is still the row; so what it will
  write over a frozen row is frozen. `FrozenStays` is the step property from it.
* **Federation**, the rows. `RowInv`: a row whose destination is listed once is settled
  only when its request has passed it, and a retry that lists it finds it settled, as
  failed; the row a request serves has not been passed (`CurrentUnsettled`), so the two
  never meet. `PendingAttended` is one of its parts, `DeliveryIsFinal` a step property.
* **Calls.** `CallInv`. What a handler relays is about a call with a record and its
  parties (`WorkInv`); a session follows a call of its own user and knows the peer
  (`PartyInv`); `PeerInv` is `PeerIsTold` for the caller that has no active call yet,
  too, because the callee may end the call before the caller is acknowledged. Nothing
  in it depends on how many sessions a user has.
* **Rooms.** `RInv`. By the kind of a transaction and its place, what it has changed
  and locked (`ShapeInv`); the locks on the rooms row exclude each other and keep the
  row, and the transaction that deletes it has deleted every member row there is
  (`LockInv`); overlaps with a leave are known (`OverlapInv`, `RemovalInv`); what a
  transaction has found out, such as the members that remain, is still so when it
  commits (`FoundInv`). That last one needs the locks: a member counted as remaining
  may be gone by the commit only by another leave or removal.
* **RoomReads.** `ReadInv` looks at messages in flight as well: what an open operation
  of a member has not shown is recorded as crossing it, and a cursor has skipped
  nothing that becomes visible later. `AloneInv`: an operation alone takes its time
  after the cursor's.
* **ReadReceipts.** `StampInv`: the time of a request is not older than the messages
  it found, and what it is about to mark as read it has delivered.
* **DirectMessages.** `PassInv`: a request beyond a gate has met it open, and a sender
  whose row had no restriction has none when the reports are counted, unless `switched`.
* **Push.** `PushInd`, by dispatch. Devices that are or will be pushed to are devices the
  recipient was signed in on (`Aimed`); a device the relay has still to push to has been
  sent nothing unless hybrid mode has seen a failure (`SentOnce`); a device that is not
  reached yet is still on a list, or the failure is noted (`Served`). The lists of
  dispatch and relay have to be in it, since a dispatch may have timed out while the
  relay goes on sending.
* **QrLogin.** `OnceInv`: while Redis answers, the session of approvals and polls that
  do not overlap is pending or being approved, then approved or being polled, and only
  when it is none of these have its tokens been handed out (`OneLogin`).
* **PasswordReset.** `TokenInv`: as long as the key is there, or a request hashes with
  it, the token has set no password but for requests that were broken off.
* **OneTimeUse.** `CredentialsAreOneTime`, step by step: `SessionStep` and `TokenStep` show
  that a step of the module is, for each session or token, an `Issue`, `Use`, `Spend` or
  `Rest`; the invariants above are what makes a second use an excused one.
* **AdminAccess.** `PowerInv`: a request past a check held, at some moment, what the
  check asks for. **Settings.** `OrderInv`: a request that nobody crossed is alone with
  its saves, so the table agrees with what it wants as far as it has got, and its view
  with the table as far as it has read.
* **Moderation.** `ReviewInd`. Reviews that share a report or a user are known as such
  (`SharedInv`), so a report that is not `doubled` is open as long as it is under review
  (`OpenInv`); the row of a user who is not `entangled` is as its only review copied it,
  but for what that review has written: the copy counts the committed warnings plus the
  restrictions of this transaction (`RowsInv`), which is what `WarningsAreCounted`
  lacks. `ReviewsAreFinal` and `RestrictionsLast` are the step properties from it.

* **GuildPolicy.** `PolicyInd` says that the table in force was accepted when it was
  saved, or is the default one, which `DefaultAccepted` shows would be. Rows of such a
  table follow one another without touching (`RowsFollow`), so a day is in one of them
  at most (`OneRow`), and when it is in none the code takes the last row, which is the one
  that began last (`FoundRow`). `LevelsRise`, an induction over the rows,
  gives that an active day costs no level. `TablesSort` says that the arrangement a save
  takes exists and is the only one: a row goes to the place that is one more than the
  number of rows before it, and no two rows share a place.
* **GuildScore.** `ScoreInd`. Requests of one user at a time make the user `crossed`
  (`Alone`); what the others have read is still so when they write (`Fresh`): the
  copied score (`CopyFresh`), the rank to be written (`RankFresh`), that there is no
  event of the reference (`RefFresh`), that the granter has no vote in return
  (`VoteFresh`), and that the votes of the day and the points after the cut are within
  the cap (`CapFresh`). `ScoreInv` alone is not inductive: it says nothing of a request
  that has passed a check and has yet to insert. A request reads the clock once
  (`start`) and may commit after midnight, so the cap is argued for the day of `start`.
* **Stickers.** `StickerInd`. Whoever of the users has counted holds the lock of the guild
  row (`UploadOK`), and two requests hold different ones (`LockInv`), so what a request
  has counted holds when it inserts (`CountOK`), and the insertion keeps the quota; two
  uploads of an administrator at once are `crossed`. `GroupsListed` is about
  any table at all: after k rows the walk has what the first k rows make.

Sums over sets (`SumFunctionOnSet`) and the walk of `list_sticker_groups` take an
induction over data. The induction theorems of the library cannot be instantiated,
so these proofs go by contradiction: of the numbers, or of the subsets of a finite set,
for which the statement fails, take a smallest one (`Least` and `SmallestSet`, from the
library's theorems on well-founded relations). From it follow `SumDef` (the recursion of
the fold), `SumRemove` and `SumAdd` (any element may be taken out or put in), `SumPart` (a
part adds up to no more) and `SumSame` (only the values in the set matter).

Four assumptions deserve a word. `RequestAssumption`: finitely many requests run at a
time, so that those holding a token can be counted. `ScoreAssumption`: points, cap and windows are natural
numbers, as the constants in the code are, and finitely many requests run at a time.
`PolicyAssumption`: the rows administrators send have integers or nothing in each field, and
100 times the days of a user is within i32, because a user is active on a day at most once a
day, which `ActiveDaysAreDistinct` shows. `StickerAssumption`: sizes and quotas are natural
numbers.

Where a run puts several modules together, the theorems about its properties
(`CursorsRun`, `ResetRuns`, `ReviewsRun` and so on) follow from those about the modules: the
one that runs keeps its invariant, the others stay as they began. The inductive
invariants were model-checked on the instances of the runs, too.

Only model-checked:

* the liveness properties (`RequestsEnd`, `SilentCallEnds`), out of reach of the prover;
* the type invariant of each module of the runs is part of the inductive invariants, so nothing of the
  safety side is left to TLC alone. What TLC adds is that the modules are not vacuous:
  every action fires within the bounds, and every property notices the faults of
  section 3;
* the three violations of section 5, which are about one instance each.

## 7. Not modelled, and what is left

Not modelled: the dashboard (a user interface over the API), health probes, ALTCHA,
GeoIP, e-mail, start-up configuration, statistics, lists and pages of lists (they
change nothing), cryptography and signature parsing (a nondeterministic refusal in
the inbox), planet news and encrypted backups (each operation is one statement on one
row, so nothing interleaves), the blocked-term search (one bit of a report), and the
deletion of a recipient of federated messages, which takes its inbox rows along.
Names, texts, payloads and the wording of answers are data that no property tells
apart.

What would come next: the one-time setup link of `Accounts` as a third implementation of
`OneTimeUse`; the guild transaction composed with the operations it guards (here each
module has the lock it needs and no more); and liveness of the retry passes of federation
under an assumption on the network that the code does not make.
