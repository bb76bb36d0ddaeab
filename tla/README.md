# GeoNote: a TLA+ model of the backend and its clients

GeoNote lets people leave messages on a map. A Go server (`src/backend`) keeps
messages in PostgreSQL/PostGIS, caches the "nearby" query in Redis and pushes new
messages over WebSockets; a Flutter application (`src/mobile`) shows them. This
directory holds TLA+ modules translated from that code, the TLC runs that check
them on small instances and the proofs that TLAPS checks for every instance.

The commit these modules describe does not build as it stands (`main.go` calls
`ws.ServeWS` with four arguments and names two middlewares that do not exist, the
mobile code uses `LocationService.lastKnownOrDefault`, which does not exist, and
migration 005 is missing). The models follow the definitions that are there; what is
missing is either irrelevant to them or marked external.

## The system

| component | state | operations | what is hard |
|---|---|---|---|
| WebSocket hub, `internal/ws/hub.go` | map of clients, RWMutex | Register, Unregister, Broadcast | many goroutines, closing channels others send on, slow clients |
| WebSocket connection, `internal/ws/client.go` | bounded channel, two goroutines, deadlines | ServeWS, readPump, writePump | order, draining, ending both goroutines from either side |
| nearby query, `service/message_service.go`, `cache/redis.go` | Redis keys with a time to live | GetNearby, InvalidateZone | reads that race writes, partial failures, who may read what |
| likes and comments, `repository/interaction_repo.go`, migration 001 | rows, counters kept by a trigger | ToggleLike, AddComment, DeleteComment, Delete | concurrent transactions, locks, cascades |
| message lifecycle, `repository/message_repo.go`, migrations 003 and 007 | messages, unlocks | Create, Delete, UnlockMystery; expiry, capsule reveal | time, check then act |
| reports, `service/interaction_service.go` | reports, `is_hidden` | ReportMessage, HideMessage | steps that fail half way |
| reactions, `repository/interaction_repo.go`, migration 006, `message_popup.dart` | rows; what the popup shows | ToggleReaction, the popup's tap | select then write without a transaction, taps that do not wait for each other |
| gamification, `repository/gamification_repo.go` | streaks, badges | RecordPost, RecordUnlock, CheckAndAwardBadges | concurrent posts, days going by |
| rate limit and anti-spam, `middleware/ratelimit.go` | buckets, last actions | RateLimit, AntiSpam, two cleanup goroutines | time, bounds |
| authentication, `service/auth_service.go`, `middleware/auth.go` | users, tokens | Register, Login, ValidateToken, Auth, OptionalAuth | duplicate registrations, expiry |
| mobile session, `auth_provider.dart` | token in a field, in ApiService and in the preferences | init, register, login, logout | a process killed between two writes, errors that end a session |
| search, `service/search_service.go` | | Search by hashtag or user, in pages | pages of a table that changes |
| server, `cmd/server/main.go` | pool, cache, connections | start, timeout, graceful shutdown | connections that outlive the shutdown |
| mobile WebSocket client, `ws_service.dart`, `map_screen.dart` | channel, listeners | connect, reconnect, disconnect | reconnection timers, several events in one frame |
| mobile lists, `messages_provider.dart`, `events_provider.dart` | lists | loadNearby, create, toggleLike, loadEvents | answers out of order, disposal while waiting |
| mobile screens and widgets | screen state | search bar, comments, unlock, form | answers after the user has moved on |

Request goroutines call the services, which call the repositories (one SQL statement
or transaction each), the cache and the hub. `Create` writes the row, then invalidates
the cache, then broadcasts, then updates gamification. The hub shares its map with one
pair of goroutines per connection. The mobile client reloads the nearby list when an
event arrives. What makes each part correct is listed, with the line where it can go
wrong, under "hazards" in `PROJECT.json`.

## Modules

### Hub

One action per step between two points where another goroutine can be seen: a channel
operation, a lock, an I/O call. `clients`, `send`, `closed` are the hub's map and the
channels; `serve`, `reader`, `writer`, `cast` say where each goroutine is; `spawned[c]`
counts the goroutines that `go h.Unregister(client)` started. `accepted`, `delivered`
and `expected` are histories for the properties.

`sync.RWMutex` is external. `lock` holds the one writer that has announced itself: from
then on new readers wait, and the writer goes on when the readers that were inside have
left (`Announce`, `Acquired`). The critical sections of Register and Unregister do not
block, so they are one step together with their Unlock; the range loop of Broadcast is
one step per client, because other goroutines can be seen in between.

A channel panic is not a deadlock of the model but a value of `panic`: the channels for
which a goroutine sent on, or closed, a closed channel.

Abstractions: messages are numbers in the order of their broadcast; the lengths of the
deadlines are left out (a peer that vanishes, a write that fails and a ping that fails
are nondeterministic); the close frame is not a delivery. The receive of writePump's select
and the opening of the frame, in which `len(c.send)` is read, are two steps (`Receive`,
`OpenFrame`), since a broadcast may fill the channel in between; a NextWriter that fails
loses the message received.

### NearbyCache

One grid cell, so a key differs only by its requester: `GridKey` keeps the prefix of the
user id that the code takes, given by the constant `Prefix`. A GET is five steps (cache,
query, masking, store, answer), a POST or DELETE three (statement, SCAN, DEL). Any Redis
or database call may fail (`Fault`, at most `MaxFaults` times); a row read that fails
half way leaves a prefix of the result, as the code does not consult `rows.Err`. A
request whose context has timed out sees every further call fail. Time is counted in
units; `TTL` and `Patience` give the cache's time to live and the request timeout. `Askers`
are those who send a GET; any user may write.
`granted` remembers every unlock, because the rows of `message_unlocks` disappear with
their message.

Abstractions: messages are numbered by distance and a list is a set, since no property
depends on the ranking; reactions do not change which messages are listed; the
masking loop is one step, since a message's outcome depends on its own unlock only.

### Interactions

The likes and comments of one message. A request is a transaction whose statements are
the actions `Select`, `Insert`, `Delete`, `Bump` (the trigger's UPDATE), `Read`,
`Commit`; the deletion of the message is `LockMessage` and `Cascade`. PostgreSQL is
external: READ COMMITTED visibility (a statement sees committed rows and its own),
waiting for row locks and looking again, FOR KEY SHARE of the foreign key check (which
an UPDATE of a counter does not block, a DELETE does), and the deadlock detector. The
answer of a commit, that of the deletion included, may be lost (`ok = FALSE` with the
change made).

### LikeLedger and InteractionsRefinement

`LikeLedger` is what those endpoints promise, without transactions or locks: a request takes
effect at one moment or not at all, its counter moves with its row, its answer describes that
moment, the message goes once and takes everything with it. `InteractionsRefinement` maps
Interactions to it: the likers and the thread are the keys that have a committed row, and the
answer is the reply, without the count that a toggle read when it had changed nothing (it
holds no lock on the message then, so the ledger promises nothing of it). A count read under
the lock is kept.

### HubStream and HubRefinement

`HubStream` is what the hub promises one connection, without locks, pumps or channels:
events are accepted at most once, written in the order in which they were accepted, in
frames of one or more, and withheld only from a connection that is on its way out.
`HubRefinement` maps Hub to it: the inbox is the open frame followed by the channel, the
phase is map membership and whether an Unregister goroutine is pending.

### LiveFeed

One running mobile application against the server side of `HubStream`: `WsService`
(`connect`, its three stream handlers, the reconnection timers), the map screens that
come and go with the tabs, their location answers and debounced reloads, and the loading
flag of the shared `MessagesProvider`. A frame is a sequence of events, because
`writePump` joins queued events with a newline; `Receive` parses only a frame of one
event, as `jsonDecode` does. A failed handshake runs both `onError` and `onDone`, a
closed connection only `onDone`. Coordinates and the lists themselves are left out.

### Gamification

What posts and unlocks leave in `user_streaks` and `user_badges`. `MessageService.Create`
and `UnlockMystery` are goroutines whose SQL statements commit one by one; the
gamification calls come after the row is there, their errors are ignored and a restart
(`Restart`) loses what is left of a request. The rows start as migration 003 leaves them: `Legacy` says what a user may
have posted before, and `Migrated` gives such a user a row with `total_posts` and nothing
else, no badge either, so a migrated user's badges for posts come only with the next recorded
post or unlock. The upsert of `RecordPost` is two steps:
CURRENT_DATE and the subquery that counts zones belong to the start of the statement,
the row that it updates is the one its lock finally gives it, so a statement that began
before midnight may be recorded after one that began later (`overtaken`). `created`,
`granted`, `days`, `visited` and `capsules` are histories, because the rows they count
can be deleted.

Abstractions: a zone stands for the rounded coordinates that the subquery counts, and of
a user's posts only the zones that still have one are kept; the
cache and the hub, which `Create` also calls, are in NearbyCache and Hub.

### Throttle

The two limiters of `middleware/ratelimit.go`: a token bucket per address and a cooldown
per user, with the goroutines that forget old entries. A handler's critical section runs
under the mutex and is one step; what it lets through is a history. A token comes back in
`Grain` units of time, and a bucket is counted in the parts of a token that one unit brings
back: for any grain above one a bucket holds fractions of a token, and a request that finds
less than a whole one is refused and keeps the part, as in the code. Rounding of floating
point numbers is left out. `Minute` is the age at which the cleanup drops a bucket,
`Documented` what the documentation says an address gets in a minute.

### Moderation

Reports of one message: the INSERT, the count and the UPDATE that hides it are three
steps of a request, and only an error of the first one is reported to the user. The table
`content_reports` is external: no migration creates it, and the model takes from the
INSERT's ON CONFLICT that it has one row per user and message.

### Session

One phone and the accounts of the server. `stored`, `provider` and `apiToken` are the three
places of the token: the preferences, `AuthProvider` and `ApiService`. `doing` says
between which two awaits of `init`, `_saveAuth` or `logout` the application is; `Kill` may
end the process at any of them and leaves only the preferences. A token is the account it
names and its expiry; the server makes them (`GenerateToken`) and accepts them until they
expire (`ValidateToken`). An answer to a registration may be lost when the account exists
(`AnswerLost`); the second try is refused by the unique constraints, and a login helps.
`Request` stands for every other call: behind `Auth` an expired token is refused, behind
`OptionalAuth` it is served as anonymous, and `acted` remembers for whom.

Abstractions: an account is known by its email; passwords are right or the request changes
nothing; requests that `Validate` refuses are left out. `Request` is sent and served in one
step, so a token that expires between the two is one that had expired when it was sent. A
write of the preferences may be cut off by `Kill` but does not itself fail or return false;
the code does not look at what it returns, so after such a failure the preferences would keep
the older copy, and SessionAgrees says nothing of that.

### Reactions

One message, the popup of one user and the requests its taps send. `Tap` is
`_toggleReaction` up to its request, with the optimistic change; `Select`, `Insert` or
`Delete` and `GetReactionsByMessage` are the statements of the handler, each of which
commits by itself; `Answer` and `Revert` are the two ends. The user may have reacted before
the popup opens (a row with the id `Earlier`), so that two taps may both insert or both
delete, and the popup opens on marks that may be older than the rows, because a reaction
does not invalidate the cache.

The code goes wrong in three ways, and `muddled` says that one of them has happened: an
answer is overtaken by a later one; an answer is lost after its change; an error (of two taps
that insert the same row the second is refused and answered 500) puts back a snapshot while
another tap was under way. The popup may then show a mark without a row or no mark for a row.
Of two taps that delete the same row the second changes nothing and is answered like the
first, which does no harm. An answer to a tap that met no other sets the popup right and ends
`muddled`; `PopupAgrees` says that nothing else makes the popup wrong, and that a tap that
meets no other writes to the row as it had selected it.

Abstraction: a request whose caller has given up is not continued, because its context ends
with the connection.

### Listing

`CreateMessage` fixes a message's reveal and expiry as `MessageRepo.Create` does: a
standard message lives for a day, a capsule from its date for a day, a mystery for good. A
capsule whose date does not parse passes `Validate` and gets neither date: it is visible at
once and stays. `Page` is `LIMIT ... OFFSET`, the rows
whose `Place` (how many come before) is in that stretch, over what `SearchByHashtag` or
`SearchByUsername` orders; the search lists messages that reports have hidden, as its WHERE
does not mention `is_hidden`. `walk` is a client that asks for page after page and keeps
book of what it saw and what changed meanwhile.

Abstractions: every message carries the hashtag and every name matches; time is in hours;
creation times are distinct.

### Server

`main` as phases: pool, ping, cache, serving, draining, the two deferred Close calls, exit.
The states of a connection are those of `net/http`. `log.Fatalf` ends the process without
the deferred calls (`Exit`), be it at the start, when the listener fails or when the grace
period is over; `cut` remembers whose handlers that ended. `Shutdown` does not wait for
hijacked connections, the WebSockets of Hub.

### Proof and MC modules

`HubProofs` and `InteractionsProofs` (which also hold the refinements), `NearbyCacheProofs`,
`LiveFeedProofs`, `GamificationProofs`, `ThrottleProofs` and `ListingProofs` hold the theorems
about the module they are named after, `ServicesProofs` those about Moderation, Session, Server and Reactions,
which share no state, and about `MCServices`, which puts these four, Throttle, Listing and
LiveFeed together. `MCHub`, `MCNearbyCache`, `MCInteractions`,
`MCLiveFeed` and `MCGamification` give the constants of the runs and their symmetry sets.
`MCServices` checks the seven modules that share no state in one run: `part` chooses one,
which is explored while the others rest in an initial state, and every state of each is
reached.
Definitions marked "Mutant" are faulty versions of the definition that follows them: each
property is shown to fail when one is put in.

## Runs

| run | instance | shows |
|---|---|---|
| HubSafety | 2 connections, 2 broadcasters, 2 events, buffers of 1 | TypeOK, NoPanic, NoSilentLoss |
| HubOne | 1 connection, 2 broadcasters, 3 events, buffers of 2, fair | order, drain loop, broadcasts end, leavers released, every accepted event written unless the connection ends, Hub implements HubStream |
| NearbyAll | public mystery of u1, private capsule of u2, requests of u2 and without a token, limits 1 and 2, 1 writer, 1 fault, time to live 2, timeout 2 | TypeOK, OnlyReadable, UnlockedIsReadable, StalenessBounded |
| InteractionsAll | 3 sessions, 2 users, 1 seeded like, 1 comment, 3 requests, fair | TypeOK, counters that match rows, no rows without their message, replies, who can deadlock, somebody can always go on, Interactions implements LikeLedger, requests end |
| GamificationAll | 3 requests, 2 at a time, 1 user, 1 mystery, 2 zones, 3 days, 1 fault, no posts or 2 before the migration | counts, streaks that happened and are not cut short, badges deserved and awarded |
| ServicesAll, throttle | 1 address, 1 user, burst 2, half tokens, cooldown 2, 6 units of time | WindowBound, RefusalsDeserved, SpacedPosts |
| ServicesAll, moderation | 3 requests, 4 reporters, 1 error | HiddenIffReported |
| ServicesAll, session | 2 names, 2 emails, tokens that live for 1 of 2 moments | SessionAgrees |
| ServicesAll, reactions | 1 emoji, 3 taps, 1 other user, with or without an earlier row | PopupAgrees |
| ServicesAll, listing | 3 messages, 2 users, pages of 1 and 2, 2 hours, a day of 1 hour | PagesMissOnlyRemoved |
| ServicesAll, server | 3 connections, 2 seconds of grace | ShutdownIsGraceful |
| ServicesAll, live feed | 2 screens, 2 connections, 1 event, 1 map move | NeverStranded, ConnectionsAddUp, LoadingSettles |

Violation runs, each a disagreement between the code and what the repository says of it
("findings" in `PROJECT.json`):

| run | the code | the text |
|---|---|---|
| NearbyInvalidation | a GET that queried before a DELETE stores its list after the DELETE's invalidation | `docs/architecture.md:97` |
| NearbyPrefix | users whose ids share eight characters share a key | comment, `cache/redis.go:43` |
| ThrottleDocumented | `RateLimit(10, 20)` gives an address 20 requests at once and 600 a minute, and an IP one such bucket for every port | `docs/architecture.md:142` |
| SessionOffline | `init` throws a good token away when the server cannot be reached | comment, `auth_provider.dart:25` |
| LiveFeedOneConnection | a failed handshake schedules two reconnections, a new screen connects beside the old | `docs/architecture.md:118` |
| LiveFeedReloads | a frame of two events does not parse and no reload follows | `docs/architecture.md:119` |

Bounds. A buffer of one or two messages overflows at once, so the behaviours that need
256 messages in the code need two or three here; two broadcasters are enough for two
goroutines to unregister the same client while a third (its readPump) does too. Two
messages and two requesters give the nearby query one message that a requester may not
read and one it may. With a time to live and a timeout of two units a request that has lived
through a tick still stores its list, and a stored list still lives through one, so the bound
of StalenessBounded is reached and not only kept; one fault suffices to lose an invalidation, shorten a list or fail
an unlock check. The message rows and requests of the nearby query are told apart by who
wrote and who asks, so one reader, whose requests follow each other with a new user each
time, fills the cache for another. Three sessions are enough for a wait cycle with a bystander. In Gamification the
rows of two users are independent, so one is enough; two requests of one user interleave
in every way, three days have a gap and a streak, and the thresholds of the badges are
scaled to what three posts and one unlock reach (`MCMilestones`); users start with and
without migrated posts. The buckets of two
addresses are independent as well; a burst of two in six units of time, two for each token,
is used up, partly refilled, refused at half a token, refilled and forgotten.
ThrottleDocumented keeps the proportions of `main.go` and the documentation, all divided by
20: burst 1, 30 tokens a minute, 5 requests documented. `HideAt` is the code's three. Two accounts can
take each other's name or email and be logged in one after the other on the same phone, and
a token expires before the last moment. Three taps on one emoji, from either state of
the row, can both insert or both delete, be overtaken or lost, and be followed by one that
meets no other; that two emoji meet in a snapshot is left to `PopupShowsRows`, which holds for
any set of them. With three messages and pages of one or two rows, rows
shift across a page boundary; sizes 0, 2 and 9 are asked for, which take the default, pass
and are cut to the largest. `MaxEvents`, `MaxFaults`, `MaxOps`, `MaxMoves`, `MaxDay`,
`MaxRequests`, `MaxNow`, `MaxErrors`, `MaxClock`, `MaxTaps`, `MaxPosts` and `MaxHour` only
bound how long behaviours are.

Deadlock checking is off where the system may stop: users need not connect, post or like,
and the bounds above end the behaviours. What must not stop is stated as liveness.

Fairness. Hub: a goroutine that can run is scheduled (the Go scheduler), I/O calls end
because of `writeWait` and `pongWait`; no client has to connect or leave, nobody has to
post, no ping has to fail. Interactions: a statement that can run does, and PostgreSQL's
deadlock detector runs; no connection has to fail.

## Proofs

`HubProofs` proves, for any sets of connections and broadcasters, any buffer size and any
number of events:

- `TypeCorrect`: `Spec => []TypeOK`.
- `HubNeverPanics`: `Spec => []NoPanic`. NoPanic is not inductive. The strengthening
  says that a closed channel's client is neither in the map nor still to be visited by a
  range loop, and that the client is not still to be registered (a client that has not
  registered has an open channel). It holds across Unregister because Unregister runs
  with no reader inside, which is why the lock protocol (`LockOwnerAtCall`: a writer is
  at its Lock call) is part of the invariant.
- `DrainLoopNeverBlocks`: `Spec => []DrainNeverBlocks`. Inductive together with the types:
  only writePump takes from a channel, and closing one leaves what is buffered.
- `DeliveryInOrderOnce`: `Spec => []InOrderOnce`. The order is `FifoInv`: what was accepted
  is what was written, then the open frame, then the channel, and the frame is empty
  whenever writePump is back at its select. That nothing comes twice is `OnceInv`: an event
  belongs to one broadcaster at a time, and a channel still on that broadcaster's list has
  not had it. `ServeBeforePumps` keeps a writePump from running before its registration.
- `NothingLostInSilence`: `Spec => []NoSilentLoss`. The property lacks one fact to be
  inductive: a client that is yet to register is expected by no broadcast
  (`NoneExpectedBefore`), so Register cannot bring one with a debt into the map.
- `HubImplementsStream`: `Spec => ImplementsStream`, step by step. `StreamStep` shows that
  every step maps to a step of HubStream or a stutter: Register to `Join`, a send to
  `Accept` or, with a full channel, to `Skip`, Unregister to `Leave`, the flush of a frame
  to `Write`, the end of writePump to `End`; the locks, the pumps' other steps and the drain
  loop to stutters. It needs the invariants above: a phase never goes back because Register
  is the only way into the map, and a flushed frame is not empty.

`NearbyCacheProofs` proves, for any messages, users, requests, limits, times and number of
faults:

- `TypeCorrect`: `Spec => []TypeOK`, in which the ages show that no request outlives its
  timeout.
- `NearbyShowsOnlyReadable`: `Spec => []OnlyReadable`. The strengthening `ReadableInv`
  follows a list from the table to the answer: rows read are visible to their requester
  (`RowsVisible`), a list about to be stored (`ToStoreFit`) and a list in the cache
  (`CacheFit`) fit every requester of its key. The last step needs that no two users share
  a prefix, which is a hypothesis of the property; run NearbyPrefix shows what happens
  otherwise.
- `NearbyShowsUnlocked`: `Spec => []UnlockedIsReadable`. `ClearInv`: the cache and what is
  about to be stored hold no masked message, and what a request saw unlocked when it began
  stays unlocked or is deleted (`BeforeLasts`).
- `NearbyStalenessBounded`: `Spec => []StalenessBounded`. `AgeInv`: the rows of a cached list
  are older than its entry by less than the timeout, and a request's rows are no older than the
  request.

`ThrottleProofs` proves, for any addresses, users, burst, grain of tokens and time, cooldown
and times:

- `TypeCorrect`: `ThrottleSpec => []ThrottleTypeOK`.
- `OnePostPerCooldown`: `ThrottleSpec => []SpacedPosts`. A user's last admission is the
  one in the map, or the cooldown has gone by since: the cleanup removes only entries
  older than two cooldowns.
- `RateIsBounded`: `ThrottleSpec => []WindowBound`. The strengthening says of every
  earlier request that those let through since, together with the tokens left, do not
  exceed the burst and what came back. Forgetting a bucket keeps it because the bucket
  was full again by then (`RefillAssumption`: a minute is longer than 20 tokens at 10 a
  second take).
- `RefusalsAreDeserved`: `ThrottleSpec => []RefusalsDeserved`: with the refused request the
  address would have had more than a burst and what came back since some earlier request.
  From the opposite inequality for that request, the one that found the bucket full; a bucket
  with part of a token refuses, and the part is what the inequality leaves room for.

`InteractionsProofs` proves, for any sessions, users, comments and number of requests:

- `InteractionsTypeCorrect`: `Spec => []TypeOK`.
- `CountersAlwaysMatchRows`: `Spec => []CountersMatchRows`. A commit changes a row and a
  counter, each as the transaction left it some statements ago; that this is right when it
  commits is what the locks are for. `LockInv`: a transaction that has changed a row is the
  only holder of it (`RowLocks`), the committed row is still the one it found
  (`RowAsLocked`), one transaction at a time has a counter update or a deletion of the
  message pending, and no deletion while a foreign key check holds the row
  (`MessageLocks`). `CountInv` adds that there are finitely many rows, which no constant has
  to promise.
- `RepliesAreCommitted`: `Spec => []ReplyIsCommitted`, from `CountAsRead`: the count that
  ToggleLike read before its commit is the committed counter and its own change.
- `OnlyPairsDeadlock`: `Spec => []DeadlocksArePairs`, about sets of requests of any size. A
  request waits for a row of interactions or for the message; one that waits for the message
  holds at most its own row, and only the cascade of a deletion waits for rows of others while
  it holds the message. So a set without a way out contains a cascade, the cascade waits for a
  member that has changed its row, and that one waits for the cascade. `Shape` (which fields a
  request has at which statement) and `MessageLocks` (the message exists while a deletion
  cascades) were strengthened for it.
- `RequestsNeverStuck`: `Spec => []SomeoneCanMove`. Applied to the set of all unfinished
  requests: if each of them waits, they wait for each other only, since an ended request holds
  nothing, and the pair above is one that the detector breaks. It is the safety half of
  RequestsEnd, for any number of sessions.
- `TransactionsImplementLedger`: `Spec => ImplementsLedger`, step by step. A commit maps to
  `Like`, `Unlike`, `Already`, `Add` or `Remove`, the end of a cascade to `Drop`, a failure, an
  abort or a row that is missing to `Refuse`; the statements before them to `Quiet` or a stutter.
  `LockInv` gives the guards (the row is still as it was found, the message is still there) and
  `CountAsRead` the count in the answer.

`LiveFeedProofs` proves, for any screens, connections, events and moves of the map:

- `LiveFeedTypeCorrect`: `FeedSpec => []FeedTypeOK`, with `InboxInv` for what the server side holds.
- `FeedNeverStranded`: `FeedSpec => []NeverStranded`. Only the handlers of a failed or closed
  connection take one away, and each starts a timer in the same step.
- `ConnectionsAlwaysAddUp`: `FeedSpec => []ConnectionsAddUp`. Where run LiveFeedOneConnection shows
  that there can be two connections, this says how many there are: one for each screen ever
  shown and each handshake ever failed, open, being opened or waiting for its timer. Every
  handler moves one element between the four sets that are counted; that they are finite is
  part of the invariant and not assumed.
- `SpinnerSettles`: `FeedSpec => []LoadingSettles`. One event starts a load for every listening
  screen, so the number of loads is a cardinality; `ListeningInv` (finitely many screens
  listen, since they come one by one) is part of the invariant.

`GamificationProofs` proves, for any users, finite sets of sessions, zones and mysteries, any
milestones and any bounds on days, requests and faults:

- `GamificationTypeCorrect`: `Spec => []TypeOK`, with `ReqUsers`: a request has a user.
- `StreaksAreReal` and `StreaksAreKept`: `Spec => []StreakIsReal`, `Spec => []StreakIsKept`.
  A row has a last day exactly when it has a streak (`LastInv`), a statement under way has a
  day (`TodayInv`), and unless one was overtaken the last day is the latest of all
  (`LatestInv`), without which a streak could begin anew next to recorded days.
- `CountsAreExact`: `Spec => []CountsExact`. The property speaks of idle users; `TallyInv`
  adds the requests that have still to record their post or unlock, so that a row and the
  requests under way never exceed the history and equal it until a call fails. `GrantInv`
  ties the unlock rows, which deletions remove, to the unlocks that happened.
- `BadgesAreDeserved`: `Spec => []BadgesDeserved`. What a request carries from its reading
  to its award is already deserved (`CarriedInv`), and stays so because the histories only
  grow; `ZoneInv` bounds the count of zones that a statement took before it had its row.
- `BadgesAreAwarded`: `Spec => []BadgesAwarded`, for any rows that the migration may have made.
  It speaks of users of whom a post or an unlock has been recorded (`Active`): the migrated
  posts of the others have earned nothing, as the migration awards no badges and nothing looks
  at a row but a recorded post or unlock. `AwardInv`: a milestone that an active user has
  reached is a badge, or some request of the user is still to look at the row or has the badge
  on its list. The step that makes a user active is one after which the request looks.

`ServicesProofs` proves:

- `AutoHideIsExact`, for any finite set of users and any concurrent requests:
  `ModerationSpec => []HiddenIffReported`. While enough reports have not hidden the message
  some request is still on its way (`HidingUnderway`), and one that is about to hide it has
  counted enough (`CountedEnough`), which lasts because reports are only ever removed
  together with their message.
- `CopiesAgree`, for any names, emails and lifetime of a token:
  `SessionSpec => []SessionAgrees`. The property speaks of screens that can be used;
  `Underway` adds what holds between the steps of `init` and `logout` (the fields were
  filled from the preferences, or are already empty, or the preferences are), from which the
  next screen at rest follows.
- `ServerStopsGracefully`, for any number of connections and any grace period:
  `ServerSpec => []ShutdownIsGraceful`. `Stage` says for each phase of `main` what is open
  and which connections there may be: none before serving, only closed and hijacked ones
  once `Shutdown` has returned, which is why no handler sees the pool or the cache closed.
- `PopupShowsRows`, for any emoji, number of taps and finite set of other users:
  `ReactionsSpec => []PopupAgrees`. Answers are told apart by the summary they carry
  (`NumberInv`). Unless the behaviour is muddled, the latest summary is shown or waits for
  the popup and has the marks of the rows (`LatestRead`); a tap that has been alone all the
  time is the only one in flight (`AloneInv`), remembers marks that are right, so that its
  `Revert` restores them (`Remembers`), finds the row as it selected it (`Selected`), and reads
  the latest summary, so that its `Answer` sets a muddled popup right (`HasRead`).
- `ServicesTypeCorrect`: `Spec => []TypeOK` of `MCServices`, the types of all seven modules. Two
  parts of it take more than reading off the assignments. The popup lowers a count when it takes
  back a mark; counts stay natural numbers because an emoji with the user's mark counts at least
  one (`Marks`), also in the snapshots that a `Revert` puts back. And the number of summaries
  stays within the number of taps because each tap reads at most one: the summaries read and
  the taps that may still read one are together at most the taps that there are.

`ListingProofs` proves, for any messages, users, page sizes and hours:

- `ListingTypeCorrect`: `ListingSpec => []ListingTypeOK`.
- `PagesMissNoMore`: `ListingSpec => []PagesMissOnlyRemoved`. First, about places in a finite
  set: no two rows share one (`PlacesApart`), none is left out (`PlaceTaken`, by counting and
  not by induction), and rows that go or come move a row by no more places than there are of
  them (`PlaceMoves`). The property speaks of the last page; `WalkInv` says the same of every
  moment: the rows listed all along that the client is past without having seen them are at
  most as many as went away, and those that came twice, together with those seen that it is
  not past, at most as many as came. `SeenPast` is why a row that was seen and is gone does
  not come back.
- `UndisturbedWalkIsExact`, the case that users expect: while no row leaves or joins the list,
  a client that comes to an empty page has seen every row and none twice.

Each of these inductive invariants was first checked by TLC on the instance of its run.

Assumed: `BufSize` is a positive number and `MaxEvents` a number; users and comments are
different things; `MaxDay` is positive, the sessions, zones and mysteries are finite, earlier
posts are a number and lie in zones, and the thresholds of badges are positive; there is an emoji to react with and the other users who react are finitely many; messages are
numbers, those who ask are users or the anonymous requester, who is no user and no prefix,
limits and times are positive; `Burst`, `Grain`, `Cooldown` and `HideAt` are positive, an entry is kept for at least as long as a
burst takes to come back, the users who report are finite; no email is the absent account,
`Lifetime` is positive and `Grace` a number; a day and a page are not empty, `MaxHour` is
positive and usernames are numbers in their order. TLC
evaluates these in the runs of the MC modules.

Only model-checked:

- BroadcastEnds, LeaversReleased and EventuallyDelivered of Hub and RequestsEnd of
  Interactions: liveness under fairness, which is out of the prover's reach.
- The six violation runs, which are counterexamples.

## Not modelled

Layout, theme and wording of the mobile application; trigonometry and PostGIS geometry
(a message is near or not); password hashing and JWT encoding; JSON formatting;
configuration, health check, container and CI files; the read-only aggregations (heatmap,
leaderboard, event detection, popular hashtags, profiles, a user's messages, comments),
which read one snapshot and keep no state. Of the mobile application: the search bar, the
comment list, the unlock button, the form for a new message, the feed's share of
`MessagesProvider` and `EventsProvider`, each a request that fills one list.

## Plan

Done: the hub with its abstract specification, the nearby query with its cache, likes and
comments with theirs, the live feed of the mobile application, gamification, the limiters, moderation,
the session on both sides, reactions with their popup, message windows with the paged
search, start and shutdown of the server; proofs of every safety property of the runs and of
both refinements; liveness is model-checked only. Left, in this order:

1. The search bar and the feed, which share one `MessagesProvider` with the map.
2. Keepalive with the deadlines' lengths; the shutdown of Server composed with Hub.
