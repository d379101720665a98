# CueTV: formal models

CueTV is a shared video queue: one admin page or several manage the queue of a
room, viewer pages (TV screens) play it, and the Go backend keeps the rows in
SQLite and pushes commands and change notices to the pages. These TLA+ modules
model the backend's services, brokers and limiter, the two connection clients of
the frontend, and what the viewer page and the admin page make of what they are
sent. Source paths below are relative to `backend/internal` and
`frontend/src`.

Contents: [the system](#the-system), [modules](#modules), [runs](#runs),
[fairness](#fairness), [proofs](#proofs), [what the code does not
keep](#what-the-code-does-not-keep), [not modelled](#not-modelled),
[plan](#plan).

## The system

| component | state | operations | talks to | hard behaviour | correct when |
|---|---|---|---|---|---|
| QueueService `services/queue.go` | rows of `queue_items` | Add, List, Reorder, Delete, UpdateMarqueeText | SQLite, WSHub | statements of several requests interleave; Reorder is a transaction that may fail at any statement | positions stay 0..n-1 unless a delete, an overtaken add or a partial reorder breaks them; a reorder takes the current item along; every commit is announced |
| PlaybackService `services/playback.go` | `current_index`, `lastAdvance` per session | play, pause, next, prev, VideoEnded | SQLite, SSEBroker, WSHub | read, look up, write without a transaction; several viewers signal one end | accepted signals are 3 s apart; every request ends, or waits for a page that does not read |
| ConfigService `services/config.go` | `room_config` | Get, Update | SQLite, WSHub | read-modify-write of the row, racing others | no update is lost |
| SQLite `database/`, `db/` | tables, write lock, snapshots | statements, transactions | - | busy and stale-snapshot failures | see SQLite below |
| SSEBroker `broker/sse.go`, `handlers/events.go` | map session -> channels | Subscribe, Unsubscribe, Broadcast | viewers | close against send, slow readers, a pending writer blocks readers | no send on a closed channel, no foreign events, nobody waits for ever |
| WSHub `broker/websocket.go`, `handlers/websocket.go` | map session -> connections | Register, Unregister, Broadcast | admin pages | writes to connections that are gone or do not read | the map is that of the connections; pages come and go whatever a write does |
| RateLimiter `middleware/ratelimit.go` | map address -> count and window | Handler, clientIP, allow, cleanup, Stop | every request | sweeps between requests, the last instant of a window, requests that come through proxies | it is a fixed window per client |
| SessionService `services/session.go`, `friendkey.go` | rows of `sessions`, `room_config` | Create, Join, Rejoin, Get | SQLite | a key is looked up before the transaction that inserts it; failures and restarts between the inserts | no half session, no key twice, every request ends |
| WebSocketClient `services/websocketClient.ts` | socket, timer | connect, disconnect | AdminPage | close events that come late | one socket or one timer; a page that stays is connected again |
| SSEClient `services/sseClient.ts` | event source, timer | connect, disconnect | ViewerPage | losses and timers | the same, and nothing left after the page |
| viewer page `pages/ViewerPage.tsx` | video of the player, `videoEndedFiredRef` | SSE events, end of a video | SSEBroker, PlaybackService | subscribe then catch up, dropped events, signals of several viewers for one video | it shows the current video, unless its last load was lost or overtaken; the room goes on from the video that ended, while the debounce is long enough |
| admin page `pages/AdminPage.tsx` | query cache | fetch, notice, drag, edit | WSHub, QueueService | overlapping drags and rollbacks, notices during a fetch or without a socket | it shows the server's queue or is about to |
| auth, YouTube URLs, sign-in, router | - | - | - | - | not modelled, see below |

A request runs in a goroutine of its own. Services of one room share the
database and nothing else, except `PlaybackService.lastAdvance` under its mutex.
After a commit the service tells the admin pages of the session
(`queue:updated`, `config:updated` over the hub) and the viewers (`load:`,
`play`, `pause`, `queue:ended` over the broker).

## Modules

| module | models | notes |
|---|---|---|
| `SQLite` | `database.New`, WAL mode over a pool of connections | the write lock, snapshots, and when a transaction may write |
| `RoomStore` | `queue_items`, `current_index` and the queries of `db/*.sql.go` | extends SQLite |
| `QueueService` | `services/queue.go` and its handlers | extends RoomStore |
| `PlaybackService` | `services/playback.go` and its handlers | extends RoomStore |
| `Room` | both services over one store, and a server restart | composition, properties |
| `Playlist` | abstract: each request of a room acts in one step or not at all, a reorder on the queue as it is then | implemented by Room |
| `RoomConfig` | `services/config.go` and its handler | extends SQLite |
| `PatchedConfig` | abstract: each accepted request is applied in one step before its answer, or fails | implemented by RoomConfig |
| `SessionService` | `services/session.go`, `friendkey.go` and their handlers | extends SQLite |
| `SessionBook` | abstract: sessions with a friend key each, and what clients were told | implemented by SessionService |
| `ViewerSync` | playback's broadcasts, the streams with their catch-up, the viewer pages and their signals | extends PlaybackService |
| `AdminSync` | the admin page's query cache over its sockets | extends WSClient |
| `RateLimiter` | `middleware/ratelimit.go` | |
| `FixedWindow` | abstract: a fixed window per client | implemented by RateLimiter |
| `SSEBroker` | `broker/sse.go` and the loop of `SSEStream` | |
| `WSHub` | `broker/websocket.go` and `HandleQueueEvents` | |
| `WSClient`, `SSEClient` | the two clients and the effects of the pages | |
| `MC...` | instances for TLC | |
| `...Proofs` | theorems | |

**SQLite.** `snap[q]` is what q's transaction sees: `none` outside one, `fresh`
while it is the last commit, `stale` once another commit came after it.
`writer` holds the write lock. A reader never waits. A statement outside a
transaction waits for the lock (or fails after the driver's busy timeout). The
first write inside a transaction that has read fails at once when the lock is
held or the snapshot is stale: the default transaction is deferred and the
connection string of `database.New` does not change that. What commits nothing
(an UPDATE or DELETE that matches no row) makes no snapshot stale.

**Room.** `pos` maps the ids of the rows to their position, `curIdx` is
`current_index`, `qreq[q]` and `preq[p]` hold where a request stands and the
locals that live on. One action is one statement, lock operation or broadcast.
The two reads of Reorder see one snapshot, so they are one action; its first
UPDATE takes the lock (`ReorderLock`); the others and the commit are one action,
because nobody sees them before the commit. `RequestFails` and `PlaybackFails`
let a request end at any statement: lock not free in time, stale snapshot,
cancelled context. `behind` remembers what changed since the last broadcast and
so what a page that refetches on notices does not know. A video is the id of its
row. Requests a handler refuses change nothing and are left out. A client sends
as a reorder list distinct ids that exist or existed: what an admin page builds
from a queue it has read, current or not.

`Restart` is the server going down and coming up: goroutines, transactions and
the debounce map are gone, committed rows stay.

**Playlist.** The rows, the index and, for each admin and player, what it has asked for:
an add with the position it counted, a reorder with the place of each row it lists, a
move with its target. An admin's edit changes the rows or the index in one step and is
then done; next and prev stay moves to the position that was found when they began,
so that a reorder in between may put another video there, as in the code
(`AdvanceStaysOnItem`).

**RoomConfig.** `creq[c]` is where a PATCH stands, with the params it computed
from the row it read. `OtherCommit` is a commit of any other service, of the
index or of anything else. A PATCH is a function from some fields to values, the
empty one included.

**SessionService.** `keyOf` is the table of sessions, `configs` the rows of
`room_config`, `sreq[q]` where a creation stands, `known` what clients were
told. The transaction starts with an INSERT, so it waits for the write lock and
then sees every commit: a key that was taken since the search fails on the
UNIQUE constraint. Rows of an open transaction are in `sreq` until the commit.
Every spelling of a key that normalises to the same text is one key.
`OtherWrites` is any other service's transaction.

**ViewerSync.** `chan[v]` is the channel of a subscriber, `page[v]` the video of
a page and whether it has signalled its end, `signal[v]` the POST under way.
The playback steps are those of `PlaybackService`, each with what it
broadcasts; play, next, prev and signals are served at once, as in the code, and their
broadcasts overlap. `serves[p]` is the video of the signal a goroutine serves, until it
acts on it. The queue is not edited: rows and positions are those of the initial state.

`missed` and `disturbed` are history that the properties use and no guard reads. They say
where the code keeps neither property:

- `missed`: the viewers whose last load was lost (a full channel, a failed read, a player
  that was not ready) or overtaken. Two goroutines that move the index may broadcast their
  loads in the other order, and then the pages stay on the video the room has left. A load
  that is current when it is broadcast makes up for it.
- `disturbed`: the debounce measures time and not which video ended. A signal, a load or
  an accepted advance that takes longer than the interval lets a second signal for the same
  video through, and a play, next or prev is not debounced at all. The clock moves freely
  (`Time`), so all of this happens. The room is `disturbed` from a command, or from an
  instant at which the interval is over and something is still about another video
  or under way, until the clock moves while it is `Settled`: every page that is up to date,
  every load and signal is about the current video, and no goroutine is about to move the
  room.

**AdminSync.** The server is a version number of its queue, the broadcasts it
owes and the sockets in its hub; `notices[s]` are the messages under way.
`cache` is a version, nothing, or `Guess`: an order the page made itself. An
invalidation drops the fetch in flight and starts another one, except the first
fetch, which has no data yet and is joined (TanStack Query; `Invalidate`).
`missed` is history: a notice was lost, had no registered socket, or could not
start a fetch, or a fetch failed, since the last fetch began.

**RateLimiter.** `s.mu` makes allow and a sweep one step each. Counts saturate
at `MaxCount`, above the limit, where they make no difference. A sweep may come
at any time, not every minute. A request comes from its client or through trusted
proxies, each of which does what `nginx.conf` says: it appends the address it got
the request from to `X-Forwarded-For` and puts it into `X-Real-IP` (`Received`). A
header is a sequence of addresses and of texts that are none. `answer` names the
request's client, not the address it was counted at, so that `FixedWindowSpec` says
that the two go together. A host whose own address is trusted speaks for the
address it names (`Owner`).

**SSEBroker, WSHub.** A RWMutex is modelled by its rules: a Lock that is
announced makes later RLocks wait, then waits for the readers there are, and its
Unlock lets all waiting readers in. What runs between Lock and Unlock is one
step. Broadcast of the broker sends one channel at a time under RLock; that of
the hub copies its targets under RLock and writes after it. A peer in `Stuck` is
connected and never reads. A connection in the hub is used once; a viewer
connects again and again.

**WSClient, SSEClient.** A page has one current client; `created` are all it ever
had. `close()` of a WebSocket takes effect later and then runs onclose;
`close()` of an EventSource takes effect at once and runs nothing. Delays of the
backoff are abstracted to "some time later".

## Runs

Bounds are in the cfg files.

| run | instance | shows |
|---|---|---|
| room_conflicts | 2 rows, 2 queue + 1 playback goroutines, every queue command, play, next, prev | `RoomTypeOK`, `ChangesAreAnnounced`, `SnapshotHolds`, `ReorderKeepsCurrent`, `ContiguityKept`, `KeepsPlaylist` (implements `Playlist`) while two reorders, adds, deletes and an advance overlap, fail and restart |
| room_live | 1 row, 1 queue + 2 playback goroutines, interval 2, clock to 3 | `AutoAdvanceSpacing`; `RequestsFinish`, `BehindCatchesUp`, where broadcasts need not return |
| config_patches | 3 PATCH goroutines, 2 fields, 2 values, 2 indexes | `NoLostUpdate` (implements `PatchedConfig`), `TypeOK` |
| limiter_window | 2 clients, 1 trusted address, up to 2 proxies, headers of up to 1 address, limit 2, window 2, clock to 5 | `FixedWindowSpec` (implements `FixedWindow`), `ExpiredEvicted`, `TypeOK` |
| sse_sessions | 3 viewers of 2 sessions, 2 senders, channels of 1, 2 events | `NoSendOnClosed`, `MapMatchesViewers`, `OnlyOwnEvents`, `TypeOK`; `BroadcastEnds`, `LeavingEnds` |
| ws_sessions | 2 connections that read and a stuck one of another session, 2 senders | `HubMatchesConns`, `OneSessionPerMessage`; `ConnsServed`, `TargetsHear` |
| sessions | 3 creations, 3 ids, 2 keys, 2 attempts | `SessionsWhole`, `KeepsBook` (implements `SessionBook`); `CreatesEnd` |
| viewer_sync | 2 videos, 2 viewers, channels of 1, 2 playback goroutines with play, prev and signals, interval 1, clock to 2, 2 under way at a time | `OnCurrent`, `NoSkip`, `ViewerTypeOK` |
| admin_sync | 2 clients, 2 sockets, 2 mutations, 1 commit | `StaleHasCause`, `GuessIsTemporary`, `OneTransport`, `KeepsTrying`, `SyncTypeOK`; `Reconnects` |
| sseclient_stream | 5 clients | `LeavesForGood`, `KeepsTrying`, `StatusOfCurrent`; `Reconnects` |

Two more runs end with a counterexample, see [below](#what-the-code-does-not-keep).

Why the bounds are enough. Two rows are what a shared position, a gap and a swap need;
two transactions are what a lost update or a stale snapshot needs, and the third
goroutine is the commit that makes it stale. `room_live` asks about locks, the mutex and
the clock, which do not depend on how many rows there are: one row is enough for a
reorder to hold the write lock and for `prev` to write the index, and two accepted
signals with a debounced one between them fit in four instants. A channel of capacity 1
is full at once, as one of 16 is after 16 events. The windows of the limiter end, with
requests at their last instant and after it, before the clock stops; one address in the
header and two proxies give the chain an entry on either side of the client's. In
`ws_sessions` the stuck page is of the other session, so that its write blocks one
sender for good while the pages of the first session come, go and are written to. In
`sessions` there are more requests than keys, so that two pick the same one, the third
finds none, and the attempts run out. Two videos and two viewers are what a second
signal, a late one and a catch-up between two loads need; a third video would only
repeat the step. Two goroutines are what two overlapping moves need, whose loads come in
the other order, and a command beside a signal; prev stands for next, which differs in
the direction. Interval 1 is over with the first tick, so that a signal is accepted, a
second one debounced and a third one accepted before the clock stops, with loads and
signals under way at both ticks. `FewUnderWay` keeps two requests, signals and catch-ups
under way at a time (`MaxUnderWay`): what a third one adds takes TLC longer than a run
may, and is covered by the theorems. In `admin_sync` the queue changes once, before,
during or after any fetch, drag or loss; two drags overlap with each other and with it.
Two sockets are enough for the old client's, which closes late, and the new one's: a
client has at most one (`OneTransport`), and a page that wants a socket while both are
taken waits for the close event. `MaxClock`, `MaxTime`, `MaxCount`, `MaxEvents`,
`MaxMessages` and `MaxQueue` bound counters, `MaxUnderWay` the states of `viewer_sync`
that are looked at further; `Items` bounds the adds of a behaviour, `Cap` the channels.
What is proved holds without bounds.

Deadlock is checked except in `WSHub`, where all connections may be used up and
a stuck write may stand alone, and in the two clients and `AdminSync`, where a
page that has closed its last client is at rest.

Symmetry is used in `room_conflicts`, `config_patches` and `viewer_sync`, which
check safety only, for row ids, goroutines and viewers; no definition
distinguishes them.

## Fairness

- `Room`: a request that has started goes on (`WF` of `QProceed`, `PProceed`,
  which include failing: a wait for the database ends with the busy timeout), except in
  a broadcast to the hub (`QAnnouncing`, `PAnnouncing`): its writes have no deadline
  (`websocket.go:88-89`), and a page that does not read holds the request for ever.
  So `RequestsFinish` says that every request ends or comes to its broadcast, whatever the
  others do in theirs, and ends if its own broadcasts return (`QReturns`, `PReturns`);
  `BehindCatchesUp` is claimed if all of them do (`AllReturn`).
  `EndedLock` has `SF`: `sync.Mutex` hands over to a waiter it starves. No client
  is obliged to send anything.
- `SessionService`: a creation that has started goes on (`WF` of `SProceed`). A
  wait for the lock ends with the busy timeout (`InsertTimesOut`); a statement
  need not fail.
- `RateLimiter`: the ticker of cleanup fires (`WF` of `Cleanup`).
- `SSEBroker`, `WSHub`: goroutines that can run do, and RWMutex serves every
  writer (`SF` of `Announce`). No viewer is obliged to read. In the hub a write
  is fair only while every target left reads or is broken, because the order of
  the loop is that of a map and the next write may be the one that never returns.
- clients: timeouts fire, close events come, and the server accepts an attempt
  in the end (`SF` of `Opened`), which is up to the network. `AdminSync` takes
  over this fairness and adds none: no fetch, notice or mutation has to end.
- `ViewerSync` states no fairness; its properties are safety.

## Proofs

TLAPS proves these for every value of the constants that satisfies the named
assumptions of the modules (finite `Items`, `NoReq` no goroutine, a positive
debounce and so on).

`RoomProofs`:
- `RoomTypes`: `Spec => []RoomTypeOK`, by cases over the actions of each module.
- `Announced`: `Spec => []ChangesAreAnnounced`. `ChangesAreAnnounced` is
  inductive with the types.
- `Snapshots`: `Spec => []SnapshotHolds`. Every action that changes `curIdx` or
  the rows makes the open snapshots stale, except those of the transaction that
  commits, which ends.
- `ReorderKeeps`: from `SnapshotHolds` at the commit: the index and item it read
  are the ones there are, so the UPDATE puts the item where the index goes.
- `Spacing`: from an invariant of the mutex: the goroutine between the check and
  the stamp holds `mu`, and `lastAdvance` is still what it compared with.
- `PositionsKept`: `Spec => ContiguityKept`. A reorder keeps the list it was sent,
  whose ids are distinct (`OrdersInjective`), so a list of the rows there are has as
  many slots as there are rows; an Add whose count still holds takes the next
  position; nothing else but a delete changes `pos`.
- `RoomIsPlaylist`: `Spec => KeepsPlaylist`, a refinement proof. `Edits` and `Moves`
  show what a goroutine has asked for and whether it has been done. The INSERT, the
  DELETE, the commit of a reorder and the UPDATE of `advance` are the abstract steps;
  counting, reading and the lookup ask; an answer, a failure or a restart ends what was
  asked; the locks, the debounce and the broadcasts stutter. The commit of a reorder is
  the abstract one because `SnapshotHolds` says that what it read is what there is.

`RoomProofs`, for `ViewerSync`:
- `ViewerTypes`: `ViewerSpec => []ViewerTypeOK`.
- `ViewersOnCurrent`: `ViewerSpec => []OnCurrent`, for viewers whose last load was
  neither lost nor overtaken. From `CatchUpInv`: the last load in the channel of a viewer
  that missed none, or else what its catch-up has read, or else its page, is of the current
  video, or the load of the current video is about to follow. That the stream subscribes
  before it reads the index is what keeps it. `TargetInv`: the row `advance` has found is
  still at the position it writes, so the load it owes is `Coming`.
- `NothingSkipped`: `ViewerSpec => NoSkip`, while the room is not `disturbed`. From two
  invariants, next to `DebounceHolds`, which is the one of `Spacing`.
  - `WindowInv`: in an undisturbed room whoever is between its stamp and its load is inside
    the interval, so a goroutine that passes the debounce finds no other one there, and no
    two move the room at a time.
  - `SignalInv`: in an undisturbed room, all is about the current video (`Agreed`) when
    the interval is over. Outside the interval no load is broadcast and no index moves, and
    what viewers do keeps `Agreed`; the clock may end the interval only in a room that is
    `Settled`, or disturbs it. So a signal that is accepted is about the current video, and
    stays so until it is acted on.

`RateLimiterProofs`: `LimiterTypes`, and `LimiterIsFixedWindow`, a refinement
proof: the mapping shows the entries that have not expired, so that a sweep is a
stutter, renewing an expired entry opens a window, and a tick closes the windows
that end with it. `CountedAtOwner` says that a request is counted at its owner's
address: what follows the client's entry in the chain are trusted addresses, so it
is the rightmost one that is not.

`RoomConfigProofs`: `ConfigTypes`, `ParamsAreCurrent` and `UpdatesAreAtomic`, a
refinement proof: `Pending` maps a goroutine to the fields it was asked to set, until it
commits, and to `Applied` until it answers. The commit is the abstract patch, because
`ParamsCurrent` says that its params are the present row with the fields of the request
on top; accepting a request asks, an answer, a failure or a restart ends it, a commit of
another service moves the index, and the rest stutters.

`SessionProofs`: `SessionInvariant`, `SessionsAreWhole` and `ServiceKeepsBook`, a
refinement proof. The inductive invariant is `InsertsAlone` with the types: who
stands between the first INSERT and the commit holds the write lock, so nobody
commits the same key meanwhile, and no two requests have one id. The commit is
then `Register` of the abstract book, an answer or a read is `Tell`, and the
rest stutters.

`SSEBrokerProofs`: `SendsAreSafe` and `MapIsOfViewers` from `MapInv`: a channel
is closed by the step that takes it out of the map, under the write lock, and no
sender is between its RLock and RUnlock then. `ViewersGetTheirEvents` from
`OrderInv`: nothing a viewer has received, its channel included, is newer than
what its sender broadcasts now, and where the sender has not been yet it is older.

`WSHubProofs`: `HubIsOfConns` and `MessagesStayInSession`, from `MessageInv`: a
message has one sender and one number, and until its sender has copied the targets
nobody has heard it.

`SSEClientProofs`: `LeftClientsStayQuiet`, `OneWayToTheStream` and
`IndicatorIsTrue`, which are inductive together with the types.

`AdminSyncProofs`: `ClientsHaveOneTransport` and `ClientKeepsTrying` from
`SocketInv`, an invariant of `WSClient` (which socket belongs to which client,
`Wired`), carried over because each step of `AdminSync` is one of `WSClient` or
leaves the sockets alone. `OldListsHaveCause` and `GuessesLeave` from `CauseInv`:
an answer that is old when it arrives has a cause to be fetched again, too, and an
edit is a cause only once it is committed.

Only model-checked: liveness (`RequestsFinish`, `BehindCatchesUp`, `ExpiredEvicted`,
`BroadcastEnds`, `LeavingEnds`, `ConnsServed`, `TargetsHear`, `CreatesEnd`,
`Reconnects`), which TLAPS does not reach. `TypeOK` of `WSHub`, `SSEClient` and
`SessionService` is no property of a run; it is proved as a part of the invariant.

## What the code does not keep

Each of these is a run that TLC ends with a counterexample, the shortest way to
see it.

| run | a comment or doc says | the code |
|---|---|---|
| room_advance_race | the highlight does not drift to another video (`queue.go:151-153`) | it does when a reorder commits between the statements of `advance` |
| wsclient_leave | the page disconnects on cleanup (`AdminPage.tsx:108-110`) | the close event that follows reconnects |

More places where the models follow the code and a comment says otherwise, each
to be seen in the definition named:

- `AdvanceLookup`: a position without a row is taken for the end of the queue;
  at the gap of a deleted row next announces `queue:ended` and never gets past
  it, with videos behind. `playback.go:121-122` says "because the queue has ended".
- `CanWriteAll`, `Write` of WSHub: a page that is there and does not read keeps
  the message from the targets after it; `docs/ProjectPlan.md:82` says updates
  reach "all connected admin interfaces". `TargetsHear` excludes it.
- `missed` of AdminSync: what is broadcast before a socket is registered, or while
  there is none, is not fetched when the socket is up, and a notice that arrives
  during the first fetch does not restart it. The page stays behind until the next
  notice or mutation; the same line of the plan says "in real time".
- `missed` of ViewerSync: a viewer whose full channel dropped a load, whose catch-up
  read failed, whose player was created and not ready, or whose last load was overtaken
  by another request's shows an old video until the next load; `events.go:72-73` says
  viewers "catch up immediately". The catch-up also reads the index and the row in two
  statements; a reorder between them gives it another row (the queue is fixed in
  ViewerSync).
- `PlaybackFails`: an accepted signal whose advance fails stays stamped, and a
  viewer signals once for each load: the queue stands still until an admin acts.
- `CreateFails`: a session whose answer is lost stays, and nobody knows it.
- `AddInsert`: the position is the count, which after a delete in the middle, or
  next to another add, is that of a row there is; `queue.go:47-48` says "placing
  the new item last".
- `Reordered`: rows the list omits keep their position; `models/queue.go:12-14`
  says they "will be removed".
- `PlayLookup`: every play loads the current video; `playback.go:48-50` says that
  later ones "just resume the already-loaded video".
- `ReorderRead`: any error of the query for the current item is dropped, and the
  reorder commits without following it. `ReorderKeepsCurrent` excludes this case.
- `AllowFirst`: the request that opens a window is admitted even when the limit
  is 0 or less (`Quota`); `ratelimit.go:18` says "`limit` requests per `window`".
- `Routes`: the proxies are trusted ones. With `TRUSTED_PROXIES` empty, as
  `docker-compose.yml:15` leaves it, nginx is not, and the requests that come
  through it are counted together at its address.
- `Send`: broadcasts under a read lock may reach two viewers in two orders;
  `docs/ProjectPlan.md:61` says all receive the same commands. `OnlyOwnEvents`
  claims the order of one sender only.
- `disturbed` of ViewerSync: a signal later than the interval, or next to a next or prev,
  advances once more; `playback.go:66-70` says the debounce keeps it from skipping videos.
  Of the properties only `NoSkip` is about it, under the conditions it states.
- `QAnnouncing`, `PAnnouncing` of Room: a broadcast that never returns keeps its request
  for ever, and what it had to announce unannounced.
- `OnClose`: a client the page has left writes the page's connection status.

## Not modelled

- Authentication, CORS, logging, health, YouTube URLs and the parsing of
  `TRUSTED_PROXIES`: functions of one text, without state.
- The viewer page's overlays and marquees. Its queries of queue and config are
  fetched on mount and by nothing else, so a marquee keeps the text it began with.
- The admin page's form fields and the highlight of play and pause, which are
  local to one page; the config cache, which follows `config:updated` in the way
  the queue cache follows `queue:updated`.
- The text functions of the broker.
- Marquee texts, labels and URLs: data no property tells apart.
- Migrations and start-up, which run before any request.

## Plan

1. Done: `SQLite`, `RoomStore`, `QueueService`, `PlaybackService`, `Room`,
   `RoomConfig`, `RateLimiter`, `SSEBroker`, `WSHub`, `WSClient`, `SSEClient`,
   `SessionService`, `ViewerSync`, `AdminSync`; every safety property a run checks
   is a theorem.
2. Done: `Playlist`, which `Room` implements with deletes, overlaps and restarts.
