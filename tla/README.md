# RematAR: a TLA+ development of its auction core

RematAR is a live auction platform: a FastAPI backend (`src/backend/app`), PostgreSQL as
the only source of truth, Redis for pub/sub, caches and counters, and a React frontend.
Companies publish *remates* (auctions) made of *lotes*; buyers place *ofertas* (bids);
operators open and close lotes from a live console; background tasks close what runs out
of time. Several replicas of the backend may serve requests at once.

These modules model the core that decides who wins a lote and at which price, check it
with TLC on small instances, and prove its safety with TLAPS for every value of the
constants.

    tlc -config Pujas.cfg MCRemateLive        (and the other .cfg files)
    tlapm RemateLiveProofs.tla                (and the other *Proofs modules, RemateLiveRefinement)

## 1. The system

Paths are under `src/backend/app`.

| Component | State | Operations | Talks to | Hard behaviour | Correct when |
|---|---|---|---|---|---|
| Lotes (`modules/remates/lotes`) | a row per lote: status, base and final price, round, display order, timer columns | open, open_next, close, auto_close, cancel, requeue; catalogue editing | RemateService for rights and status; TimerService on open | row lock taken after an unlocked read of the remate; open_next takes none; unique index of the OPEN lote | the status follows its table, one OPEN lote in a LIVE remate, the price of a sale is final |
| AuctionEngine (`modules/ofertas`) | a row per bid | place_bid | lote lock, TimerService extension, Garantias | concurrent bids, retries with a client_token, bids against closes | one leader, increments, no bid lost or doubled, none on a closed lote |
| RemateService (`modules/remates`) | a row per remate: status, type, dates, operator | schedule, start, pause, resume, finish, cancel; editing, access codes | lotes (pause and resume of TIMED remates) | status read without a lock | no terminal status is left, FINISHED has nothing OPEN |
| TimerService (`timer/service.py`) | timer columns of the lote | start, extend, pause, resume, reset, set, auto-close switch | called by open and by place_bid | read without a lock, UPDATE of the changed columns only | a bid's extension is honoured, the countdown is in one state |
| TimerExpiryScheduler (`timer/scheduler.py`) | none of its own | tick each second | lote lock, LoteService.auto_close | candidates listed before they are locked; a tick that raises | what is overdue is closed, at the leader's price |
| TimedAuctionLifecycleScheduler (`timer/timed_scheduler.py`) | none of its own | start and end TIMED remates | RemateService, LoteService | locks the remate, manual actions do not | each remate starts and ends once |
| Garantias (`modules/garantias`) | a row per deposit, its payment at Mercado Pago | create, reconcile, renew, expire, release, capture | payment provider, webhooks, event consumers | two systems without a common transaction | each deposit is captured or released once, and the two agree |
| PostAuction (`postauction`) | a case per sold lote | create, change status, documents | consumes sale events | events lost, repeated, late | one case per sale, for its winner, milestones in order |
| Moderation | bans and mutes in Redis and PostgreSQL | kick, ban, mute, threshold | rooms, events | kick against a join in flight | a kicked user is out |
| WebSocket gateway, rooms, presence | connections and rooms in memory and Redis | connect, join, leave, disconnect | consumer, snapshot | disconnects at any await | rooms and presence agree |
| Event bus, consumer, dispatcher | none that lasts | publish, listen, fan out | every service, every room | pub/sub has no memory | order within a connection |
| Snapshot | cache with a lifetime | build, invalidate | lotes, ofertas, presence | built while events flow | snapshot plus later events is the state |
| Page of the catalogue (`frontend/src/features/rematador`) | a list shown optimistically, the panel of a lote, its gallery | create, edit, move, copy, delete lotes; upload and arrange photos | API, through the session | answers out of order, optimistic lists that are taken back, components unmounted with requests in flight | what is shown at rest is the catalogue, no photo is lost |
| Frontend dialogs of the buyer and the staff | forms and requests in flight | pay the deposit, move a sale | API | answers after the dialog was closed, failed polls | what was done shows, nothing hangs |
| Frontend room (reducer, ws client) | the view of one user | merge snapshot and events, reconnect | gateway, API | events before their snapshot | the view converges |
| Bots | runs in memory and in PostgreSQL | start, pause, react | place_bid | memory and database differ | one reaction per bot |
| Auth (`modules/auth`, `frontend/src/shared/api/client.ts`, `features/auth/store.ts`) | refresh tokens in PostgreSQL; a store per tab and its copy in localStorage | login, refresh with rotation, logout, repeat a request once | every request of every page | many requests meet one expired token; logout and login during a renewal; tabs that share localStorage | one renewal at a time, one live session per browser tab that works alone |
| Chat | messages, counters | send | Redis | counters without expiry | |
| Analytics, history, monitoring, audit, notifications, email, WhatsApp, users, configuration | | reads, appended rows, output | | none of their own | |

The components that are modelled, partly modelled and left out, with the reason for each,
are in `PROJECT.json` under "components"; the hazards, each at its line with the
properties that watch it, under "hazards".

### How the core works, and where it is hard

A request is served by one coroutine with one database session. It reads the remate
without a lock, then the lote with `SELECT ... FOR UPDATE` (ADR-004), decides, writes and
commits. Isolation is READ COMMITTED, so:

* what is read *before* the lock (the status of the remate, the lote of `open_next`, the
  lote of every timer action) may be stale when it is used;
* what is read *after* the lock is current as long as every writer of the row takes the
  lock, and three kinds of writer do not (`open_next`, the timer actions, the status
  actions on the remate): their UPDATE waits for the lock but their decision was made
  before;
* the ORM writes only the columns whose value changed, so a stale writer merges with the
  rows it never saw instead of overwriting them.

`TimerExpiryScheduler` runs the same protocol once per second: it lists the candidates,
locks one, looks again, and closes it at the leading oferta's price.

## 2. The modules

| Module | Models |
|---|---|
| `StateMachines` | the two transition tables, `remates/state_machine.py` and `lotes/state_machine.py` |
| `LoteBook` | abstract specification: what a lote promises a buyer, without requests, locks or clocks |
| `RemateLive` | one remate of type LIVE: LoteService, AuctionEngine, TimerService, RemateService's actions and TimerExpiryScheduler over the same rows; refines `LoteBook` |
| `MCRemateLive` | symmetry for TLC |
| `RemateLiveProofs` | the theorems about `RemateLive` and their proofs |
| `RemateLiveRefinement` | the proof that `RemateLive` implements `LoteBook` |
| `TimedRemate` | one remate of type TIMED: both schedulers, pause and resume of all its lotes, the catalogue that changes about its start |
| `MCTimedRemate` | the plans TLC checks |
| `TimedRemateProofs` | the theorems about `TimedRemate` and their proofs |
| `SalaReducer` | the pure reducer of the buyer's room, `sala/realtime/reducer.ts` |
| `Sala` | one buyer in the room of a remate: server, bus, Gateway, socket, HTTP answers, screen and bid form |
| `MCSala` | the plans TLC checks |
| `SalaProofs` | the theorems about the bids in `Sala` and their proofs |
| `SalaViewProofs` | the theorems about what its page shows |
| `PostAuction` | the case of a sold lote: consumers of the sale, requests that change it, the page of the staff |
| `Garantias` | the deposits of a remate: rows, the payments at Mercado Pago, requests, notifications, scheduler, consumers; EXTENDS `PostAuction`, whose cases it listens to |
| `GarantiaModal` | the buyer's dialog: consent, secure fields, token, request, polling |
| `AfterSale` | the composition of the three and its properties |
| `MCAfterSale` | the plans TLC checks |
| `AfterSaleProofs` | the theorems about the cases in `AfterSale` and their proofs |
| `GarantiaProofs` | the theorems about its deposits and its dialog |
| `Session` | the session of one user in the tabs of a browser: tokens, the interceptor, the rotation on the server |
| `Catalogo` | the rows of a remate in preparation under `create`, `update`, `soft_delete`, `reorder`, `upload_image`; EXTENDS `Session`, in which its requests travel |
| `Preparacion` | `LotesManagementPage` with its panel and gallery over both, and their properties |
| `MCPreparacion` | the plans TLC checks |
| `PreparacionProofs` | the theorems about `Preparacion` and their proofs |

### State of `RemateLive`

| Variable | In the code |
|---|---|
| `remate`, `lote`, `ofertas` | committed rows: `remates.status`; of `lotes` the status, base_price, final_price, round_number, display_order, timer_ends_at, timer_paused_remaining_seconds, timer_auto_close_enabled; of `ofertas` status, lote and amount, by buyer and client_token |
| `lock` | the row lock of each lote |
| `pc`, `req`, `seen` | each transaction: its phase, its request and what it has read |
| `now` | the clock |
| `winner`, `extended` | what was last announced: the oferta of `LoteWinnerDetermined`, the deadline of `LoteTimerExtended` (forgotten when an operator or an opening sets the countdown). No decision reads them; they let properties speak of announcements |

A handler goes `idle --Begin--> read --Acquire--> locked --commit--> idle`; `open_next`,
the timer actions and the actions on a remate commit from `read`, for they lock nothing.
Between its beginning and `read`, `open_next` looks for an OPEN lote (`asked`) and chooses the
next one (`vacant`), in two statements between which others commit.
`Begin*` holds the unlocked reads and the early returns they decide, `Acquire` the lock
and the reads made under it, and each commit action the whole rest of the handler.

| Action | Code |
|---|---|
| `BeginBid`, `AcceptBid`, `RejectBid`, `DuplicateBid` | `AuctionEngine.place_bid`, `_first_rejection_reason`, `_save`, with `TimerService.maybe_extend_for_bid` |
| `BeginLocked`, `Open`, `Close`, `CancelLote`, `Requeue` | `LoteService.open`, `close`, `cancel`, `requeue`, `requeue_preset` |
| `BeginOpenNext`, `FindsVacant`, `ChooseNext`, `Open` | `LoteService.open_next`: the remate, the OPEN lote and the next lote are three reads without a lock |
| `BeginTimer`, `AdjustTimer` | `TimerService.pause`, `resume`, `reset`, `set_remaining`, `set_auto_close_enabled` |
| `BeginRemate`, `ChangeRemate` | `RemateService.schedule`, `start`, `pause`, `resume`, `finish`, `cancel` |
| `BeginAutoClose`, `AutoClose` | `TimerExpiryScheduler.tick`, `_try_close_one`, `LoteService.auto_close` |
| `Refuse` | every error answer after the lock, and a candidate the scheduler skips |

`Column` and `Flush` are the ORM's UPDATE of changed columns. `Writable` is an UPDATE that
waits for a row lock. Both, and the lock itself, are external code, modelled from how the
services use it.

### `TimedRemate`

| Variable | In the code |
|---|---|
| `remate`, `lote` | `remates.status`; of each lote its status, timer_ends_at, timer_paused_remaining_seconds, whether an oferta leads it (`led`) and whether that one is below its base price (`dear`). "NONE" is a lote not created yet, or deleted |
| `remateLock`, `lock` | row locks: the lifecycle task's on the remate, everyone's on the lotes |
| `pc`, `req`, `seen` | each transaction: its phase, its request, what it has read and the rows it has still to lock |
| `now` | the clock |
| `late`, `adrift` | history: lotes whose creation committed after the start, and whether a `resume` that read SCHEDULED has committed |

| Action | Code |
|---|---|
| `AskRow`, `AskCreate`, `AskStatus` | the unlocked reads of `place_bid`, `update`, `soft_delete`, `cancel` of a lote, `create`, and of `pause`, `resume`, `finish`, `cancel` of the remate |
| `ListOpen`, `CheckOpen` | `list_open_lotes_for_update` when its statement begins; `has_open_lote` |
| `LockRow`, `Abort` | SELECT ... FOR UPDATE, one row after the other; a deadlock that PostgreSQL resolves |
| `AcceptBid`, `CancelLote`, `EditLote`, `DeleteLote`, `CreateLote`, `ChangeAll`, `ChangeStatus`, `Refuse` | the rest of those handlers, with `maybe_extend_for_bid`, `freeze_lote_timer` and `unfreeze_lote_timer` |
| `ListExpired`, `LockCandidate`, `CloseByClock`, `FailToClose`, `SkipCandidate` | `TimerExpiryScheduler.tick` over several lotes in one session; `FailToClose` is the price that `_apply_close` refuses, an exception that ends the tick |
| `ListDue`, `LockRemate`, `AutoStart`, `AutoFinish`, `NotYet` | `TimedAuctionLifecycleScheduler.tick`, `_try_start_one`, `_try_finish_one` |

Three things of the database are modelled because the code leans on them. A commit that
writes a lote, an oferta or an audit entry refers to the remate by a foreign key, so it waits
while the lifecycle task holds that row (`RemateFree`). The UPDATEs of a start wait for the
lotes that others hold. And a candidate that the expiry task skips ends no transaction, so
its row stays locked while the task waits for the next one, which is how a pause and a tick
can wait for each other until PostgreSQL aborts one of them.

Of `update` only the base price is followed, and of that only whether it ends above what leads
the lote: the other columns of a lote, and those of the remate (dates, settings), which
`RemateService.update` writes while it is SCHEDULED, are constants of a plan. In `RemateLive`
the catalogue is complete, so that no `update` runs there; one that read SCHEDULED and commits
after the start is modelled here.

### `Sala`

The server here is `RemateLive` seen from the room: one action per commit that publishes,
without requests and locks. Everything between that commit and the pixels is modelled.

| Variable | In the code |
|---|---|
| `outbox` | what each request has committed and not yet published: a sequence per request, for requests publish independently |
| `cache` | the raw part of a snapshot in Redis |
| `member`, `owed` | the connection is in the room; what the Gateway owes it: an answer to its join, then the snapshot of `_send_snapshot`, read by read; or that its join was refused |
| `chan` | messages on the socket, in order |
| `conn`, `retry` | `ConnectionStatus` and `reconnectTimer` of `WebSocketClient` |
| `page`, `lotes` | the two HTTP requests of the page, each asked, answered, done or failed |
| `view`, `list`, `shown` | `liveSnapshot`, `liveLotes`, and the snapshot of the last render, which the refs of `SalaPage` hold |
| `form`, `reqs`, `told` | `PlaceBidButton`'s state with `clientTokenRef`; bids in flight; bids announced as accepted |
| `sync`, `listSync` | history: how far the page has followed the server, -1 once it has missed something |

| Action | Code |
|---|---|
| `RemateMoves`, `OpenLote`, `EndLote`, `Requeue`, `MoveTimer`, `RivalBids` | the commits of the services and the events they publish |
| `Publish`, `LoseEvent` | `RedisEventBus.publish`, `EventConsumer`, `EventDispatcher` |
| `JoinRoom`, `RefuseJoin` | `_handle_join_room`: the member, or an error message to a connection that stays open (rate limit, ban, visibility, already in a room) |
| `BuildSnapshot`, `LoteForSnapshot`, `SendSnapshot`, `SnapshotFails`, `ExpireCache` | `_send_snapshot`, `SnapshotService.build` and its cache: the remate, then the cached copy, or the open lote and then its leader |
| `Connected`, `Drop`, `Reconnect`, `Leave` | `WebSocketClient`, which sends `join_room` once per connection, and the cleanup of the effect |
| `Deliver` | `useLiveRemateState`'s listener and the reducer |
| `BuildPage`, `LoteForPage` ... `Reload`, `ServeLotes`, `LotesArrive` | `useRemateSnapshot`, `useLotes`, `useAsyncResource` |
| `Render`, `Continue` | one render with its effects; the won overlay |
| `Touch`, `Submit`, `ServeBid`, `GiveUp`, `Answer` | `PlaceBidButton`, `placeBidRequest`, `place_bid` |

A *plan* (constant `Plans`) fixes where a behaviour starts, which commits the server makes
and the bounds; `Init` chooses one.

### `PostAuction`, `Garantias`, `GarantiaModal`

| Variable | In the code |
|---|---|
| `remate`, `sold`, `feed`, `opening` | status of the remate, lotes sold, and per replica the sales its consumer has not handled and the one it is handling |
| `cases`, `files` | rows of `postauction_cases` with their milestones and documents; files in the store. `at` counts commits |
| `change` | requests on a case: what each has read and who waits for its answer |
| `desk`, `loads` | `VentaAdjudicadaDetailPage`, its `useAsyncResource` and open dialog; its GETs in flight |
| `row`, `pays`, `due` | rows of `garantias`; payments at Mercado Pago, by buyer in the order they were made; rows past `expires_at` |
| `task` | who is working on a guarantee, from its unlocked read over the call to Mercado Pago to its write: requests, webhook, scheduler, a consumer per replica |
| `queue` | per replica, `postauction.case_created` and the end of the remate, not handled yet |
| `dlg`, `card`, `lookups`, `flights` | `GarantiaModal` and each `CardFormStep`: what is typed, the method resolved for it, tokens, requests, polls and timers in flight |
| `known`, `first` | `useGarantiaStatus` and its initial GET |
| `past` | history: rows written while another task had read them, rows the scheduler expired |

A buyer wins at most one lote here and stands for it. One payment per request to
`create_hold`; Mercado Pago captures or cancels one that is held and refuses any other. The
ORM's write of the changed columns is `Written`; `Locked` is the row lock of an INSERT or
UPDATE that was flushed before the call to Mercado Pago. Emails and the warning that a
deposit will expire write nothing the model has. `BreakRequest`, `SettleFails`,
`CallHoldFails` and `Die` are a request or a process that fails at any await.

| Action | Code |
|---|---|
| `LookForCase`, `OpenCase`, `Announce` | `PostAuctionEventDispatcher`, `create_case_from_winner` |
| `ReadCase`, `StoreFile`, `CommitChange`, `RemoveFile` | `change_status`, `add_note`, `upload_document`, `delete_document` |
| `PickTarget`, `Confirm`, `CloseDialog`, `SendFromDesk`, `Answered` | `SaleJourney`, `StatusChangeDialog`, `NoteForm`, `DocumentationCard` |
| `Load`, `LoadArrives`, `LoadFails`, `RetryLoad` | `useAsyncResource` |
| `AskHold`, `FlushHold`, `CallHold`, `SaveHold` | `create_or_retry` |
| `Notify`, `AskStatus`, `SaveStatus` | the webhook and `reconcile` |
| `ListOverdue`, `Expire` | `GarantiaExpiryScheduler._expire_overdue` |
| `TakeCase`, `CallCapture`, `SaveCapture`; `TakeEnd`, `CallCancel`, `SaveRelease` | `GarantiaEventDispatcher`, `capture`, `release` |
| `TypeCard`, `Resolve` | `binChange` and `resolvePaymentMethod` |
| `Submit`, `NoToken`, `PostHold`, `PostAnswer`, `Poll*` | `handleSubmit`, `pollUntilResolved` |

### `Session`, `Catalogo`, `Preparacion`

| Variable | In the code |
|---|---|
| `issued`, `live`, `aged` | pairs of tokens, numbered as `issue_tokens` makes them; rows of `refresh_tokens` not revoked; pairs whose access token has expired |
| `store`, `storage` | `useAuthStore` of each tab; what `persist` wrote to localStorage |
| `calls` | the requests of a tab: what was asked, the token it carries, `_retried`, and how far it is. "read" is a request of the server between an unlocked read and its commit |
| `exchanges` | `refreshPromise` of each tab with its request to `/auth/refresh`, through its three steps |
| `byes`, `login` | logouts on their way, which nobody waits for; a login each tab waits for |
| `lotes`, `editable`, `photos` | rows of `lotes` with number, display_order, images and `deleted_at`; the remate is DRAFT or SCHEDULED; files stored |
| `page` | `lotes` of `LotesManagementPage` with the load of `useAsyncResource` it waits for |
| `drawer` | `LoteDrawer`: mode, step, number, `savedNumbers`, `isSubmitting`, and `currentLote` |
| `refs` | `imagesRef` of each `LoteGalleryManager` that was mounted, since a closure outlives its component |
| `sent`, `mixed`, `raced`, `crossed`, `clashed`, `binned` | history, for the properties |

| Action | Code |
|---|---|
| `Asking`, `TurnAway`, `Unauthorized`, `GivesUp`, `Refreshed`, `RefreshFailed` | the two interceptors of `client.ts`, `refreshSession`, `onRefreshFailed` |
| `Present`, `Revoke`, `IssueTokens` | `AuthService.refresh`: the read, the commit of the revocation, the commit of the new row |
| `Logout`, `ServeLogout`, `AskLogin`, `ServeLogin`, `LoginArrives`, `Reload` | `logout`, `login`, `persist` |
| `CreateReads`, `CreateCommits`, `ReorderReads`, `ReorderCommits` | `LoteService.create`, `reorder`, which lock nothing |
| `ServeEdit`, `ServePhotos`, `ServeDelete`, `ServeUpload`, `ServeList` | `update`, `soft_delete`, `upload_image`, which lock the row, and `list_for_viewer` |
| `MoveLote`, `DeleteLote`, `DuplicateLote` and their `*Arrives` | `persistReorder`, `handleDeleteLote`, `handleDuplicateLote`, `duplicateLote` |
| `OpenCreate`, `OpenEdit`, `CloseDrawer`, `LeavePhotos`, `BackToPhotos` | `LoteDrawer`'s reset, steps and `requestClose` |
| `SaveNew`, `SaveEdit`, `CreateArrives`, `StagedArrive`, `CoverArrives`, `EditArrives` | `submitLote`, `uploadStagedImages`, `handleSave`, `handleSaveAndNew` |
| `Arrange`, `Upload`, `UploadsArrive`, `PhotosArrive` | `persistImages`, `uploadAll`, `onChanged` |
| `Guarded` | `RequireAuth`, part of every step that may empty the store |

Simplifications: the uploads of one batch settle together, each file on its own; the answer of
a PATCH carries what that PATCH committed; equal places are listed oldest or newest first; the
requests that a page which is gone would still have chained are not sent (`Unheard`: an upload
whose page was left still sends its PATCH, `LoteGalleryManager.tsx:112-143`); only the other tabs
are reloaded; what another user may do to the same catalogue is done by another tab. Anonymous
requests, registration, the reset of a password, and the sockets a logout closes are left out.

### Abstractions of `RemateLive`

* Amounts are small integers, an instant is a number of seconds, and a computed deadline is
  always written: real instants have microseconds and never repeat (`Rearms`).
* A bid without client_token is one with a token nobody else uses.
* `min_increment` is a constant: a requeue may edit it, which no property relates to.
  `reserve_price`, the `LoteRound` archive, audit rows, events and their wording are left out.
* Rights, account state and guarantees are hard rules that stop a request before it starts.
* A request that an unlocked read already refuses has no effect and does not begin.
* The index of the accepted oferta (`uq_ofertas_lote_id_accepted`) is not modelled: `OneLeader`
  is proved without it, so it never has a duplicate to refuse.
* The scheduler handles one candidate per tick: a LIVE remate has at most one OPEN lote
  (`OneOpenLote`). Candidates of other remates in the same tick are in the plan.
* A LIVE remate is never finished by the system; `auto_finish` is for the TIMED type only.
* `NULL` is -1, outside every column's values.

Bounds: `MaxTime` stops the clock, `MaxRound` stops requeues, `Offered` names the kinds of
request of an instance, and `Amounts`, `Bases`, `Seconds` list the inputs.
`Quiet` lets a state where every request was answered stutter, so that TLC's deadlock check,
which only `Sala` and `AfterSale` switch off, means that some request can never be answered.

## 3. The properties

| Property | What could really go wrong |
|---|---|
| `TypeOK` | types, among them that a remaining time or a price is never negative |
| `LockedReadsAreCurrent` | a decision under the lock on a row or a leader that an unlocked writer has changed |
| `OneLeader` | two ACCEPTED ofertas after racing bids, retries and rounds |
| `OneOpenLote` | two OPEN lotes after racing open and open_next |
| `SaleIsTheLeader` | the announced winner is not who leads the lote, or not at that price, because something landed after the close |
| `SoldAtLeastBase` | a close that compared with the base price of another round |
| `OfertasAreHistory` | a retry, a race or a later round rewrites a bid |
| `TableBrokenOnlyByOpenNext` | a status change outside the table by anything but a stale open_next |
| `ClockHonoursExtensions` | the scheduler closes before a deadline that a bid had extended |
| `KeepsItsBook` | the lote does not implement `LoteBook`: a best offer that falls or rises while closed, a price that changes after the close, a sale by the clock at another price |
| `OverdueLoteIsClosed` | liveness: an overdue lote whose close is admissible stays overdue |

| `TimedRemate`: `ClockFollowsTheRemate` | pauses, resumes, bids and the start overlap: a countdown that runs in a pause, or a LIVE remate with a frozen lote |
| `NothingStaysPending` | a lote created about the start is never opened |
| `AdjudicatedAsBid` | a bid that waited for a lote lands after its close, or a close misses it |
| `FinishedHasNoOpenLote` | a manual finish decides on a reading that a start has overtaken |
| `AutomaticStepsAreCurrent` | the tasks, which lock, act on what manual actions, which do not, have changed |
| `OnlyAShortExtensionHurries` | an extension brings a deadline forward |
| `LiveRemateEnds` | liveness: locks, aborts, skipped candidates or stale actions keep the tasks from a remate for ever. Two stale actions do, and are excepted by name (section 4) |

| `Sala`: `CompleteViewIsCurrent` | events that arrive before, inside and after the snapshot they overlap, a cached snapshot, a late HTTP answer, a status, a lote and its leader read at three moments: the page that missed nothing must still end where the server is |
| `CompleteListIsCurrent` | the same for the list of lotes, which no reconnection refreshes |
| `AnnouncedBidStands` | a retry or a reused client token answered with the row of another bid |
| `OutbidsHimselfOnPurpose` | the suggested amount moves under the buyer's finger and he raises his own bid, in whatever round |
| `LeaderIsNotTaunted` | "Te superaron" survives the events that made him leader again |
| `WinnerIsCongratulated` | the overlay compares the close with refs of an older render |
| `ReturnsToTheRoom` | liveness: a connection is lost at any moment, its join included, and the page that nobody left and no refusal stopped never gets back into its room |

| `AfterSale`: `RowTellsThePayment` | requests, the webhook, the scheduler and the consumers each read the row, wait for Mercado Pago and write: unless two of them overlapped or something failed, the row and the payment agree and no other payment is held |
| `ChargesAreForCases` | whatever fails or overlaps, money taken from a buyer without a case, or more than once per replica |
| `WinnerIsNotReleased` | the end of the remate overtakes the case: the deposit the winner bid with is released |
| `EndSettlesGuarantees` | liveness: two replicas release the same rows and stop at each other's cancellations; something stays active |
| `GoesBackOnlyByOverlap` | two members of the staff move a case at once: the status goes back |
| `DocumentsHaveFiles` | a request that stops half way leaves a document without its file |
| `OwnChangesShow` | the answer of an older load hides what the page was told was done |
| `TokenMatchesCard` | the method of another card is sent with a token |
| `SubmitEnds` | liveness: the form processes for ever |
| `Preparacion`: `NeverCompetesWithItself` | requests that meet an expired token at different moments start two renewals with one refresh token, of which the second ends the session |
| `OneTabOneSession` | logouts, logins and renewals leave a refresh token that works and that no tab holds, or the store with one that does not |
| `TiesOnlyByOverlap` | a sequence of creations, deletions and reorders leaves two lotes in one place |
| `ListShowsTheCatalogue` | optimistic lists, loads and refusals in any order: the page rests on what the server does not have |
| `NoPhotoIsLost` | whole lists taken from a gallery's memory overwrite each other |
| `ComesToRest` | liveness: a request repeated for ever, a tab that waits for a renewal nobody does, a list left loading, a panel left saving |

`TypeOK` of `TimedRemate` and of `Preparacion`, and `LeavesNothingBehind` of `Sala` (a page that
was left has no timer and no connection), are proved and not run.

`LoteBook` is reached with `open` = the status is OPEN, `best` = amount of the ACCEPTED
oferta, `price` = final_price while sold, `byClock` = the last close announced a winner.

## 4. The runs

| Run | Instance | Shows |
|---|---|---|
| `Pujas` | 1 lote, 3 buyers with a token each, 2 handlers, amounts 1-3, bases 1-2, 2 rounds, no clock | `OneLeader`, `SoldAtLeastBase`, `OfertasAreHistory`, `KeepsItsBook` under bids, retries, manual closes and requeues (394 thousand states) |
| `Ciclo` | 2 lotes, 2 handlers, every operator action on lotes and remate, from DRAFT | `OneOpenLote`, `TableBrokenOnlyByOpenNext` (1.2 million) |
| `Reloj` | 1 lote, 2 buyers, 2 handlers and the scheduler, instants 0-2, bids and timer actions | `TypeOK`, `LockedReadsAreCurrent`, `SaleIsTheLeader`, `ClockHonoursExtensions` (1.3 million) |
| `Vence` | 1 lote, 1 buyer, 2 handlers and the scheduler, fairness, no symmetry | `OverdueLoteIsClosed` (515 thousand) |
| `VenceDesierto` | as `Vence`, one handler | `ExpiredLoteCloses` is violated |
| `AbreCancelado` | 1 lote, open_next and cancel | `LoteFollowsItsTable` is violated |
| `FinalizaAbierto` | 1 lote, open and finish | `FinishedHasNoOpenLote` is violated |
| `RelojDoble` | 1 lote, pause and reset of its countdown | `RunsOrIsPaused` is violated |
| `Timed` | up to 2 lotes, 2 handlers and both tasks, 7 plans: lotes created and deleted about the start, actions before the start, pauses, bids, an extension shorter than its window, a base price edited about the start and bid upon, every way to end; ends_at 2, instants 0-4 | the seven properties of `TimedRemate` (249 thousand) |
| `Sala` | 2 lotes, 8 plans: entering, entering with a failure, watching a lote, a second round, losing the connection and being refused on the way back, moving on to the next lote with a bid, bidding against a rival, a sale to either; up to 4 events, 2 tokens and 2 failures | the seven properties of `Sala` (3.1 million) |
| `AfterSale` | 2 buyers, up to 2 replicas, 11 plans: sales and the end with one replica and a fault, two replicas, another guarantee during the end, two tabs creating or retrying, the scheduler, payments that run out, the dialog (two plans), the staff, documents | the nine properties of `AfterSale` (320 thousand) |
| `Preparacion` | up to 2 tabs, 2 requests each, up to 2 lotes to begin with, 14 plans of 2 to 5 steps: coming and going with an expired token, with a fault, two tabs; the list with a fault or an expired token; new lotes with photos and a fault, with an expired token; new numbers; deleting and creating; the gallery, with a fault; the galleries of two lotes; the start of the remate; another tab on the same lotes | the six properties of `Preparacion` (461 thousand) |

The plans keep each question small: two events overlap a snapshot in *Entering*, one failure
anywhere is *Stumbling* and *Watching*, two are *Rejoining* (a drop, and a refusal or another
drop on the way back), four events are a close, a requeue and an opening in
*Returning*, two tokens and a lost answer are a retry on another lote in *MovingOn*.

In `Preparacion` two requests in flight are what a shared renewal, a reload that overtakes a
reload, and two saves of one gallery take; three lotes, reached from two, tell a count from a
greatest place; four steps open a lote, upload, move on to the next step or lote, and come back.

Why these bounds suffice for what they ask: every race here is between two transactions on
one lote, or between a transaction and the scheduler, so two handlers and the scheduler show
each pair of them. Three buyers give a leader, an outbid one and a retry. Two lotes are what
`OneOpenLote` needs. Two rounds bring a leader from a former round into the next one, with a
base above or below it. Three instants hold an opening, a deadline and its extension. What
larger instances could add is covered by the theorems, which bound nothing.

**Fairness** (`FairSpec`, used by the two liveness runs) assumes of the code only that
the scheduler ticks again (`_run` loops for ever and catches every exception,
`timer/scheduler.py:73-84`): `WF(BeginAutoClose)`; that PostgreSQL serves the waiters of a
row in order, so that the scheduler gets the lock that others keep taking:
`SF(Acquire(Scheduler))`; and that a handler that holds the row decides, for from there on
it waits for nothing: WF of its `Serve`. No request need ever arrive. Safety runs use `Spec`.
`TimedRemate` assumes that both tasks tick every second for ever, as `_run` of either does, and
that PostgreSQL serves the waiters of a row in order and resolves deadlocks: `SF` of the two
tasks and of a request that was accepted, `WF` of `Abort` and of the clock. SF is needed
because the two tasks can be aborted, or find a row taken, again and again.
`Sala` assumes only that the browser fires the timer of `scheduleReconnect`, that the Gateway
then accepts the connection, and that it answers a `join_room` one way or the other. Fairness is
of the answer, never of the acceptance: a refusal is a failure of the plan, and
`ReturnsToTheRoom` excepts it by name (`owed`). Deadlock is not checked there, for a page may
rest.
`AfterSale` assumes that a consumer handles what it has received (its loop catches every
exception), that a request that was accepted is served and that Mercado Pago answers, which
its client bounds with timeouts, and that the browser fires its timers. Nobody has to sell,
notify or open a dialog, and a payment that is pending need never be decided: polling ends
by its own bound.
`Preparacion` assumes `WF(Progress)`: the server serves, answers and refusals arrive, and the
handlers of the page that wait for them run. Users, time and faults (`Moves`) are never forced,
and deadlock is not checked there, for a page may rest.

### Where code and documents disagree

1. **A requeued lote that never closes** (`VenceDesierto`). `docs/40` (187-191) promises the
   close at the first tick after a resume. `requeue` leaves the leader of the former round in
   place; if the new base price is above it, `_apply_close` refuses the price each time.
2. **`open_next` opens a cancelled lote** (`AbreCancelado`). The docstring of the locking
   helper names `open_next` among its users; it uses neither the lock nor the table.
3. **A finished remate with an open lote** (`FinalizaAbierto`). `docs/16` (86) gives "no OPEN
   lote" as a precondition; the check and the commit are not atomic with `open`.
4. **A countdown running and paused** (`RelojDoble`). `lotes/models.py:212` excludes it; two
   timer actions that overlap produce it, each by writing only its changed columns.

Met while modelling `TimedRemate`, and stated here without a run of their own:

* `timer/timed_scheduler.py` and the docstring of `list_pending_by_remate` say that a remate is
  never LIVE with a lote still PENDING, because no lote is created once it is LIVE. `create`
  reads the status without a lock: one that read SCHEDULED commits after the start, and nothing
  opens that lote (`late`).
* `resume` is admitted from SCHEDULED (the table has SCHEDULED -> LIVE) and of a TIMED remate
  opens nothing; one that overlaps the start and a pause leaves frozen countdowns in a LIVE
  remate, which then never ends (`adrift`, and the exception of `LiveRemateEnds`).
* The comment on the dates in `remates/service.py` speaks of extensions that only move forward;
  `extend` sets now plus the duration, which is earlier than the deadline when the duration is
  shorter than the window (`Hurried`).

* `update` of a lote decides on a SCHEDULED remate that it read before it waited for the lote.
  One that read it before the start can commit after a bid and raise the base price above it.
  `_apply_close` then refuses the sale at every tick, the lote stays OPEN, the remate never ends,
  and the exception ends each tick before the candidates that come later (`dear`, the other
  exception of `LiveRemateEnds`; TLC finds the loop without it). It is the divergence of
  `VenceDesierto` from `docs/40` (187-191) reached without a requeue.

Met while modelling `Sala`, and stated here without a run of their own:

* A join that the Gateway refuses (`websocket/router.py:488-550`; the rate limit is the one an
  honest page can meet, by reconnecting too often) leaves the connection open and outside the
  room, and `client.ts` sends `join_room` only when it connects. `docs/28` (85) says that a client
  that reconnects joins its last room again, and (122-124) that the user never sees data that
  may be stale without knowing it: the badge then says "Conectado" over a page that hears
  nothing. `ReturnsToTheRoom` excepts it, and holds of everything else.

* `sala/hooks.ts:84-94` says the HTTP answers are only the first state; an answer that
  arrives after the socket's snapshot overwrites it with an older one (`PageArrives`). The
  properties therefore speak of a page whose *last* base it has followed.
* `liveLotes` is loaded once: after a reconnection the list misses what happened meanwhile
  while the snapshot beside it is fresh, and a later `lote.opened` of an unknown lote is dropped.
* The reducer takes `oferta.accepted` for the lote on screen whatever lote it names.
* A page that reconnects after the sale gets a snapshot without the lote and never
  congratulates.

Met while modelling `AfterSale`:

* `garantias/realtime.py:82-85` says that a reconciliation scheduler retries what stays ACTIVE
  on a remate that was resolved. There is none: after a failed cancellation the row stays
  ACTIVE until it expires. The release loop also ends at the first refusal, so a deposit made
  *after* the end, between two replicas' readings, stays too (`EndSettlesGuarantees` speaks of
  those made before).
* `garantias/realtime.py:133-134` says that what is released never had a
  `postauction.case_created`. The consumer of sales sends emails between two cases, so the end
  of the remate may come first: the exceptions of `WinnerIsNotReleased`.
* `garantias/scheduler.py:18-22` says that a new POST renews the hold before it expires.
  `create_or_retry` returns the ACTIVE row and makes no payment.
* A retry that fails a second time writes its payment and not its status, if another task
  changed the status meanwhile: `RowTellsThePayment` excludes overlapping tasks, and TLC shows
  at once that it must.
* A row that was CAPTURED or RELEASED is used again by the next POST and forgets its payment.
* `void pollUntilResolved(1)` (`GarantiaModal.tsx:460`) has no catch: after a poll that fails
  the form stays busy (`lost` in `SubmitEnds`).
* The method is read when the token arrives (`mercadopagoFields.ts:190`), so a number edited
  meanwhile sends the token of one card with the method of another (`edited` in
  `TokenMatchesCard`).
* The answer of a `StatusChangeDialog` that was closed closes the next one that is open, since
  `onClose` belongs to `SaleJourney`.

Met while modelling `Preparacion`; each is an exception named in a property:

* A renewal that is answered after the user has logged out writes its pair into the empty store
  (`store.ts:112-120` looks at the store before its await only): the user is logged in again. A
  renewal that is refused after another login logs the new session out (`mixed`).
* A second tab works with the pair it read when it was loaded. Once the first has renewed it, the
  second's renewal is refused, and its `logout` writes an empty session to the localStorage of
  both (`mixed`).
* A move that is refused brings back the list of before the move, although another move or a
  load has been answered since (`persistReorder`, `crossed`).
* The photos of a new lote can be stored and their PATCH refused: the lote exists, the panel
  offers to create it again, and the list does not show it (`submitLote`, `crossed`).
* Closing the panel does not stop an upload. What it saves is then the list the closed gallery
  remembers, over whatever a gallery opened since has saved; and the answer becomes
  `currentLote` of whichever panel is open (`LoteDrawer.tsx:373`). The gallery of that panel then
  takes the photos of the other lote into its `imagesRef` (`LoteGalleryManager.tsx:52-59`), and an
  upload it has begun for its own lote saves them there, over its own photos. The plan
  *Galleries* reaches this; without it `NoPhotoIsLost` claimed, and TLC confirmed, more than
  the code does (`clashed`).
* A reorder that is refused after the photos of a lote were saved brings the row with the earlier
  photos back, and a gallery opened from it saves those (`clashed`).

## 5. What is proved

`RemateLiveProofs` proves, for every set of lotes, buyers, tokens, handlers, amounts, bases
and requests, and without a bound on clock or rounds beyond the constants:

| Theorem | Property |
|---|---|
| `TypeCorrect` | `TypeOK` |
| `ReadsAreCurrent` | `LockedReadsAreCurrent` |
| `LeaderIsUnique` | `OneLeader` |
| `SalesCoverTheBase` | `SoldAtLeastBase` |
| `WinnerIsTheLeader` | `SaleIsTheLeader` |
| `OfertasAreKept` | `OfertasAreHistory` |
| `OpenIsUnique` | `OneOpenLote` |
| `TableIsKept` | `TableBrokenOnlyByOpenNext` |
| `ExtensionsAreHonoured` | `ClockHonoursExtensions` |

`TimedRemateProofs` proves, for every set of lotes, handlers and plans, and every bound:

| Theorem | Property |
|---|---|
| `TimedTypeCorrect` | `TypeOK`, which no run checks |
| `TimedClockFollowsTheRemate` | `ClockFollowsTheRemate` |
| `TimedNothingStaysPending` | `NothingStaysPending` |
| `TimedAdjudicatedAsBid` | `AdjudicatedAsBid` |
| `TimedFinishedHasNoOpenLote` | `FinishedHasNoOpenLote` |
| `TimedAutomaticStepsAreCurrent` | `AutomaticStepsAreCurrent` |
| `TimedOnlyAShortExtensionHurries` | `OnlyAShortExtensionHurries` |

The argument is one inductive invariant of nine parts. `RequestInv` and `TaskInv` say which
phases and requests a process can be in. `HeldInv` is the heart: whoever has read a row under
its lock still holds it, and the reading is the row. `CoverInv` makes a pause sound: what
`ListOpen` found covers every lote that is OPEN at the commit, for after the start nothing
opens a lote any more (`PastInv`), while `RowsInv` ties deadlines, frozen seconds and leaders
to the status of each row, and `StatusInv` to that of the remate. `CreateInv` keeps the row of
a pending creation for its request. There is one lemma per action; `StepInv` puts them
together, and the two action properties follow from `TaskCommits` and `RowWrites`. The only
assumption is `TimedAssumption`.

`SalaProofs` proves, for every set of lotes and every plan:

| Theorem | Property |
|---|---|
| `PageLeavesNothing` | `LeavesNothingBehind`, which no run checks |
| `AnnouncementsStand` | `AnnouncedBidStands` |

The first is inductive with `JoinsByAnOpen`: a join is owed on an open connection only. The second needs `BidInv`: every client token, wherever
it is held (the buyer's rows, the bids in flight, the form), names one amount (`OneAmount`),
no token exceeds the last one drawn, and an answer "accepted" on its way has its row
(`AnswersStand`). A row is never removed nor rejected afterwards (`RowsKept`), so an
announcement that was true stays true. It assumes nothing of the order or loss of messages.

`SalaViewProofs` proves, for the same constants:

| Theorem | Property |
|---|---|
| `CompleteViewsAreCurrent` | `CompleteViewIsCurrent` |
| `CompleteListsAreCurrent` | `CompleteListIsCurrent` |
| `LeadersAreNotTaunted` | `LeaderIsNotTaunted` |
| `NobodyOutbidsHimself` | `OutbidsHimselfOnPurpose` |
| `WinnersAreCongratulated` | `WinnerIsCongratulated` |

The first two say that the page converges, and the proof replays no history. Each part of the
state (the status, which lote is open, its countdown, the leader) is what the *last* event about
it says. So a copy taken at commit k is right about a part unless an event about that part, later
than k, is still on its way, provided that none of the events after k was lost. That is said of
every copy there is (`RawOK`, `StatusOK`, `LoteOK`, `ListOK` in `Known`: the cache, the parts of a
snapshot under construction, a lote that waits for its leader to be read, the HTTP answers, the messages of the socket, the page's view and
list) and of the events themselves (`True`: what an event says still holds unless a later one
speaks of it). A commit announces what it changes (`Announced`), so nothing known becomes wrong
(`Carries`); a copy that takes its next event, or repeats an older one, is as old as that event
(`Past`, `RawTaken`, `ListTaken`); a snapshot made of two readings is as old as the older
(`BuiltKnown`). A copy as old as the last commit waits for nothing, which is the property. The
exception of the first, a leader of a former round, is where the reducer clears what the server
keeps.

`FormInv` carries the next two. Every offer a copy points at is a row that was placed
(`Pointed`); a leader has the greatest amount of those placed on its lote (`Ladder`); what an
untouched form asks is one more than the offer it was shown, which is not the buyer's (`Asks`);
and "Te superaron" is never on a form whose screen shows the buyer leading (`Overtaken`). An
untouched bid that is accepted is above the leader, so the offer it was shown is at least as high
as the leader; on the same lote that is the leader itself, which is then not the buyer's.
The last needs `SaleInv`: the last event about the leader before a sale, and every copy that
still shows the lote and waits for no such event, name who bought (`SaleTrue`, `SaleOf`). A sale
does not change any more (`Settled`), and what is announced later does not come between
(`Fresh`). A lote that was read before a sale and waits for its leader is older than the sale
(`FoundBefore`). The assumption is `PlansAssumption`.

`AfterSaleProofs` proves, for every set of buyers, replicas, requests and plans:

| Theorem | Property |
|---|---|
| `DocumentsAlwaysHaveFiles` | `DocumentsHaveFiles` |
| `OwnChangesAlwaysShow` | `OwnChangesShow` |
| `CasesGoBackOnlyByOverlap` | `GoesBackOnlyByOverlap` |

They rest on `PostInv` (`PostInvariant`), which ties the requests on a case to the case. A
document that was ever in a case (`Known`) is in no other case and no upload is about to add
it again, so that removing a file after the commit of its deletion removes nobody's file. What
a change of status read is the case, or an older version of it (`ReadInv`), which is what
makes a move back the mark of an overlap. No load of the page is younger than its last token,
and the data a last load has read is not older than what the page was told (`DeskInv`). The
assumption is `PlansAssumption`.

`GarantiaProofs` proves, for the same constants:

| Theorem | Property |
|---|---|
| `ChargesAreAlwaysForCases` | `ChargesAreForCases` |
| `RowsAlwaysTell` | `RowTellsThePayment` |
| `WinnersAreNotReleased` | `WinnerIsNotReleased` |
| `TokenAlwaysMatchesCard` | `TokenMatchesCard` |

The first counts. `Told(b)` are the replicas that may still take a payment of `b`: the
announcement of his case waits in their queue, or they are asking Mercado Pago. Payments taken
and replicas told are together never more than the replicas (`Counted`): a capture moves one
from the second to the first, and a crash, a lost event, a refusal or an answer that never came
only takes away. What starts the count is one announcement: the case is inserted once
(`OneOpens`, which needs of `PostInv` that a case never disappears), its inserter alone announces
it, and until then nobody has been told (`Unannounced`). `ToldOnce` says that no replica has the
same case twice in its queue, nor while it captures. Nothing is assumed of the rows, so it holds
however tasks overlap.

The second rests on `RowInv`, which speaks of a buyer for as long as nothing failed and no task
wrote his row while another worked on it (`Alone`). Then every task that works on the row has read
what the row still says (`Current`, `Reads`): if it had been written since, the writer would have
found this task at work. A task also knows what it did to the payment itself (`Own`: the request
the number and the answer of the one it made, a replica that the one it read is settled). The row
stands for the state of its payment (`Stands`), or a replica has settled the payment and is about
to write the row (`RowFits`). Payments move on their own too, but never back (`Evolves`), and no
move leaves what the row may say (`FitStays`). A save turns what a task knows into what the row
says (`RowSaves`). It needs `ChargeTypes` of the first.

`WinInv` carries the third, for the deposit a buyer started with, while it is his only payment.
Every task that works on it knows it by its number (`KnowsOne`), so whatever answers is about that
payment. While Mercado Pago holds it, nobody but the scheduler has anything to write on its row
(`KnowsHeld`): the row is ACTIVE or EXPIRED. And once the case is announced, each replica is kept from
releasing (`Prevents`): it has the case in its queue, or is capturing, or it found the row expired
when it handled the case, and then an end handled later does not list the row either. The list of
a release that began before the announcement is a matter of the event still in the queue, which
is the exception of the property. It rests on `RowInv` for the shape of tasks only: rows may
overlap.

The fourth, `CardInv`, says that the method a form knows is that of the
number it shows, and that a token nobody edited was asked for that number; what is in flight of
a form that is gone is in it too. The assumptions are `TasksAssumption` (finitely many
replicas, which are no requests), `MountsAssumption` and `PlansAssumption`.

`PreparacionProofs` proves, for every set of tabs, requests and plans:

| Theorem | Property |
|---|---|
| `SingleFlight` | `NeverCompetesWithItself` |
| `NoSpareKey` | `OneTabOneSession` |
| `TiesNeedAnOverlap` | `TiesOnlyByOverlap` |
| `ListAlwaysShows` | `ListShowsTheCatalogue` |
| `NoPhotoIsEverLost` | `NoPhotoIsLost` |
| `TypeCorrect` | `TypeOK`, which no run checks |

`SessionInv` carries the first. `SentOnce` says that a pair a tab has sent to be exchanged is
still in its store only while that exchange lasts, which is what the shared promise is for.
What could break it is a pair that comes back, and `NewPairs` excludes it: a pair on its way to
a tab is known to no tab, is in no localStorage, and is brought by one answer only.
`RotationInv` adds what carries the second, for as long as nothing was mixed (no login or logout
met an exchange in flight, one tab worked at the start, nothing was lost); the steps that mix never
take it back. `LiveIsAccounted` says where every refresh token the server accepts is: in the store
of a tab whose exchange has not spent it, in an answer of an exchange or of a login, or in a
logout on its way -- and that what is there is accepted. It needs `OneOfATab` (a tab has one
exchange at most and still holds the pair it sent, so none is refused; who logs in holds none) and
`PairsApart` (no pair is in two hands, so serving a logout or a revocation takes away one). At rest
only the stores are left of it.
`CatalogoInv` carries the third. Without an overlap, what a request has read of the places is
still true when it commits (`StillTrue`, part of `OrdersInv`): the greatest place for a create,
each place for a reorder, which then writes the numbers of a permutation. Deletions only remove
places. `CallsOK` says which questions and readings go together.

`ListInv` carries the fourth: for as long as the list was not overtaken, it says what every request
in flight will bring to it. A list that is shown is right, or a load of it is owed -- the server
has done what the page asked for and the page, when it hears of it, will load the list (`WillLoad`,
which covers the photos of a new lote, loaded whatever becomes of them) -- or a reorder is in
flight, and then `OrderStands`: the order shown is the one asked for, and either it is right by now
or the one it replaced still is. The answer of a load is right, or a load is owed; that of an
earlier load is stale, since loads are numbered (`PanelInv`). Requests are followed by what they
leave (`Stays`). Two steps need more. A move relies on the list being right when nothing else is in
flight, and nothing of the panel is, since a panel that waits is not closed (`PanelInv`). And the
commit of a reorder makes the order shown the listing: the identifiers are as many as the live
lotes and all of them, hence a permutation of them, and lotes with the places 0 to n - 1 are listed
in that order (`ListingOfSorted`).

`PhotosInv` carries the fifth. The photos of a lote that nobody removed (`Kept`) are in every list
of photos that may yet be saved or shown: for each lote that was not `clashed`, the saves on their
way that the server has not done bring them, from a gallery that remembers them (`SaveKeeps`), and
so do the rows a refused reorder would bring back (`OrderKeeps`), the list and its loads
(`ListKeeps`) and the panel and the `imagesRef` of its gallery (`GalleryKeeps`). A save the
server has done is the exception that makes it inductive: what it wrote is ahead of rows, loads and
panel until its answer arrives (`None`), and `imagesRef` is then the list it carries. A refused save
puts back the photos it was made over, which is why those (`kept`) must hold the others too.
`BirthKeeps` says that a lote that is being created has no photos yet and that nobody else saves
them. All this stands on one save at a time per lote, made by the gallery that shows it (`Alone`);
a lote for which it fails once is in `clashed` for good. Most steps only let a slot
pass (`Quietly`) or move one; the lemmas `PassCalls`, `PassBirths`, `PassList`, `PassGallery` and
`PassFits` say what a step must show for the part it touches, and there is one lemma per action.
The step itself is then short: the only action that replaces the photos of a lote is the service of
a save, whose list holds the kept ones (`SavesBringPhotos`).

The assumptions are `PageAssumption` and `PlansAssumption`: a plan starts with a number of lotes
and of photos and with some tabs, finitely many, that work with the session that was issued.

Assumptions of `RemateLive`: `ProcsAssumption` and `DataAssumption` of `RemateLive` (the scheduler is not a
handler, the sentinels are not values, prices and increments are positive, the rest are
naturals). TLC evaluates them in every run.

The argument. `OneLeader` or `SoldAtLeastBase` are not inductive: a bid relies on its reading
of the leader, a close on its reading of the base price. What carries them is

    LockInv == TypeOK /\ Holders /\ LockedReadsAreCurrent

where `Holders` says that a transaction in phase "locked" holds its lote's row, for one of
the kinds of request that lock. With it the reading of a deciding transaction *is*
the committed row, except that unlocked writers run meanwhile; the heart of the proof is that
each of those waits for the row (`Writable`), so it cannot commit between the lock and
the decision. The other safety properties are then invariants relative to `LockInv`.
`SaleIsTheLeader` needs that no bid is accepted unless the lote it read, which is the
committed one, is OPEN. `ClockHonoursExtensions` uses `ClockInv`: the scheduler is idle or
serves an automatic close, no reading is from the future, and a committed deadline is never
before the last extension that nobody has overridden.

`RemateLiveRefinement` proves `BookIsKept`, that is `KeepsItsBook`: every behaviour of
`RemateLive` is one of `LoteBook`, lote by lote. There is one lemma per kind of commit, which
shows the step of the book it is (`Starts`, `Raises`, `SellsByHand`, `SellsByClock`, `Withdraws`)
or that the book does not notice (`Stutter`), as when `open_next` commits over a lote that is
already OPEN. It rests on `LockInv`, because what a bid or a close writes was computed from its
reading, and on `PricesPositive`: the book writes 0 for "no offer" and "no price", so no
committed amount may be 0.

Only model-checked: liveness and everything that speaks of ENABLED (out of reach of the prover).
Every other property of a passing run has its theorem.
The four violated properties are not theorems, of course.

## 6. Plan

Done: the core (`RemateLive`, `TimedRemate`), the room (`Sala`), what follows a sale
(`AfterSale`), the session and the preparation of a catalogue (`Preparacion`). What is left, in
this order:

1. The assignment of an operator by code, against its regeneration and a second claim.
2. Moderation in `Sala`: a kick between the check of a ban and the join.
3. The wizard that creates a remate and its guard against leaving with changes; the operator
   console over `RemateLive`.
4. Bots: the runs in memory against their rows.

## 7. What is not modelled, and why

Read-only services (analytics, history, monitoring), rows appended without a decision (audit,
notifications), best-effort output (email, WhatsApp), single-row edits (users), infrastructure
(settings, object storage, logging), and the presentation layer: they change no state that
the properties above speak of. Chat appends messages behind a counter. Bots bid through
`place_bid`, whose bidders are arbitrary in `RemateLive`. Moderation and operator codes are in
the plan. Most of the frontend's lines are pages that read, filter and draw, exports, previews
and the landing page: they have no state that outlives a render, which is why the definitions
of these modules stand for a small part of the repository's lines. Performance, SQL plans and
the behaviour of Redis and PostgreSQL themselves are taken from how the services use them.
