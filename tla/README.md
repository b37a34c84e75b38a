# PetroSync in TLA+

PetroSync plans and tracks fuel deliveries: a refinery facility's depot is
asked for fuel by delivery orders, a driver carries each order out as a trip,
and the volumes are followed from the depot's storage tanks to a station's. It is
a Go API server (`cmd/api`), a cron worker (`cmd/worker`), PostgreSQL, Valkey,
an object store for photos and a Telegram bot. These modules model what decides
about fuel, about who may do what, and about who is told, statement by statement,
check it with TLC on small instances and prove the main invariants with TLAPS for
all of them.

## Inventory

| Component | State | Operations | What makes it correct |
| --- | --- | --- | --- |
| **Delivery workflow** `service/workflow.go` | `delivery_orders`, `delivery_order_items`, `facility_storage_tanks`, `station_tanks`, `trips`, `trip_events`, `trip_compartment_deliveries` | approve, cancel, record an event; one transaction each | no tank overcommitted; reservations are what the waiting orders asked for; stock follows the recorded events; order and trip agree; gates hold |
| **Order and trip handlers** `handler/delivery_order.go`, `handler/trip.go`, `handler/dashboard_workflows.go` | the same rows | create, add items, assign, weight bridge entry and approval; start a notification goroutine | single statements whose WHERE clause is the guard |
| **Trip photos** `service/trip_photo.go`, `garage_storage.go` | `trip_photos`, objects | store the object, insert the row | what a gate has seen is still there when it matters |
| **Weight bridge escalation** `service/weight_bridge_escalation.go` | `weight_bridge_readings.approval_status`, `escalated_to` | every 30 minutes: escalate, then notify the administrators | every overdue reading is escalated, only what was escalated is announced, by one pass |
| **Role grants** `handler/user_management.go`, `sql/queries/user_role_grants.sql` | `user_role_grants`, `users.active` | grant, revoke, activate | what one statement stores the others find |
| **Notifications** `service/notification*.go` | `notification_log` | send, then log; duplicate check over the last 20 rows | a notice is true, and repeated only after others |
| **Expiry jobs** `service/worker_jobs.go`, `cmd/worker` | the same | daily passes over drivers and vehicles | everyone is tried in the end |
| **Route deviations** `service/route_deviation_monitor.go`, `worker_jobs.go` | `route_deviation_events` | every minute: open, resolve, alert | a trip has no more open deviations than passes that overlap; every one that lasts is alerted; what is marked as told was sent |
| **Sessions and passwords** `service/auth.go`, `valkey.go`, `handler/user.go`, `dashboard.go` | password hashes and `force_password_change`; refresh tokens and dashboard sessions in Valkey | login, refresh, logout, change and reset a password | a login keeps one live refresh token, a temporary password demands a change, a session is not older than its lifetime |
| **Authorisation cache** `middleware/auth.go`, `handler/user_management.go` | grants and active flags; copies in Valkey with a lifetime of 5 minutes | fill on a miss, clear on a change | no answer is older than a lifetime and the longest request |
| **Telegram linking** `service/telegram_link.go`, `bot/telegram.go` | link tokens, `users.telegram_user_id`, each poller's offset | create, use, clean up a token; poll | one user per account, one link per token, every command handled |
| **GPS ingest** `handler/gps.go` | `gps_events` | check, insert and publish the points of a batch | the phone drops only what is stored; every point is stored, and once |
| **Live map** `ws/hub.go`, `ws/valkey_bridge.go`, `static/js/map.js` | sockets of the hub, markers of the pages | register, broadcast, remove; load, connect, draw | markers are true, positions arrive, dead sockets go |
| **Dashboard pages** `handler/dashboard*.go`, `middleware/rbac.go` | the session's roles | navigation, lists, landing pages, access checks | what is shown opens, and the API agrees, but for the cases named below |
| **Audit log, notices of handlers** `auditlog/`, `middleware/audit.go`, `handler/trip.go` | `audit_log`, goroutines | after the response, on goroutines | rows and notices are of answers whose deciding statements changed their rows |
| **Master data**, configuration, generated queries | depots, stations, vehicles, drivers, users | plain reads and inserts | schema constraints |

The components share nothing in memory: they meet in PostgreSQL rows (API
requests, dashboard pages and the worker alike), and in Valkey keys and
pub/sub. The hard behaviour is what two requests do between each other's
statements. Every `WorkflowService` call runs in a READ COMMITTED transaction,
in which a SELECT takes no lock and may be out of date one statement later, and
an UPDATE waits for its row, then applies its WHERE clause to the version it
finds. The other sources of trouble are mobile clients that resend what was not
answered, jobs that overlap or stop half-way, notices sent before or after the
row that records them, and caches filled while they are being cleared.
`PROJECT.json` lists each such place with its line under `hazards`, with the
properties that watch it or a note why none does.

## Modules

* **`DeliveryWorkflow`**: orders, trips, tanks and the transactions on them, and
  the safety and liveness properties that need no sums. **`DeliveryAccounts`**
  extends it with what tanks, events and orders add up to, **`DeliveryDiscipline`**
  with callers that follow the documented order of steps and what they get in return.
* **`BoundedStaleness`**: an abstract promise. Facts change, and readers are told
  facts that were true at some moment not longer than `Delay` ago.
  **`AuthCache`** (the middlewares' cache) and **`Sessions`** (logins, dashboard
  sessions, refresh tokens, passwords) both implement it.
* **`DashboardPages`**: who may open, and is shown, which page, against the API's
  middleware.
* **`RoleGrants`** (the table and its readers) and **`Notifier`** (one
  `NotificationService.Send`: which outcomes, which row, which error) are shared:
  **`Escalation`** extends both, **`ExpiryNotices`** and **`RouteDeviation`** use
  `Notifier`.
* **`TelegramLink`**: tokens, two pollers, the linking transaction.
* **`MobileSync`** (the phone and the batches) and **`LiveMap`** (the feed, the hub
  and the pages): the two halves of a position's way. `LiveMap` lets points be
  stored in any order and number, so that it assumes nothing of the phone.
* **`AfterResponse`**: what a handler leaves to goroutines: the audit row, the
  notices; with failing statements, crashes and shutdowns.
* **`Access`**, **`Worker`**, **`Positions`**: components side by side. Each extends
  one component (`Sessions`, `RouteDeviation`, `LiveMap`), instances the others
  (`AuthCache` and `DashboardPages`; `ExpiryNotices` and `Escalation`; `MobileSync`),
  and its specification is the conjunction of theirs.
* **`MCDeliveryWorkflow`**, **`MCWorker`**, **`MCPositions`**, **`MCAccess`**,
  **`MCTelegramLink`**, **`MCAfterResponse`**: the instances TLC checks.
* **`DeliveryWorkflowProofs`**, **`DeliveryAccountsProofs`** (the sums and the
  discipline), **`SessionsProofs`**, **`AccessProofs`**, **`WorkerProofs`**,
  **`PositionsProofs`**, **`TelegramLinkProofs`**, **`AfterResponseProofs`**: the
  theorems. The proofs about `AuthCache` and `DashboardPages` are in
  `AccessProofs`, those about `ExpiryNotices` and `Escalation` in `WorkerProofs`,
  those about `MobileSync` in `PositionsProofs`.

`Worker`, `Positions` and `Access` put several components side by side, each with
its own variables. In their runs a behaviour follows one component, chosen by a
variable that never changes, and leaves the others in an initial state. That loses
nothing, because none of these components writes what another one reads: where they meet,
each module lets the outside act freely (other notices come into the log, tables
change, points arrive in any order).

Operators under a comment "Slip: ..." are not part of the model: each is a
plausible mistake in the definition after it, under which the property named in
`PROJECT.json` fails.

### The delivery workflow and the code

`doStatus`, `items`, `tripStatus`, `photos`, `reading`, `variance`, `delivery`
and `events` are columns or tables as committed. `trips.do_id` is UNIQUE, so a
trip has its order's name. A tank row has three parts: `tank` is its committed
version, `dirty` the version its lock holder has written, `holder` who holds the
lock. `tx` holds the requests being served: which call, how far, and what it has
read and not written yet.

| Code | Actions |
| --- | --- |
| `ApproveDeliveryOrder` | `ApproveDeliveryOrder` (the guarded UPDATE, and the items it will reserve), a `ReserveStorageTankVolume` per item, `CommitApprove` |
| `CancelDeliveryOrder` | `CancelDeliveryOrder` (the unlocked read), `CancelUpdate` (the guarded UPDATE), a `ReleaseStorageTankReservation` per item, `CommitCancel`; `FailCancel` when the status no longer allows it |
| `RecordTripEvent`, loading | `RecordLoadingCompleted` (insert and gates), `UpdateStatuses`, a `DeductStorageTankVolume` per fuel, `CommitLoading` |
| `RecordTripEvent`, delivery | `RecordDeliveryCompleted` (insert and gate), a `FillTank` per fuel at a station, `JudgeCompartments`, `UpdateStatuses`, a `FillTank` per fuel on a return trip, `CommitDelivery` |
| `RecordTripEvent`, any other type | `RecordOtherEvent` |
| `Store.ExecTx` | `Commit`, `Rollback`; `FailUpdate`, `DeadlockAbort` and `Disconnect` say when |
| handlers and the escalation job | `CreateDeliveryOrder`, `CreateItem`, `AssignVehicleAndDriver`, `UploadTripPhoto`, `CreateWeightBridge`, `ApproveWeightBridge`, `EscalateWeightBridgeReading` |
| not in the repository | `SubmitForApproval`, `CreateTrip`, `MeasureCompartment`: the queries exist, no code calls them, and the modelled code reads what they write |

What is simplified, and why it may be:

* The order's and the trip's row are locked by the same transactions, in the
  same breath; one lock, `OrderFree`, stands for both, and their new values
  appear at the commit, as other transactions see them. The same goes for the
  inserted event and the compartments' statuses.
* An approval's UPDATE is its first statement that depends on anything
  changeable, so it is the action that starts the transaction. A failed gate
  rolls back an event that nobody saw: the request changes nothing and is not
  modelled as a step.
* An INSERT whose `event_uuid` is in an uncommitted row waits for it. In the
  model the request begins once it need not wait; before that it holds nothing.
* A request's tank rows may be locked in any order. The code takes the order in
  which its query returns the lines, which no ORDER BY fixes.
* `LineVolume` is positive, and a trip's loaded and delivered totals are fixed
  from the start; a volume corrected later changes its variance
  (`MeasureCompartment`) and nothing else. The totals are grouped by fuel, and
  `NumericIsZero` skips empty ones.
* A COMPARTMENT_SEALED photo names a compartment of the trip or (`"SEALED"`)
  some other; the compartments that must have one are taken to be those that are
  delivered.
* A compartment's variance is known only as null, within or beyond the
  tolerance.
* Each line's pool says which tanks its lookup may find. Any of them may be
  found at each lookup: the query is `:one` without ORDER BY.
* Rejecting a reading, the RECONCILED and CLOSED order statuses and the trip
  statuses between LOADED and DELIVERED are written by no code, and do not occur.

### The other modules and the code

| Module | State | Actions |
| --- | --- | --- |
| `AuthCache` | `table`: the active flag and the grants of each user; `cache`: Valkey with expiry; `request`: what each request has read | `Hit`, `Miss` (lookup), `GetUser` and `GetActiveRolesForUser` (read), `Fill`; an administrator's change and the deletion of the key, which may be lost; `Evict`, `Tick` |
| `Sessions` | `account`, `sessions`, `tokens`; `job`: a request between two calls; of history, `chain`: the login a token goes back to, `kept`: the tokens whose deletion failed or found nothing | each call of `Login`, `Refresh`, `Logout`, `ChangePassword` and `ResetPassword` on PostgreSQL or Valkey; `Fail` ends a request after any of them |
| `DashboardPages` | the session's grants in the order the query returned them; stations, depots, orders | `LoginDashboard` after each change of grants, `Logout`; the rest are operators, one per function of the handlers; `Links` is the links of each template, the trail of `topbar.html` included |
| `Escalation` | readings, their `escalated_to`, passes, rows of the log | `ReadAdmins`, `ReadOverdue`, `EscalateWeightBridgeReading`, `Notify`, `NextReading`, `Finish` of each pass, `Break`; entries, approvals and ageing in between |
| `ExpiryNotices` | the newest rows of each user, the recipient each job is at | `Start`, `Skip`, `Notify`, `QueryFails`, `Crash`; linking and other notices in between |
| `RouteDeviation` | deviations, what each pass has read | the monitor's and the alerts' queries one by one, `TellManager` per manager, `Break`; any number of passes side by side |
| `TelegramLink` | updates, the pollers' offsets, tokens, accounts | `GetUpdates`, `Handle`, the four statements of `LinkByToken`, `Commit`, `Rollback`, `Restart`; rows are locked from the UPDATE to the end |
| `MobileSync` | what the phone keeps, the requests under way, what is stored | `SendBatch`; per point `Repeated`, `CheckPoint`, `InsertGPSEvent` or `InsertFails`, `Publish`; `Respond`, `Abandon`; the same for trip events |
| `LiveMap` | the channel, the broadcast under way, sockets, buffers, pages | `BroadcastText` (takes the read lock), `WriteMessage` per socket, `Register` and `Remove` (take the write lock), `Load`, `Connect`, `OnMessage`, breaks and reconnects |
| `AfterResponse` | handlers, the audit row and the goroutine of each request, the process | `Begin`, `Statement`, `MatchesNothing`, `StatementFails`, `Succeed`, `Return`; `InsertAuditLog`; `StartNotice`, `Tell`, `InsertNotification`; `Crash`, `Shutdown`, `MainReturns`, `Start` |

What is simplified:

* `Notifier` chooses the outcome: a lost answer of Telegram is an error although
  the message was shown; an insert's error replaces the sender's.
* Time is a clock of small numbers in `AuthCache` and `Sessions`, and elsewhere
  the passage of a limit (`Age`, `Last`, `Expire`). `Span` bounds how long a request
  may take between its read and its fill: nothing in the code bounds it but the
  server's timeouts, and without any bound a fill could be arbitrarily late.
* `ExpiryNotices` keeps one row more than the duplicate check reads, so that it can
  say how far apart repeats are. The check reads 20 rows; the run has it read 2.
* In `LiveMap` positions are numbers, a socket's buffers hold `Buffer` messages, and
  a page that is asleep takes none from them.
* In `AfterResponse` `c.Request` may be read after gin has recycled the context:
  the goroutine then has any request that is being handled.

## What the runs check

| Run | Instance | Shows |
| --- | --- | --- |
| `orders` | two orders from one depot, one to a station, one back to a second depot; a tank each; one item, one loaded and one delivered total per order; two requests, two event identifiers | `TypeOK`; `NoOvercommit`; `TripMatchesOrder`; `StockMatchesEvents`: whatever interleaves, fails or is repeated, tanks stay sound and hold what the recorded events left in them |
| `delivery` | one trip, two compartments, photos uploaded per step, two requests, two identifiers | `DisputeNamesCompartment`, `OneEventPerUuid`, `MovesHavePhotos` across corrections and repeated deliveries |
| `disciplined` | two orders on one tank that is too small for both, three items, one reading; callers that follow the documented steps | `ReservationsMatchOrders`, `ReservedFuelIsThere`, `OrderFollowsLifecycle` |
| `locks` | two submitted orders with an item in each of two tanks | `EveryRequestEnds` although each request locks both tanks in its own order |
| `jobs` | expiry: two users, three notices, a window of 2; escalation: two passes that overlap, two readings, one administrator; deviations: one trip with two managers that leaves its route twice, two passes of which one may begin while the other is under way; one fault each | `RepeatsAreFarApart`, `NoticesAreOfEscalations`, `DeviationsStayFew`, `AlertedMeansSent`; in the end `EveryoneTried`, `OverdueIsEscalated`, `SustainedIsAlerted` |
| `positions` | a phone with three points, one of them without a partition, in three batches that overlap and repeat, two requests; a trip, a map of the company and one of another facility that may fall asleep, two sockets, two points; one fault each | `KeptUntilStored`, `StoredOnce`, `MarkersAreTrue`; in the end `UploadsArrive`, `PublishedIsShown`, `DeadSocketsAreRemoved` |
| `access` | cache: one user, two requests, two changes, a clock to 2, a lifetime of 1; logins: a clock to 4, a lifetime of 2, one change, one job at a time; passwords: two jobs, two temporary passwords; tokens: two jobs, three refresh tokens; pages: all sets of up to three of nine grants over two facilities and every small network | `AnswersAreFresh` and `SessionsAreFresh` (both refine `BoundedStaleness`), `TemporaryDemandsChange`, `OneTokenPerLogin`, `ShownOpens`, `ApiAgrees`, `GrantsOnlyOpenItems` |
| `linking` | two users, two accounts, two tokens, two pollers, two updates, one fault | `OneUserPerAccount`, `TokensLinkOnce`; in the end `CommandsAreHandled` |
| `after_response` | a dashboard approval with two recipients, a reset over the API whose second statement's error is dropped, a revocation over the API that may match no row; three faults | `AuditRowsAreOfChanges`, `NoticesAreOfChanges`; in the end `ApiChangesAreAudited` unless something fails |

The type invariants are checked in `orders` (`TypeOK`), `jobs`, `positions` and
`access` (`TypesOK`, the conjunction of the components'), and proved for all modules.

The discipline is three rules: items are added to drafts, one request per order at
a time, each event in the step it belongs to with the volume that was ordered. The
code enforces none of them. Three runs show a behaviour of the code that contradicts
what the repository says about it:

| Run | Violated | The behaviour |
| --- | --- | --- |
| `stale_cancel` | `CancelReleases` | A cancellation reads PENDING_APPROVAL, an approval commits, the cancellation's UPDATE succeeds and releases nothing. `SKILL.md:631` promises the release. |
| `two_tanks` | `LoadingClears` | Under full discipline, a loading deducts from a tank other than the one that was reserved; the reservation is never cleared. |
| `revocation_late` | `RevocationWithinLifetime` | A request reads the grants, a revocation deletes the key, the request stores what it read: the role is used longer than the five minutes of `SKILL.md:548`. `AnswersAreFresh` says how much longer: by the longest request. |

### Other departures from the documents

Met while the modules were written, all of them behaviours of the model, and not
kept as runs:

* Two cancellations that read APPROVED both release (`delivery_orders.sql:112`
  does not exclude CANCELLED), a DISPUTED order can be cancelled (`SKILL.md:564`
  allows it only before IN_PROGRESS), and a delivery event completes a trip that was
  never loaded (`SKILL.md:1141`). `DeliveryDiscipline` excludes these.
* A reading entered between the gate (`workflow.go:165`) and the commit is PENDING
  when the trip becomes LOADED, against `SKILL.md:609`. The interleaving is in
  `disciplined`, and no property claims the contrary.
* A login between the two statements of a password reset
  (`user_management.go:561`) gets a session that need not change the temporary
  password; the password form brings back a session that was logged out meanwhile
  (`dashboard.go:422`); and a forced change accepts the old password
  (`auth.go:222`).
* The error of the deletion in a refresh is dropped (`auth.go:165`), and a token is
  read and deleted in two calls: an exchanged token whose deletion failed stays
  live, two refreshes may exchange one token, and a refresh that read its token
  before a logout deleted it leaves the new one live. `OneTokenPerLogin` names these
  as its exceptions, and says that nothing else gives a login a second live token.
* Three requests are answered with success and audited although nothing, or half,
  was changed: `ResetPassword` drops the error of its second statement
  (`user_management.go:561`), `RevokeRole` does not see that it matched no row
  (`user_management.go:461`), `Logout` drops the error of the deletion
  (`user.go:120`). `AuditRowsAreOfChanges` therefore speaks of the statements that
  decide the answer only.
* `RevokeRole` looks for scope id 0 where the seed has NULL
  (`user_management.go:461`), and answers success; the escalation asks for
  administrators with scope id NULL (`weight_bridge_escalation.go:49`), which none
  made through the API has. In `jobs` the administrator is one entered by hand.
* Without a bot token the worker's sender is a nil client in an interface that is
  not nil (`cmd/worker/main.go:54`): every send panics before its row. `Notifier`
  has this sender; the runs use the bot.
* A reading is escalated before its notice is sent, and never looked at again
  (`weight_bridge_escalation.go:65`); of a deviation, the managers already told are
  told again when a later one fails (`notification_coordinator.go:333`); a manager
  who can never be sent to keeps the later deviations from being alerted; overlapping
  deviation passes open a deviation each, and may give two the same number
  (`route_deviation_monitor.go:48` and `59`; cron starts a pass every minute without
  waiting for the last one, `cmd/worker/main.go:35`); deviations of ended trips are
  alerted (`route_deviation_events.sql:81`).
* A comment on the numbers of deviations says "1 = log, 2 = warn, >2 = Telegram
  alert" (`route_deviation_events.sql:22`). The query and `SKILL.md:673` alert by
  duration, whatever the number, and so does `SustainedIsAlerted`.
* Two link tokens of one user used at once replace each other's account
  (`telegram_link.go:72`).
* Overlapping batches store a point twice (`gps.go:80`; `StoredOnce` leaves out
  exactly these points), a batch is not one transaction (`gps.go:99`,
  `SKILL.md:392`), and a resent event is answered 500 (`trip.go:144`,
  `SKILL.md:419`).
* A page that sleeps for ever stops all maps (`hub.go:70`: no deadline,
  `SKILL.md:817`), which `PublishedIsShown` excludes by its condition; coordinates
  that are not exact in binary are left out of a page's first load
  (`helpers.go:51`).
* Users with several grants are shown navigation entries that are refused to them
  (`dashboard_workflows.go:1230`), and an administrator with a facility role is
  redirected past the list of facilities (`dashboard_workflows.go:206`).
* A login with DRIVER alone lands on Home and is shown the company's overview, where
  the links to the facilities are refused; `SKILL.md:499` and `546` keep drivers off
  the dashboard. The order link of a trip's page (`trip_detail.html:18`) is refused
  to a STATION_MANAGER, trip links of a vehicle's or a station's page to whoever
  serves neither end, and the way back to the stations or trips to depot staff who
  came by another grant. `KnownRefusal` lists these, `LinksOpen` allows no others.
* A REFINERY_ADMIN opens the page of every facility (`dashboard.go:734`), where
  `SKILL.md:545` and the API give the own refinery; a facility's staff open the
  stations it serves without being primary, which the API refuses; and the API
  gives depot staff lists of stations and trips that the dashboard refuses.
  `ApiAgrees` names the three, and states that page and API are otherwise equal.
* Dashboard changes are not audited (`cmd/api/main.go:115`), nor is an update
  whose second statement failed (`user_management.go:284`); notices sent with the
  request's context are usually cancelled (`trip.go:152`), possibly between the
  message and its row; `main` returns while handlers are still running
  (`cmd/api/main.go:258`).

### What the properties leave to others

A property that holds under a condition, or allows for exceptions, does not catch
what it excludes; the hazards of `PROJECT.json` say so at their lines.

* Under the discipline, `OrderFollowsLifecycle` and `ReservationsMatchOrders` cannot
  see double cancellations or repeated events, nor, with a tank per pool,
  `ReservedFuelIsThere` a tank that was not the reserved one; `stale_cancel` and
  `two_tanks` show what happens then.
* `MovesHavePhotos` is a gate that needs no lock: photos are never removed.
* `StoredOnce` leaves out the points that overlapping batches put at risk, and
  checks what one request does with repeats. `MarkersAreTrue` accepts any stored
  point of the trip: an older position drawn over a newer one is not caught.
  `DeadSocketsAreRemoved` is checked with two points, not a stream of broadcasts.
* `TemporaryDemandsChange` does not count a dropped error of the flag's
  statement, nor the moment between the two statements.
* `NoticesAreOfChanges` says that no notice is false. That each is sent is not
  claimed: most are lost with the request's context.
* `ApiAgrees` compares the pages and lists of facilities, stations, vehicles and
  trips; routes the API guards by rank alone, the links of the users' pages and a
  driver's own trips are not compared.

### Bounds, deadlock and fairness

**Bounds.** Nothing in the model grows: rows are sets, an event needs an unused
identifier, and volumes are bounded by capacities. Two requests are the
least that interleave, and all hazards listed are between two. Two orders are
the least that compete for a tank, two event identifiers allow a repeated
report, two compartments let one be disputed and the other not, two tanks let
lock orders cross. `orders` gives the depot 3 and the orders 1 and 2, so that
both fit once and a repeated loading does not; `disciplined` gives the depot
2 and the orders 2 and 1, so that one excludes the other. Photos are uploaded in batches
(`PhotoBatch`), all at once where no property depends on them. `locks` starts
with the orders submitted, a state that creating and submitting them reaches.
Requests and event identifiers are symmetric, and the symmetry is not used
where liveness is checked.

In `jobs`, two passes are the least that overlap, and two of a job's
recipients or readings, or a trip's two deviations, the least that keep each other
waiting; a window of 2 lets the third notice push out the first. Deviation passes
overlap once (`MaxOverlaps`), for any part of their way; the theorems have neither
bound. In `positions` the batches are such
that a point comes twice in one, in two at once, and beside one that cannot be
stored; two sockets are the least of which one can block or outlive the other. In
`access` a clock of two ticks is the least in which a copy can outlive a lifetime
and a span of one each, and four ticks one more than a session's lifetime of two and
a span; one user suffices because no action of the cache or of a login reads another
user's rows, and three grants are one more than any rule compares; three refresh tokens are a
login's, its exchange's, and another's. Requests and jobs
are symmetric there. In `linking` and `after_response` each kind of actor
occurs once or twice. Faults are bounded by `MaxFaults`, clocks by `MaxTime`;
`after_response` has three, enough for a dropped error, a failed send and a crash in
one behaviour.

**Deadlock** is checked in the delivery runs, `jobs` and `linking`: some request,
job or poll can always start, or a poller's last command is done and the cleanup
runs. It is not checked in `positions`, where a phone that has sent everything and
maps that have shown everything stop; in `access`, where the clocks stop at
`MaxTime`; in `revocation_late` for the same reason; and in `after_response`, where
every request is answered in the end.

**Fairness.**

* `DeliveryWorkflow`: `FairSpec` (and `SubmittedSpec`) assume strong fairness of the
  statements of each request that is being served, and nothing else: no request
  has to be made, and the connection need not be lost. It is strong because a
  statement is disabled whenever another request holds its row; PostgreSQL queues
  the waiters of a row and wakes them in turn, and the Go runtime does not starve a
  goroutine.
* The jobs: weak fairness of each job's passes, which cron starts again and again
  and which go on until they end. Faults are not fair.
* `TelegramLink`: weak fairness of each poller, a loop of its own.
* `MobileSync`: weak fairness of requests under way and of resent events; strong
  fairness of sending each batch, since the phone tries again whenever a request
  can be made, and a batch is not always sendable.
* `LiveMap`: weak fairness of the broadcast loop and of a page that is awake;
  strong fairness of `Register` and `Remove`, which wait for the write lock:
  `sync.RWMutex` lets no new reader in while a writer waits.
* `AfterResponse`: weak fairness of handlers and goroutines, while the process lives.

In `MCWorker` and `MCPositions` the fairness is that of the part the behaviour
follows. There liveness is stated as `[]<>P`; what `P` asks for stays once it is
there and a new demand falsifies `P`, so that this says the same as a leads-to for
each demand.

## What is proved

`DeliveryWorkflowProofs` proves for all constants that satisfy `ConstantTypes`,
`StartWithinCapacity` and `NullIsNoValue`, that is, for any number of orders,
tanks, lines, requests and events:

| Theorem | Property | Inductive invariant |
| --- | --- | --- |
| `Typing` | `TypeOK` | `Typed`: also, a request in flight names an order, and an event request its identifier |
| `StockNeverOvercommitted` | `NoOvercommit` | `TanksSound`: the lock holder's version is sound as well as the committed one, and the two are equal where nobody holds the lock |
| `TripsAndOrdersAgree` | `TripMatchesOrder` | `OrdersAgree`: also, what a request found when it locked the order's row is still so while it holds it |
| `EventsRecordedOnce` | `OneEventPerUuid` | `EventsSound`: also, an identifier in flight is neither recorded nor in another request |
| `MovesAreDocumented` | `MovesHavePhotos` | `EventsSound`: also, a request past its gate still has its photos, because none is ever removed |
| `DisputesAreNamed` | `DisputeNamesCompartment` | `DisputesSound`: also, the compartments a request has judged are its own trip's |

None of the properties is inductive alone: each speaks of committed rows, and what
will be committed is in a transaction. The strengthenings say of the
transactions what the property says of the rows. Each proof shows that the
initial state satisfies the invariant, has one lemma or step per action for its
preservation, and combines them with `Spec`; facts about updated functions and
about commits and rollbacks are lemmas of their own.

`DeliveryAccountsProofs` proves what the rows add up to, for finite sets of tanks and
lines (`RowsAreFinite`):

| Theorem | Property | Inductive invariant |
| --- | --- | --- |
| `StockFollowsEvents` | `StockMatchesEvents` | `StockSound`: also, the rows a request holds differ from the committed ones, pool by pool, by the lines it has crossed off |
| `OrdersFollowLifecycle` | `OrderFollowsLifecycle` | `InStep`: what a request read of its order stays true until it ends, because it is the only one on that order |
| `ReservationsFollowOrders` | `ReservationsMatchOrders` | `PromisesSound`: the counterpart of `StockSound` for reservations, with `InStep` |
| `ReservedFuelStays` | `ReservedFuelIsThere` | from `ReservationsFollowOrders` and `NoOvercommit` |

The first holds whatever callers do; the others assume the discipline, and the last
two that a pool has one tank (`OneTankPerPool`): with more, a loading may deduct from
a tank other than the reserved one, as `two_tanks` shows. The sums are folds of the
community modules, a recursion over a chosen element. The lemmas at the head of the
module (what a sum takes out, adds, keeps) follow by induction on the subsets of a
finite set, from the library's fact that the strict-subset ordering is well-founded.

`SessionsProofs` proves, for any users, jobs, sessions, tokens and lifetimes
(`SessionAssumption`), `TypeCorrect`, `TemporaryPasswordsDemandChange`
(`TemporaryDemandsChange`), `LoginsKeepOneToken` (`OneTokenPerLogin`) and
`SessionsFresh`. The second rests on `TokensInv`: a login none of whose tokens was kept
is held by one live token or by one refresh between its deletion and its save. The third: every behaviour of `Sessions` is one of `BoundedStaleness` with a
delay of `TTL + Span`. The invariant, `CopiesSound`, follows a copy from the query to
the page that shows it: a login holds facts that were true since its first read, and
a session's expiry bounds the moment its facts were read, also when a form saves
a copy of it again.

`AccessProofs` proves, for any users, requests, lifetimes and spans
(`AccessAssumption`), `AnswersFresh`
(`AnswersAreFresh`): the cache implements `BoundedStaleness` with a delay of
`CacheTTL + FillSpan`. The refinement is the identity on the table, its history and
the answers. It rests on an invariant of the two copies in flight (`CacheInv`): what
a request has read was the table's value at some moment since `readAt`, and what the
cache holds was the table's value not longer ago than its expiry allows. Each step is
shown to be a change, an answer that is fresh, a tick or a stutter. About the pages it
proves, for any network and grants, `WhatIsShownOpens` (`ShownOpens`), `RulesAgree`
(`ApiAgrees`) and `MoreGrantsOpenMore` (`GrantsOnlyOpenItems`), from `PagesInv`: a
session is a list of grants that can be given. Drivers and users without grants are
included. The first goes page by page and says of each link that it opens or is a
`KnownRefusal`; the second is an equivalence for the pages of facilities and
stations and an equality for the lists. Both turn on the best grant, which is one
of the session's and ranks as high as any. `AccessTypes` puts the type invariants together.

`WorkerProofs` proves of the jobs, for any users, readings, trips and faults
(`WorkerAssumption`):

| Theorem | Property | Inductive invariant |
| --- | --- | --- |
| `RepeatsStayFarApart` | `RepeatsAreFarApart` | the property itself, with the types |
| `NoticesFollowEscalations` | `NoticesAreOfEscalations` | `EscalationInv`: also, a pass that is telling of a reading is the only one, and those it has still to tell have no row yet; any number of passes overlap |
| `OpenDeviationsStayFew` | `DeviationsStayFew` | `DeviationInv`: the open deviations of a trip and the passes about to open one are together no more than the passes; what a pass has counted has not become less |
| `AlertsAreSent` | `AlertedMeansSent` | `DeviationInv`: also, the managers that a pass has gone past have their row |
| `WorkerTypes` | `TypesOK` | the conjunction of the above |

`PositionsProofs` proves, for any batches, requests, sockets, pages and points
(`PositionsAssumption`),
`DroppedIsStored` (`KeptUntilStored`), `PointsAreStoredOnce` (`StoredOnce`),
`MarkersStandOnPoints` (`MarkersAreTrue`) and `PositionTypes` (`TypesOK`). For the phone
(`PhoneInv`): when the accepted and the repeated points of a request number as many
as it has handled, each of those is stored; and between the check and the insert
of a point that no overlap puts at risk, only that request stands there. For the
map (`MapInv`): everything in the channel, the hub and the sockets is a stored
point, a page knows only trips it may show, and each trip's points have a latest.

`TelegramLinkProofs` proves, for any users, tokens and pollers
(`LinkAssumption`), `TypeCorrect`, `AccountsAreNotShared` (`OneUserPerAccount`)
and `TokensAreSpentOnce` (`TokensLinkOnce`). The invariant adds that a poller
handles a command that was sent (`Bounded`), that a transaction past its UPDATE of a
token is the only one there and the token is still unused (`TokenHeld`), and that
no other transaction is about to store the same account (`AccountHeld`).

`AfterResponseProofs` proves, for any requests and numbers of recipients
(`EffectsAssumption`), `TypeCorrect`, `AuditIsTrue` (`AuditRowsAreOfChanges`) and
`NoticesAreTrue` (`NoticesAreOfChanges`): whichever statements drop their error or
match nothing unseen, all others of a request that is audited or told of have
changed their rows. The invariant adds that a success has all its statements behind
it, and those that decide among the changed ones, that writers and notices exist for
successes only, and that a notice's next recipient is one of its request's.

Every safety property that a passing run checks is stated by one of these theorems.
Only model-checked are the liveness properties (`EveryRequestEnds`, `EveryoneTried`,
`OverdueIsEscalated`, `SustainedIsAlerted`, `UploadsArrive`, `PublishedIsShown`,
`DeadSocketsAreRemoved`, `CommandsAreHandled`, `ApiChangesAreAudited`), as liveness
under fairness is beyond the prover, and what the three runs that expect a violation
refute.

## Plan

1. `DeliveryLedger`: an abstract ledger with atomic approve, cancel, load and
   deliver, and the transactions shown to implement it under a mapping that
   reads committed rows; the refinement of the approval and rollback steps
   proved, the sums checked.
2. `VolumeArithmetic`: percentages rounded to four places against the tolerance,
   zero and negative volumes, over bounded inputs.
3. Proofs: that the delivery workflow implements the ledger; what a loading does to
   reservations when a pool has several tanks, in place of `OneTankPerPool`.

## Not modelled

The components without a module, and the parts left out of the others, are listed
with the reason in `PROJECT.json`. Templates, file and object transfer,
configuration and deployment are input and output or wiring; of the generated query
code the queries that the modelled code calls are. Master data is written by single
statements that share no state with the workflow. No code calls the queries that
create or deactivate a tank or correct its volume, so the set of active tanks is
constant here; a dip reading leaves the volume alone.
