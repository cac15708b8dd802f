# BagTrip in TLA+

BagTrip is a travel planner: a Python API (FastAPI, SQLAlchemy, PostgreSQL, Redis), a
Flutter app, and an admin panel. The API sells flights through Amadeus, takes money
through Stripe, plans trips with language models and pushes notifications through FCM.
These modules model the parts where several actors move the same state and no test pins
down the order: the booking payment, the Premium plan, the app's offline write queue, the
trips with their guests and their content, the sessions, the notification job under its
Redis lock, and the planner with its quota and its circuit breaker.

Paths below are relative to the repository's `src/`; `api/` stands for `api/src/`.

## 1. The system

### 1.1 What is modelled

**Booking payment** (`api/services/stripe_payments_service.py`,
`booking_orchestrator_service.py`, `booking_intents_service.py`, `api/api/payments/routes.py`).
State: the `booking_intents` row (status, PaymentIntent id, charge id) and the
`flight_orders` row; at Stripe a manual-capture PaymentIntent, its refunds and the
idempotency keys; at Amadeus the orders. Operations: create, authorize, capture, cancel,
refund, confirm-test, book. Each reads the row, calls out, then commits; nothing locks
the row in between. Hard: a call that took effect and whose answer was lost, a commit
made from a row read before other commits, a worker that dies, `book` which awaits
Amadeus while other requests run. Correct when what the API shows is backed by Stripe
and Amadeus, no flight is ordered twice, nobody is charged without a ticket, and no
intent stays authorized or in progress.

**Stripe webhooks** (`api/services/stripe_webhooks/`). State: one `stripe_events` row per
event. `process_event` looks the event up, inserts it, runs one of eleven handlers, and
commits. Hard: delivery at least once, in any order, to several workers at the same
time. Correct when an event is applied once and a late one never makes the row lie.

**Zombie authorization job** (`api/jobs/zombie_payment_intents_job.py`). Daily: selects
intents authorized for more than six days, cancels each at Stripe, commits them all.
Hard: requests and webhooks move the rows while it works from its list.

**Premium plan** (`api/services/plan_service.py`, `subscription_service.py`, the
subscription, invoice and dispute handlers, `api/jobs/plan_expiration_job.py`). State:
`users.plan`, `stripe_subscription_id`, `plan_expires_at`; the subscriptions at Stripe;
a Redis snapshot per subscription. Requests confirm, cancel and reactivate; every plan
read reconciles a FREE user with Stripe; an hourly job downgrades. Hard: four writers of
one row, two of which act on what they loaded earlier; idempotency keys that outlive the
intention. Correct when who pays is PREMIUM and PREMIUM ends with the subscription.

**Offline write queue** (`bagtrip/lib/core/cache/offline_write_queue.dart`, with
`connectivity_service.dart`, the cached repositories and the home bloc). State: a list of
mutations in a Hive box. `enqueue` while offline; `replay` on each change to online.
Hard: the replay works on the list it loaded, across awaited HTTP calls; handlers are
registered late; the app can be killed at any point. Correct when an accepted mutation is
applied or kept, and in order.

**Trips and their guests** (`api/services/trips_service.py`, `trip_share_service.py`,
`api/jobs/trip_status_job.py`). State: the `trips` row with status and dates,
`trip_shares`, `pending_invites`, and the rows that refer to a trip. The owner creates,
changes, plans, closes and deletes; shares with accounts and invites addresses; guests
accept by link or by signing up. A daily job starts and closes trips by date and deletes
drafts older than a day, all of them in one commit. Hard: the job runs in a thread beside
the requests; a row that does not cascade fails the whole collection; `book` awaits
Amadeus while its trip may be deleted; the viewer quota is counted in two ways. Correct
when a trip whose dates are over closes, a ticket keeps its trip, drafts are collected,
and access is what the owner handed out.

**Trip content** (`accommodations_service.py`, `manual_flight_service.py`,
`activity_service.py`, `baggage_items_service.py`, `budget_item_service.py`,
`feedback_service.py`, `admin/content.py`). State: one table each, and budget lines of
which some belong to a stay or a flight (`source_type`, `source_id`). Hard: the lines are
kept in step by the services and not by the database; a trip may be completed between a
request's check and its commit. Correct when the summary's totals agree, a linked line
has its row, and a completed trip stays as it was.

**Sessions** (`api/api/auth/routes.py`, `api/jobs/refresh_token_cleanup_job.py`,
`bagtrip/lib/service/api_client.dart`, `auth_service.dart`). State: `refresh_tokens`,
rotated at each use, and the app's secure storage. A revoked token that comes back ends
every session of the user. Hard: several requests of the app come back 401 at once, an
answer is lost after the rotation, a logout meets a refresh. Correct when a revoked
session is not revived, the app's own concurrency never looks like a theft, and an app
whose session is dead comes out of it.

**Notification job and job locks** (`api/jobs/notification_job.py`,
`api/services/notification_service.py`, `device_token_service.py`,
`api/utils/distributed_lock.py`). State: `notifications` rows with `sent_at`, device
tokens, preferences, a Redis key per job. Every half hour each worker tries the lock; the
holder checks, inserts, pushes and stamps, then retries what has no stamp. Hard: check
and insert are apart, a tick may outlive the lock, Redis may be absent or go away, users
change rows meanwhile. Correct when nobody is told twice, nothing is lost to one fault,
and everybody is told while the event is due.

**Planner** (`api/services/trip_planner_service.py`, `full_plan_orchestrator.py`,
`inspire_orchestrator.py`, `plan_draft_service.py`, `llm_router.py`, `plan_service.py`,
`flight_search_service.py`, `flight_offer_pricing_service.py`). State: the user's monthly
counter of generations, the streams under way, the drafts they leave. Hard: the quota is
read before the work and written after it, five tasks run at once, the client may leave,
a draft takes two commits. Correct when the quota holds as far as the code can hold it, a
stream says what is so of its draft, and every request ends.

**Circuit breaker** (`api/integrations/circuit_breaker.py`, `amadeus/breaker.py`,
`amadeus/retry.py`, `amadeus/auth.py`). State: closed, open or half open, a count, and the
token the process caches. Hard: late answers, cancelled probes, a revoked token, and
failures that are not Amadeus's. Correct when nothing but probes that fail keeps it open.

How they meet. The payment and plan handlers share `process_event` and the
`stripe_events` table; a booking intent belongs to a trip, a plan to a user, and the two
never touch each other's rows, so they are modelled apart. `TripLife` extends
`TripSharing` (one row, one list of what pins it) and has the booking reduced to what a
trip sees of it: money held, an order being placed, a ticket. `TripContent` sees of a
trip's life only that it closes. `TripPlanner` extends `AmadeusCircuit`: plans, ideas,
searches and prices call through one breaker. `PlanSync` and `TripPlanner` both have the
user's row, and none of each other's columns. The queue and the sessions meet the API
only through HTTP requests.

### 1.2 What is not modelled

| Part | Why |
|---|---|
| Feasibility pass | a pure rearrangement of the day plan; the draft's content is one value |
| Travelers | rows read and written one at a time, referred to by nothing modelled |
| Currency rates, weather, offline airports, images | lookups and conversions; a plan's step that fails is modelled |
| Account lockout, idempotency store | counters with expiry, which nothing modelled reads; the rate limit and the search cache are modelled where they refuse or answer |
| E-mail verification and reset links, the admin's cookies | one-shot tokens, without concurrency of their own |
| Admin lists and statistics | reads |
| Post-trip suggester | Premium only, so outside the quota; one call and one answer |
| `react_executor`, points of interest, activities and sentiments clients | no caller |
| `api/api/booking/routes.py` `create_booking` | deprecated; orders without a payment |
| App screens and blocs | user interface state |
| Configuration, audit, infrastructure | no protocol of their own |

Inside the modelled parts, these are left out:

- booking: the admin's forced status (an override without guards, under which no status
  means anything); the webhook branch that records a handler's exception and answers 200
  (no modelled handler raises); prices, reduced to one `Amount`; the signature check;
- plan: invoices, payment methods and the status page, which are reads; switching the
  payment method; the admin's reset of the AI counter;
- trips: the columns no guard reads (budget, tracking, cover), a guest's role, the
  completion percentages;
- content: currencies (one per trip), dates and places, who pays;
- notifications: marking as read, the lists, and what a request says of a write that
  succeeded when its alert fails;
- planner: what a model writes, offers and prices, the contents of events.

## 2. Modules

| Module | Models |
|---|---|
| `BookingPayment` | booking payment, its webhooks, the zombie job, Stripe and Amadeus around them |
| `PaymentPromise` | the abstract specification: what a customer may rely on |
| `BookingRefinement` | the mapping under which `BookingPayment` implements `PaymentPromise` |
| `PlanSync` | the Premium plan of one user, its events, reads, cache and job |
| `OfflineQueue` | the mobile write queue |
| `TripSharing` | shares, invites, the claim at sign-up |
| `TripLife` | extends `TripSharing`: requests on trips, the daily job, bookings, staff |
| `TripContent` | the content of one trip and its budget |
| `Sessions` | refresh tokens and the app's interceptor |
| `Notifications` | the notification job in every worker, its lock, the pushes |
| `AmadeusCircuit` | the circuit breaker and the cached token |
| `TripPlanner` | extends `AmadeusCircuit`: quota, streams, suggestions, searches |
| `MCBookingPayment`, `MCNotifications`, `MCTripPlanner` | constants and symmetry for the model checker |
| `BookingProofs` | theorems about the first three |
| `PlanSyncProofs`, `OfflineQueueProofs`, `TripContentProofs`, `SessionsProofs`, `NotificationsProofs` | theorems about the module of that name |
| `TripLifeProofs` | theorems about `TripSharing` and `TripLife` |
| `TripPlannerProofs` | theorems about `TripPlanner` |

Where a property has a mutant (a definition `...` with the comment "Mutant of ..."), the
mutant is the bug the property is there to catch.

### 2.1 BookingPayment

A request in flight is a record in `running`: its worker, operation, step, and the values
it read (`seen`, `amount`, `already`). The handlers are synchronous code inside
`async def`, so a request holds its worker's event loop until it ends: `Idle(w)` guards
`Begin`. The exception is `book`, which commits BOOKING_PENDING (`BookPend`), awaits
Amadeus in `suspended`, and takes the loop again in `BookResume`. Each handler is split
where another actor can come between: `...Start` (read and guards), `...Call` (Stripe
acts), `...Commit`. `Answered` lets Stripe act and the answer be lost: the handler ends in
a 502 with Stripe changed and the row not. `CallFails` is a call that had no effect.
`cancel` and the job suppress errors, so they go on to the commit either way.

`SetWhen` carries a detail of the ORM: a handler that assigns the status it had loaded
emits no UPDATE, so a concurrent commit survives; one that assigns another status
overwrites it.

`Event.n` is the refunded total an event reports, or which decline it is. A webhook is a
request as well: lookup (`WebhookStart`), insert under the unique key (`WebhookInsert`
or `WebhookDuplicate`), handler and commit (`WebhookApply`). Events stay in `sent`, so
they arrive late, again, and in any order.

Abstractions, each of which is named here because it removes behaviour:
- a refund's read of the row and of the charge is one step (a refund made between the
  two has the effect of one made before both, or the request finds nothing left);
- a worker has at most one suspended booking per intent;
- idempotency keys of a booking never expire, where Stripe keeps them for a day (after
  that a repeated capture is refused by the PaymentIntent's state, and a refund's key
  contains a total that its own effect has changed);
- the job is one instance, which its Redis lock gives while the lock lives.

### 2.2 PaymentPromise and the refinement

Abstractly, a customer's card goes `idle -> held -> charged`, or is `released`; money is
returned up to what was charged; a flight is ticketed; the app shows `booked`, `charged`
or `returned` only when it is so. With `TicketFirst`, a charge needs a ticket. The mapping
takes `money` from the PaymentIntent's state, `returned` from the refunds, `ticket` from
`flight_orders`, `shown` from the row's status (everything but BOOKED, CAPTURED and
REFUNDED is shown as open: FAILED and CANCELLED promise nothing, because the code sets
them over captured money, see the hazards), and `TicketFirst` from
`Production /\ ~OperatorActs`.

### 2.3 PlanSync

One user, `Subs` subscriptions (one per payment method, as the confirm key has it), time
in billing periods. The subscription requests and the webhooks are synchronous code that
holds the event loop, hence one step each; `Confirm` also has the outcome in which the
request dies between Stripe and the row. A plan read is four steps (`Suspect` and
`ReadStart`, `StripeAnswers` in a thread, `ReadFinish`) or a single `ReadCached`; the
job is `JobSelect` and `JobCommit`. `ApplySnapshot` writes only the columns that differ
from the row loaded, as the ORM does. Stripe's side (payment, renewal, dunning, end of
period, dispute) is modelled from the statuses and events the code reacts to. Nothing keeps
a user's reads apart, so any number may be in flight; `AtMostTwoReads` is the hypothesis of
`LeftoverExpires`, which three reads can break (4.4).

There are two ways to subscribe. `Confirm` stores the subscription's id and has a key;
`CreateCheckoutSession` stores nothing, so a user who pays there (`PaysOnPage`) has no row
that names his subscription until the webhook comes, and the reconciliation cannot help
him. When events are reordered the job may demote him in between: hence the restriction of
`ServedWhilePaid` to ordered events or subscriptions bought in the app, and of
`PaidUserHealed` to the latter. The billing portal (`ChangesInPortal`) cancels and resumes
without a key, and the staff may set the plan and its end (`AdminUpdatesUser`; one period).

Assumed: a customer id that does not change; no trial; an unpaid subscription stays
unpaid; a period is longer than a request, a job's tick, a cache entry and a key's day
(`Tick` waits for them, and for Stripe to bill what is due); one API process.

### 2.4 OfflineQueue

`store` is the box, `todo[r]` what a replay still has to send. Going online loads the
sorted list and starts a replay (not awaited); `HandlerSucceeds` and `HandlerFails` are
the end of one HTTP call; `Continue` is the loop, which saves the rest of *its* list when
it stops. `createdAt` is local time without an offset, so `FlyWest` makes later
operations sort first. `Kill` loses memory and keeps the box. `Logout` clears the boxes
opened in this run.

Assumed: `enqueue` is one step between events of the Dart loop (its read and write of an
open box complete together; the first opening of the box is not split from them); a Hive
write and its flush are one step, an enqueue killed before the flush being one that was
never acknowledged; every kill counts as a fault; `clear()` has no caller and no action.

### 2.5 TripSharing and TripLife

Handlers of shares and invites are synchronous, hence one step each. A request on a trip
is `Load` (the access check and the guard) and a write; the daily job runs in a thread, so
its commits come in between. `req` is the one request between the two, with the status it
`seen`. The job is `JobStarts` (an UPDATE that locks its rows), `JobCompletes` and its
commit, `JobNotifies`, `GcSelects`, `GcDeletes`. `Pinned` is what the database refuses to
let go: notifications and invites refer to a trip without a cascade, and a flight order
(`booking = "ticketed"`) does too. `booking` becomes `lost` when an order is confirmed
after its trip or its process is gone. An invite expires, is revoked, is accepted by
whoever has the link (the owner too), or is claimed at sign-up. `Opens` is the access
check; `Listed` counts a trip's rows in a filtered list and `Grouped` in the home screen's
groups, which are other queries. Trips are made by `Creations`.

Assumed: the owner's plan does not change; requests of one user do not overlap; a draft
is stale after the next midnight (the code's age is 24 hours).

### 2.6 TripContent

`row` has stays and manual flights with their price, `line` the budget lines. `Load` finds
the trip open, an action with `Editing` commits; `TripCloses` may come between. A create
builds its line before the row is flushed and has no id to link it by: `Create` adds a
line with `NoId`, while the planner's drafts (`Planned`, an initial state) are flushed
first and are linked. An activity's `validation_status` is free text, to the model one of three
values: SUGGESTED, VALIDATED (which MANUAL counts as), or neither; its cost is any number.
`SyncLine` is `find_by_source` and its three outcomes. `BookOrder`
is the orchestrator's line, written without a look at the status.

### 2.7 Sessions

`row` is `refresh_tokens` in order of issue, `chain` the sign-in a token descends from,
`ended` the sign-ins that a revocation of all tokens has ended. `refresh` is the app's one
refresh (`_isRefreshing`): the token it sent and the caller it is for; `call` has the
requests sent with an expired access token; `leaving` is a logout, which is a request as
well and may itself come back 401. Refreshing is `Unauthorized` (the interceptor), `Serve`
or `Refuse` (the API), `Refreshed` or `SignOut` (the app). The second device acts on the
server only. `SignOut` deletes both tokens in one step, where the app awaits one deletion and
then the other with `_isRefreshing` already false: between them a request may still find the
dead refresh token and try it once more. With the two deletions apart the run's instance does
not finish in time; smaller ones do, with the same properties holding.

### 2.8 Notifications

`worker` is the job's loop in each process: it awakes, takes the lock (`AcquireLock`),
skips (`SkipTick`), runs without one when it found no Redis at start-up (`TickUnlocked`),
or ends for good when Redis has gone (`LoopEnds`); then `CheckRecipient`, `InsertRow`,
`Push`, `Stamp` for each recipient, `RetryUnsent` and `CommitRetries`, and it releases by
compare and delete (`Released`). A tick carries the rows it has inserted or selected in
`batch` until it stamps them: a commit fails as a whole when the user has deleted one (`Gone`). Time is counted in half hours, and a comparison whose
limit has just been reached may go either way (`Before`), since ticks drift. `stray`
records that a row was inserted outside the time its tick had the lock for. Each run of
the model is about one event of one kind, with the window and the dedup of that kind.

Two kinds are told by a request and not by the job: the alert of a budget, after each write
to it (`CheckBudgetAlert`, `InsertAlert`), and the staff's message to several users in one
insert, one push and one stamp (`SendNotification`, `PushRequest`, `StampRequest`). The
handlers do not await between their first read and their last commit, so `request` holds one
per worker, and it keeps the worker's event loop; the job's threads and the other workers
go on, and may push again a row that is committed and not yet stamped. No lock covers these
requests: `stray` records that two workers handled one at the same moment, which is the one
way an alert is told twice within its hour.

### 2.9 AmadeusCircuit and TripPlanner

A request is a record with its kind, where it is, the calls it waits for (`todo`), and
what its session loaded of the user's row (`seen`, `reset`). A plan goes through origin,
destination, weather, five tasks at once, the budget, its sections, the draft's two commits
(`PersistTrip`, `PersistContent`), "complete", and the count. A commit may fail, and may take
effect and lose its answer, or the row may not be read again after it: an error is then said
over a trip that is there. A count that fails is logged and nothing is said.
Meanwhile the models answer as they like; ideas through Amadeus and a ranking or the fallback;
a suggestion is one model call and the count on the row loaded at the start; a search is
one or two calls. `Leave` is the client closing a stream: what it awaits is cancelled, and
the breaker hears of no outcome. `charged` counts the generations of the month that were
allowed and counted; `overlapped` and `straddled` tell what a sequential caller could not
do. Three of a plan's tasks share nothing with anybody and are taken in one order.

The breaker counts any exception but the caller's own errors (400, 404), so `CallFails` may
come of any call at any time: a timeout, a 5xx, any other status made a 502, a 200 that does
not parse. A call that has only a revoked token to send (`refused`) cannot be answered; the
token stays in the cache until `TokenExpires`. `BeginCall` and `CallEnds` are what a call
that is cancelled has of the breaker: no outcome.

Assumed: one process (the breaker and the token are per process); a month is longer than
a plan's own waiting, but may end during any request.

## 3. What is checked

| Run | Instance | Shows |
|---|---|---|
| `booking_one_worker` | 1 worker, 1 intent, amount 2, 1 decline, 1 fault, production | the deployed set-up: statuses backed, ticket before charge, one order per booking, refunds reconciled, no intent stuck |
| `booking_two_workers` | 2 workers, no faults, symmetry | claims under true concurrency, events applied once, refinement of `PaymentPromise` |
| `booking_staging` | outside production, staff in Stripe's dashboard | authorizations still leave |
| `plan_sync` | 1 subscription, 1 reader, 2 periods, 1 admin write, events in order or in any order (chosen at the start; the staff's change and disputes only in order) | a paying user is PREMIUM or can be healed, and PREMIUM ends |
| `offline_calm` | 3 operations, 2 repositories, 1 kill or lost answer, 1 flight | kept, in order, drained |
| `trips_shared` | 1 trip, 2 guests, quota 1, dates 0 to 2, 2 days, 1 restart or staff change | seats, lists, closing |
| `trips_drafts` | 2 trips, one shared with 1 guest, one booked | tickets keep trips, drafts are collected |
| `content` | 1 stay, 1 flight, 1 activity, 1 bag, 2 lines, activity costs of either sign, 1 staff change, symmetry | totals agree, links resolve, completed is frozen |
| `budget_counted_once` | the same | *violated*: a stay is counted twice |
| `sessions` | 2 devices (1 acting), 2 requests at once, 3 tokens, 1 lost answer or kill | ended sessions stay ended, no false reuse, dead sessions end |
| `notifications` | 2 workers, 2 users, 2 devices, 4 kinds of event and 2 of request, 1 mishap (2 for activities), symmetry | told once, nothing lost, everybody told |
| `planner` | 2 requests at a time, quota 1, 2 models, 2 months, threshold 2, 1 revoked token, any call failing | overdraft bounded, drafts as said, requests end, what keeps a circuit open |

Properties, by the hazard they are for:

- `StatusIsBacked`, `ClaimsAreBacked`: stale commits, replayed keys, late events.
  CAPTURED (and a stored charge) implies a capture at Stripe, REFUNDED a refund of the
  whole amount, BOOKED a flight order row.
- `TicketBeforeCharge`: in production, with nobody in the dashboard, a captured payment
  has a flight order, although capture, book, cancel and webhooks interleave.
- `OneBookOrders`, `RefundReconciles`: claimed for one worker, as the API's Dockerfile
  starts uvicorn; with two, `book` can pass its guard twice and a late commit can bring
  CAPTURED back.
- `AppliedOnce`: two workers receive the same event at the same time.
- `AuthorizedLeaves`, `PendingEnds`: nothing is left authorized for ever; nothing stays
  in progress unless a process died or a commit failed.
- `ServedWhilePaid`, `PaidUserHealed`: reordered events, retried confirms, cached
  snapshots and the job against a user who pays.
- `LeftoverExpires`, `PremiumEnds`: the PREMIUM that a stale read puts back is one the
  job can find, and ends. A charge under dispute or a plan set by an administrator is
  excluded: the code gives no such promise there. The first is claimed for two reads in
  flight at most.
- `Kept`, `InOrder`, `Drains`: the queue's promises. `InOrder` is claimed while the clock
  has not gone back; `Kept` while the connection does not drop during a replay (`Calm`).
- `AtMostTwice`: the quota has holes (an invite accepted or claimed is not counted again,
  shares with accounts ignore pending invites); the property says how far they go.
  `SeatsAreGranted`: no accept, claim or expiry makes a seat out of nothing.
  `ListsWhatOpens`: the filtered lists, the grouped home screen and the access check,
  three queries, agree.
- `EndedTripCloses`: also when a request writes ONGOING over the job's COMPLETED.
- `TicketKeepsTrip`, `DraftsAreCollected`: the collection against bookings, shares and
  the owner; the second says exactly when the collection is blocked.
- `SummaryAddsUp`: four loops over the same rows with two definitions of "confirmed". What is
  spent is confirmed or forecast, but for the activities whose status is neither, which both
  leave out; and it is in the categories, but for activities that cost less than nothing.
  `LinksResolve`: no change or deletion leaves a line linked to nothing, as long as the
  staff deletes no stay. `FrozenOnceClosed`: at most the request already past its check,
  and a booking in progress, write into a completed trip.
- `EndedStaysEnded`: a token exchanged around a mass revocation does not survive it.
  `ReuseNeedsCause`: a reuse is detected only after a logout, a revocation, a lost answer
  or a kill, never from concurrent 401s alone. `DeadSessionEnds`: the app finds out.
- `ToldOnce`: with check and insert apart, as long as each inserting tick is within the
  time it took the lock for, whatever crashes and releases come before. `NoPushLost`: one
  fault does not outlast the retry window, unless it slows the tick of the only worker there
  is, which then has the push in its hands. `EventIsTold`: without a fault everybody is told,
  though a tick is still under way at the end; a crash that leaves the lock in Redis does not
  cost an event that is due for hours, as long as there is another worker.
- `WithinQuota`: exact for requests one after the other. For two at a time the bound is
  `(Limit * (Limit + 3)) \div 2` generations obtained by writing back a held count, plus
  `Limit + 1` for a reset held over the end of the month; it is reached for limits 1 to 3.
  Of three at a time two can hold counts in turn, and the bound does not hold.
  `NeverOvercharged`: nobody pays for a generation of another month. `DraftAsSaid`:
  a plan said to be complete is there with all its content and is never followed by an error,
  whatever fails between its commits or when it is counted, and no other is counted. (An error
  does not say that nothing is there: section 5.) `RequestsEnd`: every stream and search ends.
  `CircuitCloses`: the circuit closes again and again, unless again and again a probe fails
  that had a good token to send: neither probes that vanish, nor late failures, nor a token
  refused while it is cached keep it open or half open for good. How many probes pass at once
  is not its subject.

### 3.1 Bounds and why they are enough

One intent: intents share nothing but a worker's loop and the job's commit, and the
theorems hold for any number. Two workers: an interleaving of three needs three reads of
one row, which the properties do not distinguish from two; again the theorems cover any
number. `Amount = 2` is the smallest amount with a partial refund. `MaxDeclines`: one
declined card before the approved one is what makes the late decline event. `MaxFaults`:
one crash or refused commit; the theorems allow any number. Two billing periods: a
renewal, a failed one and the end. `MaxEvents` stops the user from cancelling and
reactivating for ever; Stripe's own events are not bounded by it. Three operations of two
repositories: one in flight, one behind it, one without a handler. The plan has one reader,
which suffices for a stale read against the webhooks and the job. Two reads can also undo
each other; with two the liveness of the run is out of reach (its safety properties alone
have 6.7 million states and hold), and the theorems cover them: any number of reads for
`ServedWhilePaid` and `PaidUserHealed`, two for `LeftoverExpires`.

Trips: with `Limit = 1`, two guests are what it takes to pass the quota by the second
path; days 1 and 2 are a day before, within and after a trip's dates, and the clock goes
on striking midnight on the last day so that liveness is not cut off. The drafts' run has
two trips because the collection's one commit is about *another* trip's row. Content: one
row of each table, and two lines (a linked one, and an orphan or one of the user's); a
second stay adds no line that the first cannot have. Sessions: three tokens are a sign-in
and two rotations, or two sign-ins and one; two requests are the least that come back 401
together. Notifications: two workers are two holders of one lock; the clock runs for
each kind's window, its dedup's edge and a retry window after it; one mishap is what
`NoPushLost` and `EventIsTold` speak of, and activities have two since their window is the
shortest; a request tells a user twice at most (`Requests`), which is what it takes to tell
him too often. Planner: two requests, of which one draws on the quota by a suggestion (the
count held longest) and the other is of any kind; one token is revoked before or after the
breaker has opened; two models are one that fails and one behind it.

`CHECK_DEADLOCK FALSE` stands in the runs where the world may really end: the intent is
over, the last billing period is gone, every trip is deleted or completed and has its
feedback, the tokens are used up. The other runs check for deadlock.

### 3.2 Fairness

- Booking: a started handler runs on (`WF` of `RequestStep`), asyncio resumes an answered
  coroutine (`SF`, since other requests take the loop in between), the Amadeus client has
  a timeout (`WF` of `AmadeusAnswers`), the job ticks (`WF`), days pass. No request is
  assumed to come, and no webhook to arrive.
- Plan: a thread's call returns, its coroutine resumes, the job ticks, time passes
  (`SF`, because requests do not stop it), and Stripe retries an event until it is
  answered (`FairSpec`).
- Queue: every HTTP call ends (Dio's timeouts). `Drains` also needs what is not in the
  code's hands: screens get opened, the connection comes and goes, and the API does not
  refuse an operation for ever. The going *offline* is needed, because a replay starts
  only on a change to online: an app restarted online, or a replay that failed, waits for
  the next change.
- Trips: a request in progress ends, the job's thread runs on, midnight comes (`WF` each).
- Sessions: what the app and the API have begun ends, every 401 reaches the interceptor
  (`WF` each); `DeadSessionEnds` is claimed once no more kill can come.
- Planner: a request's next step is taken (`WF`: a coroutine resumes, a call ends in an
  answer or a timeout), cooldowns end, a token expires (`WF`: its age decides), and somebody searches
  flights again and again (`SF`): a circuit that nobody calls stays half open. Nothing is
  assumed of Amadeus: a call may fail each time, which `CircuitCloses` excepts by name.
- Notifications and content have none: their properties are safety, `EventIsTold` being
  stated at the end of the event's window.

## 4. What is proved

Each component that a run checks has a module of proofs. A theorem holds for every value
of the constants that satisfies the named assumptions of its modules (4.3), so for any
number of intents, workers, trips, guests, devices, tokens, requests, mutations or budget
lines, where a run has one to three of each.

| Module | Theorem | Statement |
|---|---|---|
| `BookingProofs` | `Typing` | `Spec => []TypeOK` |
| | `Claims` | `Spec => []ClaimsAreBacked` |
| | `StatusBacked` | `Spec => []StatusIsBacked` |
| | `NoChargeWithoutTicket` | `Spec => []TicketBeforeCharge` |
| | `EventAppliedOnce` | `Spec => AppliedOnce` |
| | `KeepsPromise` | `Spec => PromiseKept` (refinement of `PaymentPromise`) |
| | `RefundStays` | `Spec => []RefundReconciles` |
| | `OrderedOnce` | `Spec => OneBookOrders` |
| `PlanSyncProofs` | `TypeCorrect` | `Spec => []TypeOK` |
| | `PayingIsPremium` | `Spec => []ServedWhilePaid` |
| | `PayingIsHealed` | `Spec => []PaidUserHealed` |
| | `LeftoverIsFound` | `Spec => []LeftoverExpires` |
| `OfflineQueueProofs` | `TypeCorrect` | `Spec => []TypeOK` |
| | `NothingLost` | `Calm => (Spec => []Kept)` |
| | `NoneOvertaken` | `Calm => (Spec => []InOrder)` |
| `TripLifeProofs` | `TypeCorrect` | `Spec => []TypeOK` |
| | `TwiceAtMost` | `Spec => []AtMostTwice` |
| | `SeatsOnlyGranted` | `Spec => SeatsAreGranted` |
| | `ListsAgree` | `Spec => []ListsWhatOpens` |
| | `TicketsKeepTrips` | `Spec => []TicketKeepsTrip` |
| | `NoTripComesBack` | `Spec => DeletedStaysDeleted` |
| `TripContentProofs` | `TypeCorrect` | `Spec => []TypeOK` |
| | `LinksHold` | `Spec => []LinksResolve` |
| | `NoDoubleLine` | `Spec => []OneLineEach` |
| | `ClosedIsFrozen` | `Spec => FrozenOnceClosed` |
| | `TotalsAgree` | `Spec => []SummaryAddsUp` |
| `SessionsProofs` | `TypeCorrect` | `Spec => []TypeOK` |
| | `EndedForGood` | `Spec => []EndedStaysEnded` |
| | `NoFalseAlarm` | `Spec => []ReuseNeedsCause` |
| `NotificationsProofs` | `TypeCorrect` | `Spec => []TypeOK` |
| | `NobodyToldTwice` | `Spec => []ToldOnce` |
| | `PushesAreNotLost` | `Spec => []NoPushLost` |
| | `EveryoneIsTold` | `Spec => []EventIsTold` |
| `TripPlannerProofs` | `TypeCorrect` | `Spec => [](Typed /\ Settling)` |
| | `TrueToTheDraft` | `Spec => []DraftAsSaid` |
| | `ChargedOnlyForTheMonth` | `Spec => []NeverOvercharged` |
| | `QuotaHolds` | `Spec => []QuotaAlone`, the sequential half of `WithinQuota` |
| | `QuotaOfTwo` | `Spec => []WithinQuota` |

### 4.1 How the proofs go

A model has dozens of ways to make a step, and an invariant is disturbed by a few.
So most proofs first show what a step *is* to the part of the state at hand (lemmas such as
`MoneyMoves`, `SeatMoves`, `TableMoves`, `ListsMove`, `ContentMoves`, `EveryMove`), a handful
of kinds that between them cover `Next`, and then take one step per kind. The type invariant
comes first, strengthened where a later proof needs a finer domain.

### 4.2 The inductive invariants

*Booking.* `StatusIsBacked` is not inductive: a commit writes what the handler learned
earlier, so the proof needs to know what a request may claim. `ClaimsAreBacked` says so:
a capture past its call implies the capture, a refund's `already` (plus what was asked,
past the call) is at most what Stripe refunded, a key implies its effect, an event what it
reports. The invariant is
`IInv == TypeOK /\ ClaimsAreBacked /\ StatusIsBacked /\ TicketBeforeCharge`; that claims
survive any delay is `Monotone`: captures, refunds, events and flight orders only add up.
`EventAppliedOnce` rests on `RowHeld`: a request between its insert and its commit is the
only one that holds its event, which is not recorded yet. `KeepsPromise` uses `IInv` before
and after each step: Stripe's moves map to `Hold`, `Charge`, `Release` and `Return`, the
changes of the status to `Show` and `Withdraw`, everything else to a stutter.

*Booking, one worker.* `RefundReconciles` and `OneBookOrders` are claimed for one worker,
and there one request runs at a time (`SoleKinds`), while a suspended `book` and events not
yet delivered remain about. `OneBooking`: where a booking is suspended, no row, PaymentIntent
or request says or counts on anything else. `AuthorizedIs`: what is authorized in the row, in
a request or in an event is so at Stripe. On top of both, `RefundIsLast` says that nothing
which could capture or book is about once money has gone back, and `OrderIsLast` that an
intent still to be booked has not been ordered.

*Plan.* For the user's only subscription `s`: `Truthful` (what Stripe has told that holds for
good, and that only its first event says created), `Seen` (no snapshot, cached or in a read,
says dead of a living subscription), `Keyed` (who paid without the app has no confirm key to
replay), `Known` (when the row has the id) and `Shown` (what the row may say). The proof
shows which of the columns a stale read may write; that is where one subscription is needed.

For what outlives it (`LeftoverExpires`), `Past` says of Stripe and the events what stays so:
the end is the last that is told (`LastWord`), events are recorded in order (`Queued`), a
snapshot that lives has an end (`Dated`) and is of a subscription once paid (`Blank`), and the
key of a confirm does not outlive the first period (`Young`). `Through` follows the row through
the three ages of a subscription. Before its first event is in, `Unheard` counts the reads that
can still be in flight: this is where two is the limit. While it lives or its end is on the
way, `Stalled` says that only the job leaves the row FREE with the id, and not while a read
still saw it alive; so a read that has loaded an expiry comes too late to find it so. After the
last event, `Closed`: a row with the id is FREE and stays so, and no read in flight has loaded
an expiry that it could take away.

*Queue.* `Listed`, `Numbered` and `Counted` hold whatever overlaps: every operation has its
number, and no list holds one twice. While the connection does not drop during a replay there
is one replay (`Alone`), and `Mirrored` relates its list to the box: what is in the box and
not in the list has been applied, what is in the list is in the box or was at a logout. That
`Load` returns a sorted list of the same operations (`Loads`) is proved by insertion, by
induction on the length, as `CHOOSE` says nothing until such a list is shown to exist.

*Trips.* `SeatsInv` counts a trip's shares and its invites apart, because `AtMostTwice` says
too little of either: the invites alone stay within the limit, and both are finite as they
grow one by one, whatever `Guests` is. `SeenOK` is what a request's check told it of the
status. `RowsWait` is the lock of the job's
UPDATE: the rows it holds stay PLANNED until its commit.

*Content.* `LinkInv`: a linked line is of its source's kind and its only one, always; the row
is there as long as the staff did not intervene. `TotalsAgree` is for amounts of either sign and
the three values of a status, and needs facts on sums over finite
sets of any size: that `SumFunctionOnSet` has a value at all, the sum of a set less an element,
of a disjoint union, and of a set split by classes. They are proved from least finite
counterexamples, since proper inclusion is well-founded on finite sets.

*Sessions.* `EndedInv` adds that an ended sign-in's token was issued before, `Numbered` that
tokens are issued in order, so a token yet to come belongs to no ended session. `QuietInv` is
what nothing-went-wrong means while a refresh is under way: the token sent is the stored
one, or the one answered is the current one; it is usable; and no other device has it.

*Notifications.* `ToldOnce` has a gap between check and insert. `Fenced` is the lock's mutual
exclusion (a tick within its time *is* the lock's holder), hence at most one tick is between
the two; `Ready` says that what it checked still stands, `ReadyToAlert` the same of a request,
`ByKind` and `Owned` that job and requests tell different kinds.

`NoPushLost` and `EventIsTold` are about time, and their invariant `Awaited` is a timetable. As
long as nothing has gone wrong, a lock belongs to a tick under way (`Guarded`), every job wakes
within the next half hour (`Timed`), requests are answered within theirs (`Current`) and every
push due is of this half hour (`NoneWaits`) and in somebody's hands (`Held`). One mishap leaves
at worst a lock that nobody will release and a push nobody carries, both of this half hour
(`Recent`). From there `Rescued` counts: either the lock has run out in time and a tick is about
to open (`Waiting`), or one is open that will select the row or has (`Rescuer`), or the only
worker there is takes longer (`Alone`). `Informed` counts in the same way for a user not told
yet, and `Early` says that a deleted row, which ends a tick, does so only while that leaves time.

*Planner.* `DraftsFit` fixes draft and words at each stage of a plan: what an error may be said
over, and that nothing but "complete" leads to the count. For the counter,
`Dated` orders the months that the row and requests are of, and `Charged` says that what a
request of this month holds of the row is this month's, or the row still is as it was loaded,
or another has reset it. `OneByOne` is the sequential case: until the only request that draws
on the quota is counted, there is room for it.

Of two requests each has a place (`Place`): the count from which it will go on, the one it holds
to write back or the row's. One that stands `d` below the limit while the other stands there can
yield `Yield(d) == (d * (d + 3)) \div 2`: to write back a held count, and to let the other climb
again from there, once for each count below the limit. `Between` is the potential: what has been
charged, plus what the lower of the two can still yield, less the lead of the other, stays within
the bound (`Ahead`); a count moves one of them a step, and `Yield(d + 1) = Yield(d) + d + 2` pays
for it (`OneCounted`). A request that loaded the row in an earlier month may still reset it: while
it is about, no more has been charged than one above where the other stands, so that the reset
can be afforded (`PairResets`). `Pair` adds what the corners need: at the limit one request at
most has yet to be counted, one at most holds a row never counted on, and before the month's
first reset one at most is counted. The invariant was checked on instances before it was proved.

### 4.3 Assumptions

Each is named, in the module that declares the constants, and evaluated by the runs.

- `ConstantsOK`, `SharingConstantsOK`, `LifeConstantsOK`, `QueueConstantsOK`,
  `CircuitConstantsOK`, `PlannerConstantsOK`, `PlanConstantsOK`: bounds are naturals, and
  placeholders are not elements of what they stand beside. `ConstantsOK` has finitely many
  workers (one worker is stated by a cardinality).
- `ContentConstantsOK`, `NoRowIsNone`: finitely many budget lines and
  activities, prices above zero, stays are not
  flights, and the placeholder of an absent row is none.
- `SessionsConstantsOK`: the placeholders again, and that the acting devices are devices.
- `NotificationConstantsOK`: finitely many users (the audience is a number of them), each
  kind of event is one of the kinds with a window, and a budget's alert has one recipient.

`Calm` is no assumption but a hypothesis of two theorems, as of the run: with a connection
that drops while a replay is under way the queue does lose operations (section 5).

### 4.4 What the proofs changed

Proving found places where a bound of a run had kept something from sight:

- `NeverOvercharged` held in the run because `Months = 2` left no room for a row reset two
  months before; the bookkeeping of `charged` was corrected, and the theorem is for any
  number of months.
- `LeftoverExpires` is claimed for two reads in flight: with three, and Stripe's first event a
  whole period late, one puts PREMIUM back without an expiry or takes away the one another put
  back, and the job never finds the user. The run's one reader had hidden it.
- `WithinQuota` is claimed for one request after the other and for two at a time; with three
  suggestions under way it fails for a limit of two.
- `NoPushLost` and `EventIsTold` fail for a single worker whose tick a fault slows: the first
  now excepts it, the second asks for another worker when there has been a fault. In return
  `EventIsTold` no longer waits for ticks under way to end.
- `LeftoverExpires` and the other properties of the plan are claimed for one subscription
  (`OneSub`). With two, one's `updated` leaves an expiry, a read that had loaded the row
  finishes after the other's deletion, and the user stays PREMIUM with no expiry for ever.
  `ServedWhilePaid` and `PaidUserHealed` fail as well: an event of the abandoned subscription
  takes the id of the paid one.
- The ids of notifications were bounded where nothing in the code bounds them; they are
  now any number.

### 4.5 Only model-checked

- Liveness (`AuthorizedLeaves`, `PendingEnds`, `PremiumEnds`, `Drains`, `EndedTripCloses`,
  `DraftsAreCollected`, `DeadSessionEnds`, `RequestsEnd`, `CircuitCloses`): liveness under
  fairness, and `ENABLED`, are beyond the prover.

Every safety property of the passing runs is a theorem. Where one has a precondition on the
constants (`AtMostTwoReads`, `AtMostTwoAtOnce`, `OneSub`), it is because the code breaks it
without, not because the proof needs it.

## 5. Disagreements between the code and what it says

One is a run that fails, and an entry of `PROJECT.json` with the quoted lines:

*Counted once.* `accommodations.md:36-38` says that a stay's budget line carries the stay's
id, follows its price and goes with it. The line is built before the id exists
(`accommodations_service.py:105`), so its `source_id` is NULL: an update adds a second
line, a deletion leaves the first. The same holds of manual flights and of the flight
order's line.

The others were met while modelling; each can be read off the definition it is at.

Booking and plan

- `payment.py:38-46`: the succeeded webhook is called a reconciliation safety net; it acts
  on BOOKED and AUTHORIZED only (`HandleSucceeded`).
- `stripe_payments_service.py:324-327`: "a partial refund ... retried after a network
  failure dedup'es"; the key holds the refunded total, which the first attempt changed.
- `subscription.py:55`: an event of an abandoned subscription clears the id of the paid
  one, and `plan_service.py:17` has nothing left to reconcile from.
- `plan_service.py:17`, "removes that class of bug": not for a user who paid on the page of
  `subscription_service.py:104`, whose subscription no row names before the webhook.
- `plan_expiration_job.py:43` against `architecture.md:363`: the net under a missed webhook
  skips users with a subscription id, which only that webhook clears.
- `subscription_service.py:427`: a second cancel within a day is a replay of the first.
- `amadeus/flights.py:461`: `create_flight_order` is under the same retry as the reads.
- `book`'s flight order and `delete_trip`: the collection of drafts and the deletion take
  the rows of intents whose money is held.

Queue

- `offline_write_queue.dart:113` against `cache-offline.md:135` ("succes complet ou
  conservee"): a mutation queued during a replay is overwritten when the replay saves.

Trips and content

- `sharing.md:174` against `trip_share_service.py:150-162`: what the quota counts.
- An expired invite hides itself from the list and blocks inviting the address again.
- A draft that was ever shared, or has an invite, blocks the collection of all drafts.
- `validationStatus` in a PATCH of a stay is dropped (`accommodations.md:132,159`); PATCH
  `/activities/batch` is shadowed by the route before it; an activity's own status is free
  text, and one that is neither suggested nor validated is spent, yet neither confirmed nor
  forecast; a negative total of activities is in no category; the budget alert reads a key (`percent_consumed`) that is not there and says 0 %,
  and only the budget routes raise it; a linked line loses its currency;
  `accept_budget_estimate` and travelers do not look for COMPLETED; 99.5 % complete is
  rounded up to 100.

Sessions

- A logout with an expired access token revokes the old refresh token and leaves the one
  just issued; a refresh that reaches the API after the logout is taken for reuse; a
  refresh that answers after a logout saves its tokens again.
- After `change_password`, the other devices' next refresh is a reuse and ends the session
  of the device that changed it.
- Any failure of a refresh, 429 included, signs the app out with its token live.
- `reset_password` revokes no session; `banned_at` and `deleted_at` are only displayed.
- The rate limiter's "fixed window" renews its expiry at each request.
- `delete_me` deletes the Stripe customer first, and fails on a pending invite sent.

Notifications and locks

- `distributed_lock.py:13-20` and `notifications.md:219` against line 92: a Redis lost
  after start-up raises outside the loop's `try`, and the job ends for good.
- "Guaranteed single-worker execution": not past the TTL, nor without Redis; a graceful
  shutdown releases the lock while the tick's thread goes on.
- `notification_job.py:35-37`: the TTL is two intervals, so a crashed holder costs the next
  tick, which the comment denies.
- The departure reminder is due for 24 hours and silenced for 20: it can come twice. The
  activity window compares UTC with the place's time, across midnight as well.
- A push to several devices counts as sent though all failed; a failing check skips the
  retries; a row the user deleted is sent again, or fails the batch's commit; the retry
  does not read the preferences; TRIP_ENDED may be sent twice.

Planner and breaker

- `circuit_breaker.py:106`, "exactly one probe": every caller goes through in HALF_OPEN; a
  late success closes an OPEN circuit; failures while OPEN renew the cooldown; exceptions
  outside the expected ones count as failures, a client's error as a success. So a status
  other than 400 and 404, made a 502 (`errors.py:32-33`), or a 200 that does not parse reopens
  the circuit in each half-open period though Amadeus is well.
- A 401 keeps the token in the cache until it expires by age.
- `integrations.md:312`, "Pas de circuit breaker", is out of date.
- `RemoteProtocolError` and invalid JSON from a model are neither retried nor passed on to
  the next model.
- A streamed plan is counted after "complete": a client that leaves has its draft
  uncounted. Ideas are guarded by the quota and never counted. A suggestion whose model
  failed is counted.
- `plan_draft_service.py:59-64` has the caller commit and the session never partially committed;
  `create_trip` commits its own trip, and the content has a commit of its own (line 92). An
  error is said over a whole draft, uncounted, when the row cannot be read again after the
  second commit (line 93) or its answer is lost (`trip_planner_service.py:186-188`).
- A count that fails is logged (`trip_planner_service.py:181-184`): the plan is had for nothing.
- `_trip_draft_from_dict` drops the cover's source and candidates; "complete" carries the
  draft before its scheduling; "±20% band" is 0.85 and 1.15; the budget estimate's flight
  branch has no origin and never runs; the feasibility pass moves nothing.

## 6. Plan

Each component a run checks has its theorems, and each safety property of a passing run is
one. What remains worth proving, in this order:

1. **The breaker**: that a circuit opens only on `FailureThreshold` failures and that a call
   under way is one of a caller that waits for it.
2. **`LeftoverExpires`** for any number of reads, when the first event comes within its period.
3. **`WithinQuota`** for more than two requests: a bound that grows with their number.
4. **Abstract specifications** of the queue (pending and applied mutations as two sets) and
   of a session (signed in or out, per device), with their refinements.

Modelling that remains worth doing: the post-trip suggester with the catalogue it
bootstraps; the lockout counter beside the rate limit.
