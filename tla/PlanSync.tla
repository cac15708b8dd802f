------------------------------ MODULE PlanSync ------------------------------
(***************************************************************************)
(* The Premium plan of one user: the users row (plan, stripe_subscription_id,*)
(* plan_expires_at) and what keeps it in step with the subscriptions at      *)
(* Stripe: the confirm, cancel and reactivate requests, the webhooks, the    *)
(* reconciliation made by every plan read, its Redis cache, and the hourly   *)
(* expiration job.                                                           *)
(*                                                                           *)
(* Requests and webhooks run to completion on the API's event loop and are   *)
(* one step each.  A plan read gives the loop up while a thread asks Stripe, *)
(* and the job runs in a thread of its own: both act later on the row they   *)
(* loaded.  Time is counted in billing periods.                              *)
(***************************************************************************)
EXTENDS Integers, Sequences

CONSTANTS
    Subs,            \* subscriptions, one per payment method the user pays with
    Readers,         \* requests that may read the plan at the same time
    Null,            \* SQL NULL
    MaxPeriods,      \* bound: billing periods
    MaxEvents,       \* bound: events beyond which cancel and reactivate stop
    MaxStray,        \* bound: the same when events are delivered in any order
    MaxAdminWrites   \* bound: plan changes made in the admin panel, when events are in order

ASSUME PlanConstantsOK ==
    /\ Null \notin Subs /\ MaxStray \in Nat
    /\ MaxPeriods \in Nat \ {0} /\ MaxEvents \in Nat /\ MaxAdminWrites \in Nat

VARIABLES
    plan, subId, expiry,  \* the users row; expiry 0 is NULL
    reading,              \* plan reads: what each loaded and what Stripe told it
    cache,                \* Redis: the snapshot of each subscription, Null if none
    job,                  \* the expiration job has selected the user
    sub,                  \* Stripe: each subscription
    offered,              \* subscriptions whose client_secret reached the app
    checkout,             \* Stripe: subscriptions with a Checkout page open
    keys,                 \* Stripe: idempotency keys of calls that took effect
    events,               \* Stripe: the events emitted, in order
    recorded,             \* stripe_events: indices of the events processed
    ordered,              \* Stripe delivers events in the order it emits them, or not
    disputed,             \* Stripe: a charge of the user has been disputed
    adminWrites,          \* plan changes made in the admin panel so far
    now                   \* billing periods gone by

rowVars    == <<plan, subId, expiry>>
stripeVars == <<sub, offered, checkout, events, ordered, disputed>>
vars == <<plan, subId, expiry, reading, cache, job, sub, offered, checkout, keys, events,
          recorded, ordered, disputed, adminWrites, now>>

Plan == {"FREE", "PREMIUM", "ADMIN"}

\* No price has a trial, so "trialing" does not occur.
ActiveStatus == {"active", "past_due"}
DeadStatus   == {"canceled", "unpaid", "incomplete_expired"}
SubStatus    == {"none", "incomplete"} \cup ActiveStatus \cup DeadStatus

Time == 0..(MaxPeriods + 2)

Snapshot == [status : SubStatus, end : Time]

EventType == {"created", "updated", "deleted", "invoice_paid", "invoice_failed", "dispute"}

IdleRead == [phase |-> "idle", sub |-> Null, expiry |-> 0, snap |-> Null]

TypeOK ==
    /\ plan \in Plan /\ subId \in Subs \cup {Null} /\ expiry \in Time
    /\ \A r \in Readers :
         \/ reading[r] = IdleRead
         \/ /\ reading[r].phase \in {"asked", "answered"}
            /\ reading[r].sub \in Subs /\ reading[r].expiry \in Time
            /\ reading[r].snap \in Snapshot \cup {Null}
    /\ cache \in [Subs -> Snapshot \cup {Null}]
    /\ job \in BOOLEAN /\ offered \subseteq Subs /\ checkout \subseteq Subs
    /\ sub \in [Subs -> [status : SubStatus, end : Time, ending : BOOLEAN]]
    /\ keys \subseteq [op : {"confirm", "cancel", "reactivate"}, sub : Subs]
    /\ events \in Seq([type : EventType, sub : Subs, status : SubStatus, end : Time])
    /\ recorded \subseteq DOMAIN events
    /\ ordered \in BOOLEAN /\ disputed \in BOOLEAN
    /\ adminWrites \in 0..MaxAdminWrites
    /\ now \in 0..(MaxPeriods + 1)

Init ==
    /\ plan = "FREE" /\ subId = Null /\ expiry = 0
    /\ reading = [r \in Readers |-> IdleRead]
    /\ cache = [s \in Subs |-> Null]
    /\ job = FALSE
    /\ sub = [s \in Subs |-> [status |-> "none", end |-> 0, ending |-> FALSE]]
    /\ offered = {} /\ checkout = {} /\ keys = {} /\ events = <<>> /\ recorded = {}
    /\ ordered \in BOOLEAN /\ disputed = FALSE /\ adminWrites = 0 /\ now = 0

-----------------------------------------------------------------------------
(* Stripe *)

Event(type, s) == [type |-> type, sub |-> s, status |-> sub'[s].status, end |-> sub'[s].end]

Emit(s, types) ==
    events' = events \o [n \in 1..Len(types) |-> Event(types[n], s)]

Becomes(s, status, end) == sub' = [sub EXCEPT ![s].status = status, ![s].end = end]

Due(s) == sub[s].status = "active" /\ sub[s].end <= now

\* The PaymentSheet finalises the payment; or 3DS fails and nobody tries again.
Pays(s) ==
    /\ sub[s].status = "incomplete" /\ s \in offered
    /\ Becomes(s, "active", sub[s].end) /\ Emit(s, <<"updated", "invoice_paid">>)

\* The user pays on the page; nothing has told the row of this subscription.
PaysOnPage(s) ==
    /\ s \in checkout /\ sub[s].status = "none" /\ now < MaxPeriods
    /\ Becomes(s, "active", now + 1) /\ Emit(s, <<"created", "updated", "invoice_paid">>)

GivesUp(s) ==
    /\ sub[s].status = "incomplete"
    /\ Becomes(s, "incomplete_expired", sub[s].end) /\ Emit(s, <<"updated">>)

\* The new period is paid, or its payment fails and Stripe starts retrying.
Renews(s) ==
    /\ Due(s) /\ ~sub[s].ending /\ sub[s].end < MaxPeriods
    /\ \/ Becomes(s, "active", sub[s].end + 1) /\ Emit(s, <<"updated", "invoice_paid">>)
       \/ Becomes(s, "past_due", sub[s].end + 1) /\ Emit(s, <<"updated", "invoice_failed">>)

DunningEnds(s) ==
    /\ sub[s].status = "past_due"
    /\ \/ Becomes(s, "active", sub[s].end) /\ Emit(s, <<"updated", "invoice_paid">>)
       \/ Becomes(s, "unpaid", sub[s].end) /\ Emit(s, <<"updated">>)
       \/ Becomes(s, "canceled", sub[s].end) /\ Emit(s, <<"deleted">>)

PeriodEnds(s) ==
    /\ Due(s) /\ sub[s].ending
    /\ Becomes(s, "canceled", sub[s].end) /\ Emit(s, <<"deleted">>)

\* (Bound: disputes, like the staff's changes, are explored with events in order; no
\* property speaks of the plan after one.)
Dispute(s) ==
    /\ ordered /\ sub[s].status \in ActiveStatus /\ ~disputed
    /\ disputed' = TRUE
    /\ UNCHANGED sub /\ Emit(s, <<"dispute">>)

Stripe ==
    /\ \E s \in Subs :
         \/ /\ Pays(s) \/ PaysOnPage(s) \/ GivesUp(s) \/ Renews(s) \/ DunningEnds(s) \/ PeriodEnds(s)
            /\ UNCHANGED disputed
         \/ Dispute(s)
    /\ UNCHANGED <<rowVars, reading, cache, job, offered, checkout, keys, recorded, ordered,
                   adminWrites, now>>

\* Stripe keeps an idempotency key for a day.
KeysExpire ==
    /\ keys # {} /\ keys' = {}
    /\ UNCHANGED <<rowVars, reading, cache, job, stripeVars, recorded, adminWrites, now>>

\* A period goes by: longer than a request, a job, a cache entry, a key or a page lives.
\* Stripe bills what is due, and expires what is not paid within a day, before the
\* next one does.
Tick ==
    /\ now <= MaxPeriods /\ \A s \in Subs : ~Due(s) /\ sub[s].status # "incomplete"
    /\ ~job /\ \A r \in Readers : reading[r] = IdleRead
    /\ now' = now + 1
    /\ keys' = {} /\ checkout' = {} /\ cache' = [s \in Subs |-> Null]
    /\ UNCHANGED <<rowVars, reading, job, sub, offered, events, ordered, disputed, recorded, adminWrites>>

-----------------------------------------------------------------------------
(* subscription_service.py *)

\* The page of the web fallback: no id is stored, and no key keeps a second one away.
CreateCheckoutSession(s) ==
    /\ plan = "FREE" /\ sub[s].status = "none" /\ s \notin checkout
    /\ checkout' = checkout \cup {s}
    /\ UNCHANGED <<rowVars, reading, cache, job, sub, offered, events, ordered, disputed, keys,
                   recorded, adminWrites, now>>

\* Mutant of Confirm: the id is left to the webhook to store.
ConfirmStoringNothing(s) ==
    /\ plan = "FREE"
    /\ \/ /\ sub[s].status = "none" /\ now < MaxPeriods
          /\ Becomes(s, "incomplete", now + 1) /\ Emit(s, <<"created">>)
          /\ keys' = keys \cup {[op |-> "confirm", sub |-> s]}
       \/ /\ [op |-> "confirm", sub |-> s] \in keys
          /\ UNCHANGED <<sub, events, keys>>
    /\ \/ subId' = subId /\ offered' = offered \cup {s}
       \/ UNCHANGED <<subId, offered>>
    /\ UNCHANGED <<plan, expiry, reading, cache, job, checkout, recorded, ordered, disputed,
                   adminWrites, now>>

\* One key per payment method: within a day the answer of the first call comes back.
\* The id is stored and the secret answered, or the request dies before.
Confirm(s) ==
    /\ plan = "FREE"
    /\ \/ /\ sub[s].status = "none" /\ now < MaxPeriods
          /\ Becomes(s, "incomplete", now + 1) /\ Emit(s, <<"created">>)
          /\ keys' = keys \cup {[op |-> "confirm", sub |-> s]}
       \/ /\ [op |-> "confirm", sub |-> s] \in keys
          /\ UNCHANGED <<sub, events, keys>>
    /\ \/ subId' = s /\ offered' = offered \cup {s}
       \/ UNCHANGED <<subId, offered>>
    /\ UNCHANGED <<plan, expiry, reading, cache, job, checkout, recorded, ordered, disputed,
                   adminWrites, now>>

\* One key per user: Stripe repeats its first answer and does nothing, for another
\* subscription it refuses.
Modify(op, ending) ==
    /\ subId # Null
    /\ \/ /\ \A k \in keys : k.op # op
          /\ sub[subId].status \in ActiveStatus \cup {"incomplete"}
          /\ Len(events) < IF ordered THEN MaxEvents ELSE MaxStray
          /\ sub' = [sub EXCEPT ![subId].ending = ending]
          /\ Emit(subId, <<"updated">>)
          /\ keys' = keys \cup {[op |-> op, sub |-> subId]}
       \/ /\ [op |-> op, sub |-> subId] \in keys
          /\ UNCHANGED <<sub, events, keys>>
    /\ UNCHANGED <<rowVars, reading, cache, job, offered, checkout, recorded, ordered, disputed,
                   adminWrites, now>>

Cancel == Modify("cancel", TRUE)
Reactivate == Modify("reactivate", FALSE)

\* In the billing portal the user cancels or resumes without the service's keys.
ChangesInPortal(s) ==
    /\ sub[s].status \in ActiveStatus
    /\ Len(events) < IF ordered THEN MaxEvents ELSE MaxStray
    /\ sub' = [sub EXCEPT ![s].ending = ~@] /\ Emit(s, <<"updated">>)
    /\ UNCHANGED <<rowVars, reading, cache, job, offered, checkout, keys, recorded, ordered,
                   disputed, adminWrites, now>>

-----------------------------------------------------------------------------
(* stripe_webhooks/handlers: each finds the user by customer, whatever the     *)
(* subscription the event is about.                                           *)

SetPlan(p) == plan' = IF plan = "ADMIN" THEN "ADMIN" ELSE p

\* Mutant of HandleCreated: the customer's id is stored for the subscription's.
HandleCreatedStoringCustomer(e) ==
    /\ e.type = "created"
    /\ SetPlan("PREMIUM") /\ subId' = "customer" /\ expiry' = e.end

HandleCreated(e) ==
    /\ e.type = "created"
    /\ SetPlan("PREMIUM") /\ subId' = e.sub /\ expiry' = e.end

\* Mutant of HandleUpdated: a subscription that was never paid is not a dead one.
HandleUpdatedButIncomplete(e) ==
    /\ e.type = "updated"
    /\ expiry' = e.end
    /\ IF e.status \in {"canceled", "unpaid"} THEN SetPlan("FREE") /\ subId' = Null
                                              ELSE UNCHANGED <<plan, subId>>

HandleUpdated(e) ==
    /\ e.type = "updated"
    /\ expiry' = e.end
    /\ IF e.status \in DeadStatus THEN SetPlan("FREE") /\ subId' = Null
                                  ELSE UNCHANGED <<plan, subId>>

HandleDeleted(e) ==
    /\ e.type = "deleted"
    /\ SetPlan("FREE") /\ subId' = Null /\ expiry' = 0

HandleInvoicePaid(e) ==
    /\ e.type = "invoice_paid"
    /\ SetPlan("PREMIUM") /\ expiry' = e.end
    /\ UNCHANGED subId

\* Mutant of HandleInvoiceFailed: the first failed payment already downgrades.
HandleInvoiceFailedAtOnce(e) ==
    /\ e.type = "invoice_failed"
    /\ SetPlan("FREE") /\ UNCHANGED <<subId, expiry>>

HandleInvoiceFailed(e) ==
    /\ e.type = "invoice_failed"
    /\ UNCHANGED rowVars

HandleDispute(e) ==
    /\ e.type = "dispute"
    /\ SetPlan("FREE")
    /\ expiry' = IF plan = "ADMIN" THEN expiry ELSE 0
    /\ UNCHANGED subId

\* process_event: an event is processed once; Stripe may keep its order or not.
Webhook ==
    \E n \in DOMAIN events \ recorded :
        LET e == events[n] IN
        /\ ordered => \A m \in 1..(n - 1) : m \in recorded
        /\ \/ HandleCreated(e) \/ HandleUpdated(e) \/ HandleDeleted(e)
           \/ HandleInvoicePaid(e) \/ HandleInvoiceFailed(e) \/ HandleDispute(e)
        /\ recorded' = recorded \cup {n}
        /\ UNCHANGED <<reading, cache, job, sub, offered, checkout, keys, events, ordered,
                       disputed, adminWrites, now>>

-----------------------------------------------------------------------------
(* plan_service.py: reconcile_plan_with_stripe *)

\* _apply_snapshot_to_user on a row loaded with this id and expiry, and plan FREE:
\* the ORM writes the columns that differ from what it loaded.
ApplySnapshot(snap, loadedExpiry) ==
    LET Written(value) == IF value # loadedExpiry THEN value ELSE expiry IN
    CASE snap.status \in ActiveStatus ->
           plan' = "PREMIUM" /\ expiry' = Written(snap.end) /\ UNCHANGED subId
      [] snap.status \in DeadStatus ->
           subId' = Null /\ expiry' = Written(0) /\ UNCHANGED plan
      [] OTHER -> UNCHANGED rowVars

Suspect == plan = "FREE" /\ subId # Null

ReadCached ==
    /\ Suspect /\ cache[subId] # Null
    /\ ApplySnapshot(cache[subId], expiry)
    /\ UNCHANGED <<reading, cache, job, stripeVars, keys, recorded, adminWrites, now>>

ReadStart(r) ==
    /\ Suspect /\ cache[subId] = Null
    /\ reading[r] = IdleRead
    /\ reading' = [reading EXCEPT ![r] = [phase |-> "asked", sub |-> subId,
                                          expiry |-> expiry, snap |-> Null]]
    /\ UNCHANGED <<rowVars, cache, job, stripeVars, keys, recorded, adminWrites, now>>

\* The thread's call: Stripe answers with what holds now, or fails (snap Null).
StripeAnswers(r) ==
    /\ reading[r].phase = "asked"
    /\ LET s == reading[r].sub IN
       \E snap \in {[status |-> sub[s].status, end |-> sub[s].end], Null} :
          reading' = [reading EXCEPT ![r].phase = "answered", ![r].snap = snap]
    /\ UNCHANGED <<rowVars, cache, job, stripeVars, keys, recorded, adminWrites, now>>

ReadFinish(r) ==
    /\ reading[r].phase = "answered"
    /\ reading' = [reading EXCEPT ![r] = IdleRead]
    /\ IF reading[r].snap = Null
       THEN UNCHANGED <<rowVars, cache>>
       ELSE /\ cache' = [cache EXCEPT ![reading[r].sub] = reading[r].snap]
            /\ ApplySnapshot(reading[r].snap, reading[r].expiry)
    /\ UNCHANGED <<job, stripeVars, keys, recorded, adminWrites, now>>

\* Sixty seconds later.
CacheExpires(s) ==
    /\ cache[s] # Null /\ cache' = [cache EXCEPT ![s] = Null]
    /\ UNCHANGED <<rowVars, reading, job, stripeVars, keys, recorded, adminWrites, now>>

-----------------------------------------------------------------------------
(* plan_expiration_job.py and the admin panel *)

\* Mutant of JobSelect: the filter on the expiry is taken the wrong way round.
JobSelectUnexpired ==
    /\ ~job /\ job' = TRUE
    /\ plan = "PREMIUM" /\ expiry # 0 /\ expiry > now /\ subId = Null
    /\ UNCHANGED <<rowVars, reading, cache, stripeVars, keys, recorded, adminWrites, now>>

JobSelect ==
    /\ ~job /\ job' = TRUE
    /\ plan = "PREMIUM" /\ expiry # 0 /\ expiry <= now /\ subId = Null
    /\ UNCHANGED <<rowVars, reading, cache, stripeVars, keys, recorded, adminWrites, now>>

JobCommit ==
    /\ job /\ job' = FALSE
    /\ plan' = "FREE" /\ expiry' = 0
    /\ UNCHANGED <<subId, reading, cache, stripeVars, keys, recorded, adminWrites, now>>

AdminSetsPlan(p) ==
    /\ ordered /\ adminWrites < MaxAdminWrites /\ adminWrites' = adminWrites + 1
    /\ plan' = p
    /\ UNCHANGED <<subId, expiry, reading, cache, job, stripeVars, keys, recorded, now>>

\* The staff edits the user: the plan, the expiry or both.
AdminUpdatesUser(p, e) ==
    /\ ordered /\ adminWrites < MaxAdminWrites /\ adminWrites' = adminWrites + 1
    /\ plan' = p /\ expiry' = e
    /\ UNCHANGED <<subId, reading, cache, job, stripeVars, keys, recorded, now>>

\* (Bound: a plan is given for one period.)
Staff == \E p \in Plan : AdminSetsPlan(p) \/ AdminUpdatesUser(p, now + 1)

-----------------------------------------------------------------------------
Request == \/ \E s \in Subs : Confirm(s) \/ CreateCheckoutSession(s) \/ ChangesInPortal(s)
           \/ Cancel \/ Reactivate

Read == \/ ReadCached
        \/ \E r \in Readers : ReadStart(r) \/ StripeAnswers(r) \/ ReadFinish(r)

JobStep == JobSelect \/ JobCommit

Next ==
    \/ Stripe \/ KeysExpire \/ Tick
    \/ Request \/ Webhook \/ Read \/ JobStep
    \/ \E s \in Subs : CacheExpires(s)
    \/ Staff

Spec == Init /\ [][Next]_vars

\* A thread's call returns and its coroutine is resumed; the job ticks every hour;
\* time passes (strongly: requests do not stop it).
\* Stripe retries an event until it is answered 200.
FairSpec ==
    /\ Spec
    /\ \A r \in Readers : WF_vars(StripeAnswers(r)) /\ WF_vars(ReadFinish(r))
    /\ WF_vars(JobStep) /\ WF_vars(Webhook)
    /\ SF_vars(Tick)

-----------------------------------------------------------------------------
Settled == recorded = DOMAIN events

\* Stripe's customer relations left the plan alone: no chargeback, no staff.
Undisturbed == ~disputed /\ adminWrites = 0

Live(s) == sub[s].status \in ActiveStatus \cup {"incomplete"}

AllDead == (\A s \in Subs : ~Live(s)) /\ events # <<>>

\* The handlers and the row know one subscription at a time: with a second one, an event
\* about the dead one takes the plan and the id of the living one.  The properties speak
\* of a user with one.
OneSub == \E s \in Subs : Subs = {s}

\* A user with one subscription who pays is PREMIUM once Stripe's events are in, in
\* whatever order, and whatever reads, cached snapshots, retried confirms and the job
\* do meanwhile; one who paid on the web's page, whose id only the first event stores, if
\* they come in order.
ServedWhilePaid ==
    OneSub /\ Settled /\ Undisturbed =>
        \A s \in Subs : sub[s].status \in ActiveStatus /\ (ordered \/ s \in offered)
                           => plan = "PREMIUM" /\ subId = s

\* No more than two plan reads of the user are in flight at once.
AtMostTwoReads == \A p, q, r \in Readers : p = q \/ q = r \/ p = r

\* A PREMIUM that outlives the subscription (a read put it back after the deletion was
\* processed) carries an expiry and no id: the expiration job can see it.  (With three
\* reads in flight at once, and Stripe's first event a whole period late, a read that
\* finds the subscription dead can still take away the expiry another one put back.)
LeftoverExpires ==
    OneSub /\ AtMostTwoReads /\ ordered /\ Settled /\ Undisturbed /\ AllDead /\ plan = "PREMIUM"
        => subId = Null /\ expiry # 0

\* PREMIUM ends when no subscription is left.  architecture.md promises it of the
\* expiration job alone ("filet de securite si un webhook a ete loupe"); with every
\* event delivered in order the webhooks and the job together ensure it.
PremiumEnds ==
    OneSub /\ ordered /\ AllDead /\ Undisturbed ~> plan # "PREMIUM" \/ ~AllDead \/ ~Undisturbed

\* "reconcile_plan_with_stripe removes that class of bug" (a paid user seen as FREE):
\* a user who has paid for the current period and looks FREE has the subscription id
\* the reconciliation needs to find out.  (One who paid on the page of the web fallback
\* has to wait for the webhook.)
PaidUserHealed ==
    OneSub /\ Undisturbed =>
        \A s \in offered : sub[s].status = "active" /\ sub[s].end > now /\ plan = "FREE"
                       => subId # Null

=============================================================================
