--------------------------- MODULE BookingPayment ---------------------------
(***************************************************************************)
(* The flight booking and payment flow of the API: a BookingIntent row, the *)
(* manual-capture PaymentIntent behind it at Stripe, the Amadeus order, the *)
(* request handlers that move them, Stripe's webhooks and the daily job     *)
(* that cancels stale authorizations.                                       *)
(*                                                                          *)
(* A handler is a request in `running`: it reads the row, calls Stripe and  *)
(* commits in separate steps, and it holds its worker's event loop for all  *)
(* of them (the handlers are synchronous inside `async def`).  Only `book`  *)
(* gives the loop up, while it awaits Amadeus: it is then in `suspended`.   *)
(* The job runs in a thread of its own.  A commit writes what the handler   *)
(* decided from the row it read, whatever the row holds by then.            *)
(***************************************************************************)
EXTENDS Integers, FiniteSets

CONSTANTS
    Intents,       \* booking intents
    Workers,       \* API worker processes, each with one event loop
    Amount,        \* what every intent costs, in indivisible units
    Production,    \* settings.NODE_ENV == "production"
    OperatorActs,  \* staff also act on the payment in Stripe's dashboard
    Attempts,      \* times the Amadeus client sends one order, stop_after_attempt(3)
    MaxDeclines,   \* bound: card attempts declined per intent
    MaxFaults      \* bound: crashed workers and refused commits

ASSUME ConstantsOK ==
    /\ IsFiniteSet(Workers) /\ Amount \in Nat \ {0}
    /\ Production \in BOOLEAN /\ OperatorActs \in BOOLEAN
    /\ Attempts \in Nat \ {0} /\ MaxDeclines \in Nat /\ MaxFaults \in Nat

VARIABLES
    status,     \* BookingIntent.status; "ABSENT" before the row exists
    hasPI,      \* intents whose row stores a stripe_payment_intent_id
    hasCharge,  \* intents whose row stores a stripe_charge_id
    ticketed,   \* intents with a CONFIRMED FlightOrder row (unique per intent)
    overdue,    \* intents created more than six days ago
    recorded,   \* stripe_events rows
    running,    \* requests that hold an event loop
    suspended,  \* `book` coroutines awaiting Amadeus
    job,        \* the zombie job: rows selected, rows still to cancel at Stripe
    pi,         \* Stripe: state of the PaymentIntent
    refunded,   \* Stripe: amount refunded on the charge
    keys,       \* Stripe: idempotency keys of calls that took effect
    sent,       \* Stripe: events emitted, to be delivered at least once
    orders,     \* Amadeus: orders placed for the intent
    faults      \* crashes and refused commits so far

rowVars    == <<status, hasPI, hasCharge, ticketed, overdue>>
moneyVars  == <<pi, refunded, keys, sent>>
vars == <<status, hasPI, hasCharge, ticketed, overdue, recorded, running,
          suspended, job, pi, refunded, keys, sent, orders, faults>>

Status == {"ABSENT", "INIT", "AUTHORIZED", "BOOKING_PENDING", "BOOKED",
           "CAPTURED", "FAILED", "CANCELLED", "REFUNDED"}

PiState == {"none", "requires_payment_method", "requires_capture",
            "succeeded", "canceled"}

EventType == {"amount_capturable_updated", "succeeded", "canceled",
              "payment_failed", "refunded"}

\* `n` tells apart events of one type: which decline, or the refunded total.
Event == [type : EventType, intent : Intents, n : Nat]

Call == {"authorize", "capture", "cancel", "refund", "confirm_test", "book"}

\* `seen` is the status the handler loaded; `amount` the refund asked for (0:
\* the whole remainder) or an event's n; `already` the refunded total read.
Request == [worker : Workers, op : Call \cup EventType,
            step : {"call", "commit", "record", "done", "fail", "insert", "apply"},
            intent : Intents, seen : Status, amount : Nat, already : 0..Amount]

Coroutine == [worker : Workers, intent : Intents,
              result : {"none", "order", "failed"}]

Key == [op : {"capture", "refund"}, intent : Intents, amount : Nat,
        already : Nat, whole : BOOLEAN]

NoJob == [picked |-> {}, todo |-> {}]

TypeOK ==
    /\ status \in [Intents -> Status]
    /\ hasPI \subseteq Intents /\ hasCharge \subseteq Intents
    /\ ticketed \subseteq Intents /\ overdue \subseteq Intents
    /\ recorded \subseteq Event
    /\ running \subseteq Request
    /\ suspended \subseteq Coroutine
    /\ job \in [picked : SUBSET Intents, todo : SUBSET Intents]
    /\ pi \in [Intents -> PiState]
    /\ refunded \in [Intents -> 0..Amount]
    /\ keys \subseteq Key
    /\ sent \subseteq Event
    /\ orders \in [Intents -> Nat]
    /\ faults \in 0..MaxFaults

Init ==
    /\ status = [i \in Intents |-> "ABSENT"]
    /\ hasPI = {} /\ hasCharge = {} /\ ticketed = {} /\ overdue = {}
    /\ recorded = {} /\ running = {} /\ suspended = {} /\ job = NoJob
    /\ pi = [i \in Intents |-> "none"]
    /\ refunded = [i \in Intents |-> 0]
    /\ keys = {} /\ sent = {}
    /\ orders = [i \in Intents |-> 0]
    /\ faults = 0

-----------------------------------------------------------------------------
(* Requests, rows and Stripe's answers. *)

Idle(w) == \A r \in running : r.worker # w

Begin(w, op, step, i, amount, already) ==
    /\ Idle(w)
    /\ running' = running \cup
         {[worker |-> w, op |-> op, step |-> step, intent |-> i,
           seen |-> status[i], amount |-> amount, already |-> already]}

At(r, op, step) == r \in running /\ r.op = op /\ r.step = step

End(r) == running' = running \ {r}

Advance(r, step) == running' = (running \ {r}) \cup {[r EXCEPT !.step = step]}

SetStatus(i, s) == status' = [status EXCEPT ![i] = s]

\* The ORM emits an UPDATE only when the value differs from the one it loaded.
SetWhen(r, from, to) ==
    status' = IF r.seen \in from \ {to} THEN [status EXCEPT ![r.intent] = to]
                                        ELSE status

\* Stripe did what was asked; its answer arrives, or is lost and StripeError raised.
Answered(r) == Advance(r, "commit") \/ End(r)

Emit(type, i, n) == sent' = sent \cup {[type |-> type, intent |-> i, n |-> n]}

\* Stripe cancels a PaymentIntent that is neither captured nor cancelled.
StripeCancels(i) ==
    /\ pi[i] \in {"requires_payment_method", "requires_capture"}
    /\ pi' = [pi EXCEPT ![i] = "canceled"]
    /\ Emit("canceled", i, 0)

StripeCaptures(i) ==
    /\ pi[i] = "requires_capture"
    /\ pi' = [pi EXCEPT ![i] = "succeeded"]
    /\ Emit("succeeded", i, 0)

StripeRefunds(i, n) ==
    /\ pi[i] = "succeeded"
    /\ n > 0 /\ refunded[i] + n <= Amount
    /\ refunded' = [refunded EXCEPT ![i] = @ + n]
    /\ Emit("refunded", i, refunded[i] + n)

StripeAuthorizes(i) ==
    /\ pi[i] = "requires_payment_method"
    /\ pi' = [pi EXCEPT ![i] = "requires_capture"]
    /\ Emit("amount_capturable_updated", i, 0)

\* A call that never reached Stripe, or that Stripe refused: 502, no change.
CallFails(r) ==
    /\ r \in running /\ r.step = "call" /\ r.op # "cancel"
    /\ End(r)
    /\ UNCHANGED <<rowVars, recorded, suspended, job, moneyVars, orders, faults>>

-----------------------------------------------------------------------------
(* booking_intents_service.py and stripe_payments_service.py *)

CreateIntent(i) ==
    /\ status[i] = "ABSENT"
    /\ SetStatus(i, "INIT")
    /\ UNCHANGED <<hasPI, hasCharge, ticketed, overdue, recorded, running,
                   suspended, job, moneyVars, orders, faults>>

AuthorizeStart(w, i) ==
    /\ status[i] = "INIT"
    /\ Begin(w, "authorize", "call", i, 0, 0)
    /\ UNCHANGED <<rowVars, recorded, suspended, job, moneyVars, orders, faults>>

\* The stable key makes a repeated call return the PaymentIntent already created.
AuthorizeCall(r) ==
    /\ At(r, "authorize", "call")
    /\ pi' = [pi EXCEPT ![r.intent] =
                IF @ = "none" THEN "requires_payment_method" ELSE @]
    /\ Answered(r)
    /\ UNCHANGED <<rowVars, recorded, suspended, job, refunded, keys, sent,
                   orders, faults>>

AuthorizeCommit(r) ==
    /\ At(r, "authorize", "commit")
    /\ hasPI' = hasPI \cup {r.intent}
    /\ End(r)
    /\ UNCHANGED <<status, hasCharge, ticketed, overdue, recorded, suspended,
                   job, moneyVars, orders, faults>>

\* Mutants of Capturable: the QA escape hatch left open in production; a booking
\* still in progress accepted.
CapturableInQA == {"BOOKED", "AUTHORIZED"}
CapturableWhilePending == {"BOOKED", "BOOKING_PENDING"}

Capturable == {"BOOKED"} \cup (IF Production THEN {} ELSE {"AUTHORIZED"})

CaptureStart(w, i) ==
    /\ status[i] \in Capturable
    /\ i \in hasPI
    /\ Begin(w, "capture", "call", i, 0, 0)
    /\ UNCHANGED <<rowVars, recorded, suspended, job, moneyVars, orders, faults>>

CaptureKey(i) == [op |-> "capture", intent |-> i, amount |-> 0,
                  already |-> 0, whole |-> TRUE]

CaptureCall(r) ==
    /\ At(r, "capture", "call")
    /\ \/ /\ StripeCaptures(r.intent)
          /\ keys' = keys \cup {CaptureKey(r.intent)}
          /\ Answered(r)
       \/ /\ CaptureKey(r.intent) \in keys
          /\ Advance(r, "commit")
          /\ UNCHANGED <<pi, sent, keys>>
    /\ UNCHANGED <<rowVars, recorded, suspended, job, refunded, orders, faults>>

CaptureCommit(r) ==
    /\ At(r, "capture", "commit")
    /\ SetStatus(r.intent, "CAPTURED")
    /\ hasCharge' = hasCharge \cup {r.intent}
    /\ End(r)
    /\ UNCHANGED <<hasPI, ticketed, overdue, recorded, suspended, job,
                   moneyVars, orders, faults>>

CancelStart(w, i) ==
    /\ status[i] \notin {"ABSENT", "CAPTURED"}
    /\ Begin(w, "cancel", IF i \in hasPI THEN "call" ELSE "commit", i, 0, 0)
    /\ UNCHANGED <<rowVars, recorded, suspended, job, moneyVars, orders, faults>>

\* StripeError is suppressed: whatever Stripe says, the commit follows.
CancelCall(r) ==
    /\ At(r, "cancel", "call")
    /\ StripeCancels(r.intent) \/ UNCHANGED <<pi, sent>>
    /\ Advance(r, "commit")
    /\ UNCHANGED <<rowVars, recorded, suspended, job, refunded, keys, orders,
                   faults>>

CancelCommit(r) ==
    /\ At(r, "cancel", "commit")
    /\ SetWhen(r, Status, "CANCELLED")
    /\ End(r)
    /\ UNCHANGED <<hasPI, hasCharge, ticketed, overdue, recorded, suspended,
                   job, moneyVars, orders, faults>>

\* Row and charge are read together: a refund slipped between the two reads
\* has the effect of one before both, or makes the remainder 0.
RefundStart(w, i, amount) ==
    /\ status[i] = "CAPTURED" /\ i \in hasCharge
    /\ refunded[i] < Amount
    /\ amount <= Amount - refunded[i]
    /\ Begin(w, "refund", "call", i, amount, refunded[i])
    /\ UNCHANGED <<rowVars, recorded, suspended, job, moneyVars, orders, faults>>

\* `amount or remaining`, with the remainder as it was read.
Asked(r) == IF r.amount = 0 THEN Amount - r.already ELSE r.amount

\* Mutant of RefundKey: the amount alone makes the key.
RefundKeyByAmount(r) == [op |-> "refund", intent |-> r.intent, amount |-> Asked(r),
                         already |-> 0, whole |-> r.amount = 0]

RefundKey(r) == [op |-> "refund", intent |-> r.intent, amount |-> Asked(r),
                 already |-> r.already, whole |-> r.amount = 0]

\* One key with other parameters (an amount where there was none): Stripe refuses.
RefundCall(r) ==
    /\ At(r, "refund", "call")
    /\ \/ /\ RefundKey(r) \in keys
          /\ Advance(r, "commit")
          /\ UNCHANGED <<refunded, sent, keys>>
       \/ /\ \A whole \in BOOLEAN : [RefundKey(r) EXCEPT !.whole = whole] \notin keys
          /\ StripeRefunds(r.intent, IF r.amount = 0 THEN Amount - refunded[r.intent]
                                                     ELSE r.amount)
          /\ keys' = keys \cup {RefundKey(r)}
          /\ Answered(r)
    /\ UNCHANGED <<rowVars, recorded, suspended, job, pi, orders, faults>>

RefundCommit(r) ==
    /\ At(r, "refund", "commit")
    /\ IF r.already + Asked(r) >= Amount THEN SetStatus(r.intent, "REFUNDED")
                                         ELSE UNCHANGED status
    /\ End(r)
    /\ UNCHANGED <<hasPI, hasCharge, ticketed, overdue, recorded, suspended,
                   job, moneyVars, orders, faults>>

ConfirmTestStart(w, i) ==
    /\ ~Production
    /\ i \in hasPI
    /\ Begin(w, "confirm_test", "call", i, 0, 0)
    /\ UNCHANGED <<rowVars, recorded, suspended, job, moneyVars, orders, faults>>

ConfirmTestCall(r) ==
    /\ At(r, "confirm_test", "call")
    /\ StripeAuthorizes(r.intent)
    /\ Answered(r)
    /\ UNCHANGED <<rowVars, recorded, suspended, job, refunded, keys, orders,
                   faults>>

ConfirmTestCommit(r) ==
    /\ At(r, "confirm_test", "commit")
    /\ SetWhen(r, Status, "AUTHORIZED")
    /\ End(r)
    /\ UNCHANGED <<hasPI, hasCharge, ticketed, overdue, recorded, suspended,
                   job, moneyVars, orders, faults>>

-----------------------------------------------------------------------------
(* booking_orchestrator_service.py *)

\* Mutant of BookStart: a failed booking may be tried again.
BookStartAgain(w, i) ==
    /\ status[i] \in {"AUTHORIZED", "FAILED"}
    /\ Begin(w, "book", "commit", i, 0, 0)
    /\ UNCHANGED <<rowVars, recorded, suspended, job, moneyVars, orders, faults>>

\* Bound: a worker keeps one suspended booking per intent (in production it
\* never has two, AUTHORIZED being left for good by the first).
BookStart(w, i) ==
    /\ status[i] = "AUTHORIZED"
    /\ \A c \in suspended : c.worker # w \/ c.intent # i
    /\ Begin(w, "book", "commit", i, 0, 0)
    /\ UNCHANGED <<rowVars, recorded, suspended, job, moneyVars, orders, faults>>

\* The offer and the travelers are then loaded: Amadeus is called, or one is missing.
BookPend(r) ==
    /\ At(r, "book", "commit")
    /\ SetStatus(r.intent, "BOOKING_PENDING")
    /\ \/ /\ End(r)
          /\ suspended' = suspended \cup {[worker |-> r.worker, intent |-> r.intent,
                                           result |-> "none"]}
       \/ Advance(r, "fail") /\ UNCHANGED suspended
    /\ UNCHANGED <<hasPI, hasCharge, ticketed, overdue, recorded, job,
                   moneyVars, orders, faults>>

Resolve(c, result) ==
    suspended' = (suspended \ {c}) \cup {[c EXCEPT !.result = result]}

\* Amadeus refuses, or places the order and says so; each answer may be lost.  After a
\* lost answer, 429, 502 or 503 amadeus_retry sends it again, with no key to deduplicate.
AmadeusAnswers(c) ==
    /\ c \in suspended /\ c.result = "none"
    /\ \E placed \in 0..Attempts :
          /\ Resolve(c, "failed") \/ (placed > 0 /\ Resolve(c, "order"))
          /\ orders' = [orders EXCEPT ![c.intent] = @ + placed]
    /\ UNCHANGED <<rowVars, recorded, running, job, moneyVars, faults>>

BookResume(c) ==
    /\ c \in suspended /\ c.result # "none"
    /\ suspended' = suspended \ {c}
    /\ Begin(c.worker, "book", IF c.result = "order" THEN "record" ELSE "fail",
             c.intent, 0, 0)
    /\ UNCHANGED <<rowVars, recorded, job, moneyVars, orders, faults>>

\* One unit of work; booking_intent_id is unique in flight_orders.
BookRecord(r) ==
    /\ At(r, "book", "record")
    /\ \/ /\ r.intent \notin ticketed
          /\ ticketed' = ticketed \cup {r.intent}
          /\ Advance(r, "done")
       \/ UNCHANGED ticketed /\ Advance(r, "fail")
    /\ UNCHANGED <<status, hasPI, hasCharge, overdue, recorded, suspended, job,
                   moneyVars, orders, faults>>

BookDone(r) ==
    /\ At(r, "book", "done")
    /\ \/ SetStatus(r.intent, "BOOKED") /\ End(r)
       \/ UNCHANGED status /\ Advance(r, "fail")
    /\ UNCHANGED <<hasPI, hasCharge, ticketed, overdue, recorded, suspended,
                   job, moneyVars, orders, faults>>

\* Mutant of BookFail: the rollback is not followed by the FAILED write.
BookFailRollbackOnly(r) ==
    /\ At(r, "book", "fail")
    /\ End(r)
    /\ UNCHANGED <<rowVars, recorded, suspended, job, moneyVars, orders, faults>>

BookFail(r) ==
    /\ At(r, "book", "fail")
    /\ SetStatus(r.intent, "FAILED")
    /\ End(r)
    /\ UNCHANGED <<hasPI, hasCharge, ticketed, overdue, recorded, suspended,
                   job, moneyVars, orders, faults>>

-----------------------------------------------------------------------------
(* stripe_webhooks: process_event and its handlers *)

EventOf(r) == [type |-> r.op, intent |-> r.intent, n |-> r.amount]

\* No row with this id yet; one already recorded is answered 200 and changes nothing.
WebhookStart(w, e) ==
    /\ e \in sent /\ e \notin recorded
    /\ Begin(w, e.type, "insert", e.intent, e.n, 0)
    /\ UNCHANGED <<rowVars, recorded, suspended, job, moneyVars, orders, faults>>

\* What the handler's query finds: charge.refunded looks the intent up by charge.
Loaded(r) == IF r.op = "refunded" /\ r.intent \notin hasCharge THEN "ABSENT"
                                                               ELSE status[r.intent]

\* Mutant of WebhookInsert: no unique constraint on stripe_event_id.
WebhookInsertUnchecked(r) ==
    /\ r \in running /\ r.step = "insert"
    /\ running' = (running \ {r}) \cup {[r EXCEPT !.step = "apply", !.seen = Loaded(r)]}
    /\ UNCHANGED <<rowVars, recorded, suspended, job, moneyVars, orders, faults>>

\* flush(): a concurrent insert of the same id waits for the other transaction.
WebhookInsert(r) ==
    /\ r \in running /\ r.step = "insert"
    /\ EventOf(r) \notin recorded
    /\ \A q \in running : q.step = "apply" => EventOf(q) # EventOf(r)
    /\ running' = (running \ {r}) \cup {[r EXCEPT !.step = "apply", !.seen = Loaded(r)]}
    /\ UNCHANGED <<rowVars, recorded, suspended, job, moneyVars, orders, faults>>

\* The unique constraint fails the flush: 500.
WebhookDuplicate(r) ==
    /\ r \in running /\ r.step = "insert"
    /\ EventOf(r) \in recorded
    /\ End(r)
    /\ UNCHANGED <<rowVars, recorded, suspended, job, moneyVars, orders, faults>>

HandleAmountCapturableUpdated(r) ==
    /\ r.op = "amount_capturable_updated"
    /\ SetWhen(r, {"INIT"}, "AUTHORIZED")
    /\ UNCHANGED hasCharge

\* Mutant of HandleSucceeded: the event is taken for the last word on the status.
HandleSucceededAlways(r) ==
    /\ r.op = "succeeded"
    /\ SetWhen(r, Status, "CAPTURED")
    /\ hasCharge' = hasCharge \cup {r.intent}

HandleSucceeded(r) ==
    /\ r.op = "succeeded"
    /\ SetWhen(r, {"BOOKED", "AUTHORIZED"}, "CAPTURED")
    /\ hasCharge' = IF r.seen \in {"BOOKED", "AUTHORIZED"}
                    THEN hasCharge \cup {r.intent} ELSE hasCharge

HandleCanceled(r) ==
    /\ r.op = "canceled"
    /\ SetWhen(r, Status \ {"CAPTURED"}, "CANCELLED")
    /\ UNCHANGED hasCharge

\* Mutant of HandlePaymentFailed: the enum value no code writes.
HandlePaymentFailedAsCapture(r) ==
    /\ r.op = "payment_failed"
    /\ SetWhen(r, Status, "PAYMENT_CAPTURE_FAILED")
    /\ UNCHANGED hasCharge

HandlePaymentFailed(r) ==
    /\ r.op = "payment_failed"
    /\ SetWhen(r, Status, "FAILED")
    /\ UNCHANGED hasCharge

\* Mutant of HandleRefunded: a partial refund counts as a full one.
HandleRefundedPartly(r) ==
    /\ r.op = "refunded"
    /\ SetWhen(r, {"CAPTURED"}, "REFUNDED")
    /\ UNCHANGED hasCharge

HandleRefunded(r) ==
    /\ r.op = "refunded"
    /\ SetWhen(r, IF r.amount >= Amount THEN {"CAPTURED"} ELSE {}, "REFUNDED")
    /\ UNCHANGED hasCharge

\* The event row and what its handler did commit together.
WebhookApply(r) ==
    /\ r \in running /\ r.step = "apply"
    /\ \/ HandleAmountCapturableUpdated(r) \/ HandleSucceeded(r)
       \/ HandleCanceled(r) \/ HandlePaymentFailed(r) \/ HandleRefunded(r)
    /\ recorded' = recorded \cup {EventOf(r)}
    /\ End(r)
    /\ UNCHANGED <<hasPI, ticketed, overdue, suspended, job, moneyVars, orders,
                   faults>>

-----------------------------------------------------------------------------
(* zombie_payment_intents_job.py: one session, one commit at the end *)

\* Mutant of ZombieSelect: the query filters on stripe_charge_id.
ZombieSelectCharged ==
    LET stale == {i \in overdue \cap hasCharge : status[i] = "AUTHORIZED"} IN
    /\ job.picked = {} /\ stale # {}
    /\ job' = [picked |-> stale, todo |-> stale]
    /\ UNCHANGED <<rowVars, recorded, running, suspended, moneyVars, orders, faults>>

ZombieSelect ==
    LET stale == {i \in overdue \cap hasPI : status[i] = "AUTHORIZED"} IN
    /\ job.picked = {} /\ stale # {}
    /\ job' = [picked |-> stale, todo |-> stale]
    /\ UNCHANGED <<rowVars, recorded, running, suspended, moneyVars, orders, faults>>

\* Mutant of ZombieCancel: StripeError escapes and ends the tick.
ZombieCancelStrict(i) ==
    /\ i \in job.todo
    /\ \/ StripeCancels(i) /\ job' = [job EXCEPT !.todo = @ \ {i}]
       \/ UNCHANGED <<pi, sent>> /\ job' = NoJob
    /\ UNCHANGED <<rowVars, recorded, running, suspended, refunded, keys,
                   orders, faults>>

ZombieCancel(i) ==
    /\ i \in job.todo
    /\ StripeCancels(i) \/ UNCHANGED <<pi, sent>>
    /\ job' = [job EXCEPT !.todo = @ \ {i}]
    /\ UNCHANGED <<rowVars, recorded, running, suspended, refunded, keys,
                   orders, faults>>

ZombieCommit ==
    /\ job.picked # {} /\ job.todo = {}
    /\ status' = [i \in Intents |-> IF i \in job.picked THEN "CANCELLED" ELSE status[i]]
    /\ job' = NoJob
    /\ UNCHANGED <<hasPI, hasCharge, ticketed, overdue, recorded, running,
                   suspended, moneyVars, orders, faults>>

-----------------------------------------------------------------------------
(* The surroundings: the customer's card, Stripe, its dashboard, time, faults. *)

\* The client holds the client_secret once AuthorizeCommit has answered.
CardApproved(i) ==
    /\ i \in hasPI
    /\ StripeAuthorizes(i)
    /\ UNCHANGED <<rowVars, recorded, running, suspended, job, refunded, keys,
                   orders, faults>>

Declines(i) == {e \in sent : e.type = "payment_failed" /\ e.intent = i}

CardDeclined(i) ==
    /\ i \in hasPI /\ pi[i] = "requires_payment_method"
    /\ \E n \in 1..MaxDeclines :
         /\ \A e \in Declines(i) : e.n < n
         /\ Emit("payment_failed", i, n)
    /\ UNCHANGED <<rowVars, recorded, running, suspended, job, pi, refunded,
                   keys, orders, faults>>

\* Stripe cancels an authorization nobody captured for seven days.
StripeExpires(i) ==
    /\ i \in overdue /\ pi[i] = "requires_capture"
    /\ StripeCancels(i)
    /\ UNCHANGED <<rowVars, recorded, running, suspended, job, refunded, keys,
                   orders, faults>>

Operator(i) ==
    /\ OperatorActs
    /\ \/ StripeCaptures(i) /\ UNCHANGED refunded
       \/ StripeCancels(i) /\ UNCHANGED refunded
       \/ \E n \in 1..Amount : StripeRefunds(i, n) /\ UNCHANGED pi
    /\ UNCHANGED <<rowVars, recorded, running, suspended, job, keys, orders,
                   faults>>

GrowsOld(i) ==
    /\ status[i] # "ABSENT" /\ i \notin overdue
    /\ overdue' = overdue \cup {i}
    /\ UNCHANGED <<status, hasPI, hasCharge, ticketed, recorded, running,
                   suspended, job, moneyVars, orders, faults>>

\* A handler's commit is refused: its transaction is rolled back, the caller gets 500.
Abort(r) ==
    /\ r \in running /\ faults < MaxFaults
    /\ faults' = faults + 1
    /\ End(r)
    /\ UNCHANGED <<rowVars, recorded, suspended, job, moneyVars, orders>>

\* A process dies, with the job when it ran there; an order in flight may still be placed.
Crash(w) ==
    /\ faults < MaxFaults
    /\ faults' = faults + 1
    /\ running' = {r \in running : r.worker # w}
    /\ suspended' = {c \in suspended : c.worker # w}
    /\ job' \in {job, NoJob}
    /\ \E placed \in SUBSET {c \in suspended : c.worker = w /\ c.result = "none"} :
         orders' = [i \in Intents |->
                      IF \E c \in placed : c.intent = i THEN orders[i] + 1 ELSE orders[i]]
    /\ UNCHANGED <<rowVars, recorded, moneyVars>>

-----------------------------------------------------------------------------
PaymentStep(r) ==
    \/ CallFails(r)
    \/ AuthorizeCall(r) \/ AuthorizeCommit(r)
    \/ CaptureCall(r) \/ CaptureCommit(r)
    \/ CancelCall(r) \/ CancelCommit(r)
    \/ RefundCall(r) \/ RefundCommit(r)
    \/ ConfirmTestCall(r) \/ ConfirmTestCommit(r)

BookStep(r) == BookPend(r) \/ BookRecord(r) \/ BookDone(r) \/ BookFail(r)

WebhookStep(r) == WebhookInsert(r) \/ WebhookDuplicate(r) \/ WebhookApply(r)

RequestStep(w) ==
    \E r \in running : r.worker = w /\ (PaymentStep(r) \/ BookStep(r) \/ WebhookStep(r))

Arrival(w) ==
    \/ \E i \in Intents :
         \/ AuthorizeStart(w, i) \/ CaptureStart(w, i) \/ CancelStart(w, i)
         \/ ConfirmTestStart(w, i) \/ BookStart(w, i)
         \/ \E amount \in 0..Amount : RefundStart(w, i, amount)
    \/ \E e \in sent : WebhookStart(w, e)

JobStep == ZombieSelect \/ (\E i \in Intents : ZombieCancel(i)) \/ ZombieCommit

Surroundings ==
    \/ \E i \in Intents : \/ CreateIntent(i)
                          \/ CardApproved(i) \/ CardDeclined(i)
                          \/ StripeExpires(i) \/ Operator(i) \/ GrowsOld(i)
    \/ \E r \in running : Abort(r)
    \/ \E w \in Workers : Crash(w)

Next ==
    \/ \E w \in Workers : Arrival(w) \/ RequestStep(w)
    \/ \E c \in suspended : AmadeusAnswers(c) \/ BookResume(c)
    \/ JobStep
    \/ Surroundings

Spec == Init /\ [][Next]_vars

\* asyncio runs a started handler to its end and resumes every awaited answer
\* (strongly: other requests take the loop in between); the Amadeus client has a
\* timeout; the job ticks every day; days pass.  Nobody has to send a request.
Fairness ==
    /\ \A w \in Workers : WF_vars(RequestStep(w))
    /\ \A w \in Workers :
         SF_vars(\E c \in suspended : c.worker = w /\ BookResume(c))
    /\ WF_vars(\E c \in suspended : AmadeusAnswers(c))
    /\ WF_vars(JobStep)
    /\ \A i \in Intents : WF_vars(GrowsOld(i))

FairSpec == Spec /\ Fairness

-----------------------------------------------------------------------------
(* What the flow guarantees. *)

\* What the API shows is backed by the other side, whatever was lost, repeated or
\* overtaken on the way: CAPTURED (and a stored charge) by a capture at Stripe,
\* REFUNDED by a refund of the whole amount, BOOKED by a flight order row.
StatusIsBacked ==
    \A i \in Intents :
        /\ status[i] = "CAPTURED" \/ i \in hasCharge => pi[i] = "succeeded"
        /\ status[i] = "REFUNDED" => refunded[i] = Amount
        /\ status[i] = "BOOKED" => i \in ticketed

\* In production the API itself never takes a customer's money for a flight it has
\* not ordered: capture_payment demands BOOKED, and staff leave the payment alone.
TicketBeforeCharge ==
    Production /\ ~OperatorActs =>
        \A i \in Intents : pi[i] = "succeeded" => i \in ticketed

\* What a request, a replayed key and an event in flight may claim about the other
\* side, however old the claim: that is why a late commit or event can be trusted.
RequestBacked(r) ==
    /\ r.op = "capture" /\ r.step = "commit" => pi[r.intent] = "succeeded"
    /\ r.op = "capture" /\ Production /\ ~OperatorActs => r.intent \in ticketed
    /\ r.op = "refund" => r.already <= refunded[r.intent]
    /\ r.op = "refund" /\ r.step = "commit" => r.already + Asked(r) <= refunded[r.intent]
    /\ r.op = "book" /\ r.step = "done" => r.intent \in ticketed
    /\ r.op \in EventType => EventOf(r) \in sent

KeyBacked(k) ==
    /\ k.op = "capture" => pi[k.intent] = "succeeded"
    /\ k.op = "refund" => k.already + k.amount <= refunded[k.intent]

EventBacked(e) ==
    /\ e.type = "succeeded" => pi[e.intent] = "succeeded"
    /\ e.type = "refunded" => e.n <= refunded[e.intent]

ClaimsAreBacked ==
    /\ \A r \in running : RequestBacked(r)
    /\ \A k \in keys : KeyBacked(k)
    /\ \A e \in sent : EventBacked(e)

\* With one worker (the Dockerfile's uvicorn) in production, no second `book` orders at
\* Amadeus what an earlier one ordered, whatever is cancelled, declined or retried around
\* it.  (The Amadeus client itself may repeat an order within one call.)
OneBookOrders ==
    [][Production /\ Cardinality(Workers) = 1 =>
          \A i \in Intents : orders'[i] # orders[i] => orders[i] = 0]_vars

\* With one worker and no dashboard, a fully refunded charge whose charge.refunded
\* event was processed no longer shows as CAPTURED: no later commit brings it back.
RefundReconciles ==
    ~OperatorActs /\ Cardinality(Workers) = 1 =>
        \A i \in Intents :
            (/\ refunded[i] = Amount
             /\ [type |-> "refunded", intent |-> i, n |-> Amount] \in recorded)
            => status[i] # "CAPTURED"

\* process_event applies an event at most once, though Stripe may deliver it to
\* several workers at the same time and the first lookup finds no row in any.
AppliedOnce ==
    [][\A r \in running : WebhookApply(r) => EventOf(r) \notin recorded]_vars

\* An AUTHORIZED intent does not stay so: it is booked, cancelled, failed, or the
\* zombie job cancels it, though Stripe refuse the call and the job die once.
AuthorizedLeaves ==
    \A i \in Intents : status[i] = "AUTHORIZED" ~> status[i] # "AUTHORIZED"

\* A booking in progress ends unless a process died or a commit was refused: `book`
\* leaves BOOKING_PENDING on every answer, error and lost answer of Amadeus.
PendingEnds ==
    \A i \in Intents :
        status[i] = "BOOKING_PENDING" ~> status[i] # "BOOKING_PENDING" \/ faults > 0

=============================================================================
