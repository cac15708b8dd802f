------------------------- MODULE BookingRefinement -------------------------
(***************************************************************************)
(* BookingPayment implements PaymentPromise: Stripe's PaymentIntent is the  *)
(* money, the flight_orders row the ticket, BookingIntent.status what the   *)
(* app shows.                                                               *)
(***************************************************************************)
EXTENDS BookingPayment

Money(p) ==
    CASE p = "requires_capture" -> "held"
      [] p = "succeeded"        -> "charged"
      [] p = "canceled"         -> "released"
      [] OTHER                  -> "idle"

Display(s) ==
    CASE s = "BOOKED"   -> "booked"
      [] s = "CAPTURED" -> "charged"
      [] s = "REFUNDED" -> "returned"
      [] OTHER          -> "open"

Promise == INSTANCE PaymentPromise WITH
    TicketFirst <- Production /\ ~OperatorActs,
    money       <- [i \in Intents |-> Money(pi[i])],
    returned    <- refunded,
    ticket      <- ticketed,
    shown       <- [i \in Intents |-> Display(status[i])]

\* Every step of the handlers, the job, the webhooks and Stripe is a step the promise
\* allows: one hold, one charge, no refund beyond it, nothing shown that is not so.
PromiseKept == Promise!Spec

=============================================================================
