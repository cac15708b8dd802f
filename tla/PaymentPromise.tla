--------------------------- MODULE PaymentPromise ---------------------------
(***************************************************************************)
(* What a customer may rely on, whatever the booking flow does inside: the  *)
(* card is held, then released or charged once; no more is given back than  *)
(* was charged; where nobody acts by hand, no charge comes before the       *)
(* flight is ordered; and the app shows a booking, a charge or a refund     *)
(* only when there is one.                                                  *)
(***************************************************************************)
EXTENDS Naturals

CONSTANTS
    Intents,     \* booking intents
    Amount,      \* what an intent costs
    TicketFirst  \* no charge comes before the flight order

VARIABLES
    money,       \* "idle", then "held", then "charged" or "released"
    returned,    \* how much of the charge was given back
    ticket,      \* intents with a flight order
    shown        \* what the app shows: "open", "booked", "charged", "returned"

vars == <<money, returned, ticket, shown>>

Init ==
    /\ money = [i \in Intents |-> "idle"]
    /\ returned = [i \in Intents |-> 0]
    /\ ticket = {}
    /\ shown = [i \in Intents |-> "open"]

Moves(i, from, to) == money[i] \in from /\ money' = [money EXCEPT ![i] = to]

Hold(i)    == Moves(i, {"idle"}, "held")
Release(i) == Moves(i, {"idle", "held"}, "released")
Charge(i)  == Moves(i, {"held"}, "charged") /\ (TicketFirst => i \in ticket)

Return(i, n) ==
    /\ money[i] = "charged"
    /\ returned[i] + n <= Amount
    /\ returned' = [returned EXCEPT ![i] = @ + n]

Backed(i, s) ==
    /\ s = "booked"   => i \in ticket
    /\ s = "charged"  => money[i] = "charged"
    /\ s = "returned" => returned[i] = Amount

Show(i, s) == Backed(i, s) /\ shown' = [shown EXCEPT ![i] = s]

\* The intents of S are shown as over, together.
Withdraw(S) == shown' = [i \in Intents |-> IF i \in S THEN "open" ELSE shown[i]]

Next ==
    \/ \E i \in Intents : (Hold(i) \/ Release(i) \/ Charge(i))
       /\ UNCHANGED <<returned, ticket, shown>>
    \/ \E i \in Intents, n \in 1..Amount :
          Return(i, n) /\ UNCHANGED <<money, ticket, shown>>
    \/ \E i \in Intents :
          ticket' = ticket \cup {i} /\ UNCHANGED <<money, returned, shown>>
    \/ /\ \/ \E i \in Intents, s \in {"open", "booked", "charged", "returned"} : Show(i, s)
          \/ \E S \in SUBSET Intents : Withdraw(S)
       /\ UNCHANGED <<money, returned, ticket>>

Spec == Init /\ [][Next]_vars

=============================================================================
