----------------------------- MODULE TripContent -----------------------------
(***************************************************************************)
(* What one trip contains: accommodations, manual flights, activities,       *)
(* baggage, feedback, and the lines of its budget, some of which the         *)
(* services keep in step with the row they were made for (source_type,       *)
(* source_id).                                                               *)
(*                                                                           *)
(* A request checks that the trip is not COMPLETED on the row it loaded; the *)
(* daily job, in its thread, may complete the trip before the request        *)
(* commits.  Requests do not interleave with one another.  Names, dates and  *)
(* places are left out; a price is the price of the whole stay, in the       *)
(* currency of the trip.                                                     *)
(***************************************************************************)
EXTENDS Integers, FiniteSets, Functions, TLC

CONSTANTS
    Stays, Flights, Acts, Bags,  \* ids of the rows of each table
    Lines,                       \* ids of the rows of budget_items
    Authors,                     \* users with access to the trip
    Prices,                      \* amounts in use
    NoRow, NoId,                 \* no such row; SQL NULL
    MaxStaff                     \* bound: changes made in the admin panel

ASSUME ContentConstantsOK ==
    /\ Prices \subseteq Int \ {0} /\ MaxStaff \in Nat
    /\ IsFiniteSet(Lines) /\ IsFiniteSet(Acts)
    /\ Stays \cap Flights = {} /\ NoId \notin Stays \cup Flights

VARIABLES
    row,       \* accommodations and manual_flights
    act,       \* activities
    bag,       \* baggage_items
    line,      \* budget_items
    closed,    \* Trip.status = COMPLETED
    req,       \* "in": a request of an editor has found the trip open
    feedback,  \* feedbacks: who has left one
    staff      \* changes made in the admin panel so far

content == <<row, act, bag, line>>
vars == <<row, act, bag, line, closed, req, feedback, staff>>

Priced == Stays \cup Flights

\* price 0 is NULL.
Row == [price : Prices \cup {0}]

\* validation_status is free text: MANUAL counts as VALIDATED everywhere, any text but these
\* three as neither.  So is estimated_cost any number.
Vals == {"SUGGESTED", "VALIDATED", "neither"}

Activity == [cost : {0} \cup Prices \cup {-p : p \in Prices}, val : Vals]

\* source_type, "none" for a line entered by a user.
Kind == {"none", "accommodation", "manual_flight", "flight_order", "train", "estimated"}

Line == [kind : Kind, of : Priced \cup {NoId}, amount : Prices, planned : BOOLEAN]

ASSUME NoRowIsNone == NoRow \notin Row \cup Activity \cup Line

TypeOK ==
    /\ row \in [Priced -> Row \cup {NoRow}]
    /\ act \in [Acts -> Activity \cup {NoRow}]
    /\ bag \in [Bags -> {NoRow, "unpacked", "packed"}]
    /\ line \in [Lines -> Line \cup {NoRow}]
    /\ closed \in BOOLEAN /\ req \in {"none", "in"}
    /\ feedback \subseteq Authors /\ staff \in 0..MaxStaff

KindOf(x) == IF x \in Stays THEN "accommodation" ELSE "manual_flight"

Used == {i \in Lines : line[i] # NoRow}

-----------------------------------------------------------------------------
(* plan_draft_service.py: the draft the planner leaves.  Rows are flushed before their *)
(* line is built, so the line has their id; one without a total has no line.           *)

DraftLine(kind, x) ==
    [kind : {kind}, of : {x}, amount : IF x = NoId THEN Prices ELSE {row[x].price},
     planned : {TRUE}]

DraftLines ==
    (UNION {DraftLine(KindOf(x), x) : x \in {y \in Priced : row[y] # NoRow /\ row[y].price # 0}})
      \cup DraftLine("train", NoId) \cup DraftLine("estimated", NoId)

Planned ==
    /\ row \in [Priced -> Row \cup {NoRow}]
    /\ act \in [Acts -> {v \in Activity : v.val = "SUGGESTED"} \cup {NoRow}]
    /\ bag \in [Bags -> {NoRow, "unpacked"}]
    /\ line \in [Lines -> DraftLines \cup {NoRow}]
    /\ \A i, j \in Used : line[i].kind = line[j].kind /\ line[i].of = line[j].of => i = j

Empty ==
    /\ row = [x \in Priced |-> NoRow] /\ act = [a \in Acts |-> NoRow]
    /\ bag = [b \in Bags |-> NoRow] /\ line = [i \in Lines |-> NoRow]

\* A trip created by hand, or a draft of the planner.
Init ==
    /\ Empty \/ Planned
    /\ closed = FALSE /\ req = "none" /\ feedback = {} /\ staff = 0

-----------------------------------------------------------------------------
(* The budget lines of stays and flights. *)

Linked(x) == {i \in Used : line[i].kind = KindOf(x) /\ line[i].of = x}

Adds(kind, x, a, planned) ==
    \E i \in Lines \ Used :
        line' = [line EXCEPT ![i] = [kind |-> kind, of |-> x, amount |-> a, planned |-> planned]]

Drops(gone) == line' = [i \in Lines |-> IF i \in gone THEN NoRow ELSE line[i]]

\* Mutant of Load: the check is forgotten.
LoadAnyTrip == req = "none" /\ req' = "in" /\ UNCHANGED <<content, closed, feedback, staff>>

\* _check_trip_not_completed, on the trip as loaded.
Load ==
    /\ req = "none" /\ ~closed /\ req' = "in"
    /\ UNCHANGED <<content, closed, feedback, staff>>

\* The request commits.
Editing == req = "in" /\ req' = "none" /\ UNCHANGED <<closed, feedback, staff>>

\* A new row has no id until it is flushed: its line is built before, with source_id NULL.
Create(x, p) ==
    /\ row[x] = NoRow /\ row' = [row EXCEPT ![x] = [price |-> p]]
    /\ IF p = 0 THEN UNCHANGED line ELSE Adds(KindOf(x), NoId, p, TRUE)
    /\ UNCHANGED <<act, bag>>

CreateStay(x, p) == Editing /\ x \in Stays /\ Create(x, p)

CreateFlight(x, p) == Editing /\ x \in Flights /\ Create(x, p)

\* find_by_source finds the line to bring up to date, or a new one is made; 0 clears
\* the price and deletes the line.
SyncLine(x, p) ==
    IF p = 0 THEN Drops(Linked(x))
    ELSE IF Linked(x) = {} THEN Adds(KindOf(x), x, p, TRUE)
    ELSE \E i \in Linked(x) : line' = [line EXCEPT ![i].amount = p]

Update(x, p) ==
    /\ row[x] # NoRow /\ row' = [row EXCEPT ![x].price = p]
    /\ SyncLine(x, p)
    /\ UNCHANGED <<act, bag>>

\* Any change of a priced stay brings its line up to date; validationStatus, which the
\* request may carry, is dropped by the route.
UpdateStay(x, p) == Editing /\ x \in Stays /\ Update(x, p)

\* Only a request that carries the price does.
UpdateFlight(x, p) == Editing /\ x \in Flights /\ Update(x, p)

\* Mutant of Delete: the line is left to a cascade that does not exist.
DeleteRow(x) ==
    row[x] # NoRow /\ row' = [row EXCEPT ![x] = NoRow] /\ UNCHANGED <<act, bag, line>>

Delete(x) ==
    /\ row[x] # NoRow /\ row' = [row EXCEPT ![x] = NoRow]
    /\ Drops(Linked(x))
    /\ UNCHANGED <<act, bag>>

DeleteStay(x) == Editing /\ x \in Stays /\ Delete(x)

DeleteFlight(x) == Editing /\ x \in Flights /\ Delete(x)

StayRequests == \E x \in Stays, p \in Prices \cup {0} :
    CreateStay(x, p) \/ UpdateStay(x, p) \/ DeleteStay(x)

FlightRequests == \E x \in Flights, p \in Prices \cup {0} :
    CreateFlight(x, p) \/ UpdateFlight(x, p) \/ DeleteFlight(x)

-----------------------------------------------------------------------------
(* Budget lines edited as such: any of them, the linked ones too. *)

CreateItem(a, planned) ==
    /\ Editing /\ Adds("none", NoId, a, planned) /\ UNCHANGED <<row, act, bag>>

UpdateItem(i, a, planned) ==
    /\ Editing /\ i \in Used
    /\ line' = [line EXCEPT ![i].amount = a, ![i].planned = planned]
    /\ UNCHANGED <<row, act, bag>>

DeleteItem(i) == Editing /\ i \in Used /\ Drops({i}) /\ UNCHANGED <<row, act, bag>>

ItemRequests ==
    \E a \in Prices, planned \in BOOLEAN, i \in Lines :
        CreateItem(a, planned) \/ UpdateItem(i, a, planned) \/ DeleteItem(i)

-----------------------------------------------------------------------------
(* Activities, which count in the budget without a line, and baggage.  The route of the *)
(* batch update is shadowed by the one before it and never runs.                        *)

CreateActivity(a, v) ==
    /\ Editing /\ act[a] = NoRow
    /\ act' = [act EXCEPT ![a] = v] /\ UNCHANGED <<row, bag, line>>

UpdateActivity(a, v) ==
    /\ Editing /\ act[a] # NoRow
    /\ act' = [act EXCEPT ![a] = v] /\ UNCHANGED <<row, bag, line>>

DeleteActivity(a) ==
    /\ Editing /\ act[a] # NoRow
    /\ act' = [act EXCEPT ![a] = NoRow] /\ UNCHANGED <<row, bag, line>>

ActivityRequests ==
    \E a \in Acts, v \in Activity : CreateActivity(a, v) \/ UpdateActivity(a, v) \/ DeleteActivity(a)

CreateBaggage(b, packed) ==
    /\ Editing /\ bag[b] = NoRow
    /\ bag' = [bag EXCEPT ![b] = packed] /\ UNCHANGED <<row, act, line>>

UpdateBaggage(b, packed) ==
    /\ Editing /\ bag[b] # NoRow
    /\ bag' = [bag EXCEPT ![b] = packed] /\ UNCHANGED <<row, act, line>>

DeleteBaggage(b) ==
    /\ Editing /\ bag[b] # NoRow
    /\ bag' = [bag EXCEPT ![b] = NoRow] /\ UNCHANGED <<row, act, line>>

BaggageRequests ==
    \E b \in Bags, packed \in {"unpacked", "packed"} :
        CreateBaggage(b, packed) \/ UpdateBaggage(b, packed) \/ DeleteBaggage(b)

-----------------------------------------------------------------------------
\* The row the request names is not there: 404.
NotFound ==
    /\ Editing /\ UNCHANGED content
    /\ \/ \E x \in Priced : row[x] = NoRow \/ \E a \in Acts : act[a] = NoRow
       \/ \E b \in Bags : bag[b] = NoRow \/ \E i \in Lines : line[i] = NoRow

\* _book_flight, after its await: the status of the trip is not looked at, and the id of
\* the new flight order is read before it exists.
BookOrder(a) ==
    /\ req = "none" /\ Adds("flight_order", NoId, a, FALSE)
    /\ UNCHANGED <<row, act, bag, closed, req, feedback, staff>>

\* The owner, between requests, or the daily job, at any time.
TripCloses == ~closed /\ closed' = TRUE /\ UNCHANGED <<content, req, feedback, staff>>

\* One per user, of a completed trip.
CreateFeedback(u) ==
    /\ req = "none" /\ closed /\ u \notin feedback
    /\ feedback' = feedback \cup {u}
    /\ UNCHANGED <<content, closed, req, staff>>

-----------------------------------------------------------------------------
(* services/admin/content.py: neither the status nor the budget is looked at. *)

StaffActs == req = "none" /\ staff < MaxStaff /\ staff' = staff + 1 /\ UNCHANGED <<req, feedback>>

AdminWritesStay(x, v) ==
    /\ StaffActs /\ x \in Stays /\ v # row[x] /\ (v = NoRow => row[x] # NoRow)
    /\ row' = [row EXCEPT ![x] = v] /\ UNCHANGED <<act, bag, line, closed>>

\* A new one is MANUAL; a change leaves the status.
AdminWritesActivity(a, v) ==
    /\ StaffActs /\ v # act[a]
    /\ v # NoRow => v.val = IF act[a] = NoRow THEN "VALIDATED" ELSE act[a].val
    /\ act' = [act EXCEPT ![a] = v] /\ UNCHANGED <<row, bag, line, closed>>

AdminDeletesItem(i) ==
    /\ StaffActs /\ i \in Used /\ Drops({i}) /\ UNCHANGED <<row, act, bag, closed>>

AdminDeletesBaggage(b) ==
    /\ StaffActs /\ bag[b] # NoRow
    /\ bag' = [bag EXCEPT ![b] = NoRow] /\ UNCHANGED <<row, act, line, closed>>

AdminReopens == StaffActs /\ closed /\ closed' = FALSE /\ UNCHANGED content

Admin ==
    \/ \E x \in Stays, v \in Row \cup {NoRow} : AdminWritesStay(x, v)
    \/ \E a \in Acts, v \in Activity \cup {NoRow} : AdminWritesActivity(a, v)
    \/ \E i \in Lines : AdminDeletesItem(i)
    \/ \E b \in Bags : AdminDeletesBaggage(b)
    \/ AdminReopens

-----------------------------------------------------------------------------
Next ==
    \/ Load \/ NotFound \/ TripCloses
    \/ StayRequests \/ FlightRequests \/ ItemRequests \/ ActivityRequests \/ BaggageRequests
    \/ \E a \in Prices : BookOrder(a)
    \/ \E u \in Authors : CreateFeedback(u)
    \/ Admin

Spec == Init /\ [][Next]_vars

\* Ids of budget lines are interchangeable.
LineSymmetry == Permutations(Lines)

-----------------------------------------------------------------------------
(* get_budget_summary *)

Amount == [i \in Used |-> line[i].amount]

Sum(lines) == SumFunctionOnSet(Amount, lines)

Cost == [a \in {b \in Acts : act[b] # NoRow} |-> act[a].cost]

Costs(vals) == SumFunctionOnSet(Cost, {a \in DOMAIN Cost : act[a].val \in vals})

Spent == Sum(Used) + Costs(Vals)

\* Mutant of Confirmed: as the planned lines were before they had sources.
ConfirmedUnplanned == Sum({i \in Used : ~line[i].planned}) + Costs({"VALIDATED"})

Confirmed ==
    Sum({i \in Used : line[i].kind # "none" \/ ~line[i].planned}) + Costs({"VALIDATED"})

Forecast ==
    Sum({i \in Used : line[i].kind = "none" /\ line[i].planned}) + Costs({"SUGGESTED"})

Categories == {"FLIGHT", "ACCOMMODATION", "FOOD", "ACTIVITY", "TRANSPORT", "OTHER"}

Category == [none |-> "OTHER", accommodation |-> "ACCOMMODATION", manual_flight |-> "FLIGHT",
             flight_order |-> "FLIGHT", train |-> "TRANSPORT", estimated |-> "FOOD"]

ByCategory(c) ==
    Sum({i \in Used : Category[line[i].kind] = c})
      + (IF c = "ACTIVITY" /\ Costs(Vals) > 0 THEN Costs(Vals) ELSE 0)

-----------------------------------------------------------------------------
\* budget_item_service: the totals are computed by separate loops over the same rows, with
\* two definitions of "confirmed".  What is spent is confirmed or forecast, never both, but
\* for the activities whose status is neither; and it is in the categories, but for the
\* activities when they cost less than nothing together.
SummaryAddsUp ==
    /\ Spent = Confirmed + Forecast + Costs({"neither"})
    /\ Spent = SumFunctionOnSet([c \in Categories |-> ByCategory(c)], Categories)
                 + (IF Costs(Vals) > 0 THEN 0 ELSE Costs(Vals))

\* find_by_source takes the first line it finds: as long as the staff has deleted no stay,
\* a line with a source_id is the only one of a row that is there.
LinksResolve ==
    staff = 0 =>
        \A i \in Used : line[i].of # NoId =>
            row[line[i].of] # NoRow /\ Linked(line[i].of) = {i}

\* "Cannot modify ... on a completed trip": once a trip is completed and the request that
\* was on its way is over, its content changes no more, whatever the owner and the guests
\* ask; only the order of a booking in progress adds its line.  Feedback comes after.
FrozenOnceClosed ==
    [][ /\ closed /\ closed' /\ req = "none" /\ ~Admin =>
            /\ req' = "none"
            /\ content' # content => \E a \in Prices : BookOrder(a)
        /\ feedback' # feedback => closed
      ]_vars

\* "A la suppression de l'hebergement, le BudgetItem lie est supprime", "A la mise a jour,
\* le BudgetItem lie est resynchronise" (accommodations.md): a stay is counted in the budget
\* at most once, and no longer than it is there.
CountedOnce ==
    staff = 0 => Cardinality({i \in Used : line[i].kind = "accommodation"})
                    <= Cardinality({x \in Stays : row[x] # NoRow})

=============================================================================
