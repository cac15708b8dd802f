------------------------------ MODULE TripPlanner ------------------------------
(***************************************************************************)
(* What a FREE user asks of the planner: full plans and ideas of             *)
(* destinations, streamed; suggestions for a trip; flight searches and       *)
(* prices.  All but these last draw on a monthly quota of generations, read  *)
(* before the work and written after it.  Plans, ideas, searches and prices  *)
(* call Amadeus through the circuit breaker; plans, ideas and suggestions    *)
(* call language models.                                                     *)
(*                                                                           *)
(* Each step ends at an await, a yield or a commit: in between a coroutine   *)
(* runs alone in its process.                                                *)
(***************************************************************************)
EXTENDS AmadeusCircuit

CONSTANTS
    Requests,
    Asks,    \* the kinds each may be of, of Kinds
    Limit,   \* ai_generations_per_month of FREE
    Models,  \* number of models in the router's chain
    Months   \* bound

VARIABLES
    month,
    row,       \* the user's ai_generations_count and ai_generations_reset_at
    req,       \* the requests
    charged,   \* generations allowed and counted this month
    overlapped,\* two requests that draw on the quota have overlapped
    straddled  \* one checked or counted this month was under way when an earlier one ended

ghosts == <<charged, overlapped, straddled>>
vars == <<circuitVars, month, row, req, ghosts>>

Suggested == {"accommodations", "activities", "baggage", "budget"}

Drawing == {"plan", "ideas"} \cup Suggested

Searches == {"search", "multi", "price", "offers", "places", "dates", "hotels"}

Kinds == Drawing \cup Searches

\* What is left of a plan: nothing, a trip without content, or all of it.
Draft == {"none", "empty", "whole"}

ASSUME PlannerConstantsOK ==
    /\ Asks \in [Requests -> SUBSET Kinds] /\ Limit \in Nat \ {0} /\ Months \in Nat \ {0}
    /\ Models \in Nat \ {0}
    /\ Callers = Requests \X {"stay", "ride", "ideas", "search", "price", "dates"}

\* seen, reset: the row as the request's session loaded it.  since: the month it was
\* loaded in, then the month it was allowed in.
Idle == [kind |-> "none", at |-> "idle", seen |-> 0, reset |-> 0, since |-> 0,
         todo |-> {}, draft |-> "none", said |-> {}]

Init ==
    /\ CircuitInit
    /\ month = 1 /\ row = [count |-> 0, reset |-> 0] /\ req = [r \in Requests |-> Idle]
    /\ charged = 0 /\ overlapped = FALSE /\ straddled = FALSE

Working(r) == req[r].at # "idle"

Goes(r, at) == req' = [req EXCEPT ![r].at = at]

Ends(r) == req' = [req EXCEPT ![r] = Idle]

\* An error event, and done.
SaysError(r) == req' = [req EXCEPT ![r].at = "done", ![r].said = @ \cup {"error"}]

-----------------------------------------------------------------------------
(* llm_router.py *)

\* What a model does at the last attempt it is given.
Says == {"answers", "is down", "refuses", "breaks"}

CallWithRetry(says) ==
    CASE says = "answers" -> "answer"
      [] says = "is down" -> "retries exhausted"
      [] says = "refuses" -> "permanent error"
      [] says = "breaks"  -> "raises"      \* an exception of neither class

ChatCompletion(says) ==
    LET skipped == {"retries exhausted", "permanent error"}
        reached == {m \in 1..Models : \A n \in 1..m - 1 : CallWithRetry(says[n]) \in skipped}
        last == CHOOSE m \in reached : \A n \in reached : n <= m
    IN IF CallWithRetry(says[last]) \in skipped THEN "unavailable" ELSE CallWithRetry(says[last])

\* The router answers, or raises one error or another; the models do as they like.
Asked(answers) ==
    \E says \in [1..Models -> Says] : answers = (ChatCompletion(says) = "answer")

-----------------------------------------------------------------------------
(* plan_guard.py, plan_service.py *)

\* get_current_user loads the row into the request's session.
Ask(r, kind) ==
    /\ ~Working(r) /\ kind \in Asks[r] \cap Drawing
    /\ req' = [req EXCEPT ![r] = [Idle EXCEPT !.kind = kind, !.at = "loaded",
                                              !.seen = row.count, !.reset = row.reset,
                                              !.since = month]]
    /\ overlapped' = (overlapped \/ \E s \in Requests \ {r} : req[s].kind \in Drawing)
    /\ UNCHANGED <<circuitVars, month, row, charged, straddled>>

\* Mutants of CheckQuota: it lets one more through; a new month keeps the count.
CheckQuotaOneMore(r) ==
    /\ req[r].at = "loaded"
    /\ LET at == IF req[r].kind \in Suggested THEN "thinking" ELSE "origin" IN
       IF req[r].seen > Limit THEN Ends(r)
       ELSE req' = [req EXCEPT ![r].at = at, ![r].since = month]
    /\ UNCHANGED <<circuitVars, month, row, ghosts>>

CheckQuotaKeepingCount(r) ==
    /\ req[r].at = "loaded"
    /\ row' = [row EXCEPT !.reset = IF row.reset = 0 THEN 0 ELSE month]
    /\ LET at == IF req[r].kind \in Suggested THEN "thinking" ELSE "origin" IN
       IF row.reset \in {0, month} /\ row.count >= Limit THEN Ends(r)
       ELSE req' = [req EXCEPT ![r].at = at, ![r].since = month, ![r].seen = row.count,
                              ![r].reset = row'.reset]
    /\ UNCHANGED <<circuitVars, month, ghosts>>

\* check_ai_generation_quota of a user without a subscription to reconcile.
CheckQuota(r) ==
    /\ req[r].at = "loaded"
    /\ LET new == req[r].reset \notin {0, month}
           count == IF req[r].seen = 0 THEN row.count ELSE 0  \* a zero over a zero is not written
           seen == IF new THEN count ELSE req[r].seen         \* the row is read again
           next == [req[r] EXCEPT !.at = IF req[r].kind \in Suggested THEN "thinking" ELSE "origin",
                                  !.seen = IF req[r].kind \in Suggested THEN seen ELSE 0,
                                  !.reset = IF req[r].kind \notin Suggested THEN 0
                                            ELSE IF new THEN month ELSE req[r].reset,
                                  !.since = month]
       IN /\ row' = IF new THEN [count |-> count, reset |-> month] ELSE row
          /\ req' = [req EXCEPT ![r] = IF seen >= Limit THEN Idle ELSE next]
          /\ straddled' = (straddled \/ req[r].since # month)
    /\ UNCHANGED <<circuitVars, month, charged, overlapped>>

\* increment_ai_generation, on a row loaded at some time.
Increment(r, loaded) ==
    /\ row' = [count |-> loaded.count + 1, reset |-> IF loaded.reset = 0 THEN month ELSE row.reset]
    /\ charged' = IF req[r].since = month THEN charged + 1 ELSE charged
    /\ straddled' = (straddled \/ req[r].since # month)
    /\ UNCHANGED overlapped

-----------------------------------------------------------------------------
(* The suggestions for a trip. *)

\* Counted on the row the session has held since the request began.
Suggest(r, what) ==
    /\ req[r].at = "thinking" /\ req[r].kind = what
    /\ Increment(r, [count |-> req[r].seen, reset |-> req[r].reset])
    /\ Ends(r)
    /\ UNCHANGED <<circuitVars, month>>

\* The model's answer, or nothing when it gives none: counted either way...
SuggestAccommodations(r) == Suggest(r, "accommodations")

SuggestActivities(r) == Suggest(r, "activities")

\* ...or the usual things to pack.
SuggestBaggageItems(r) == Suggest(r, "baggage")

\* Arithmetic only: no origin is handed over, so that no flight is searched.
EstimateBudget(r) == Suggest(r, "budget")

-----------------------------------------------------------------------------
(* flight_search_service.py, flight_offer_pricing_service.py, and the searches of *)
(* api/travel and api/hotels, which belong to no trip.                            *)

StartSearch(r, kind, calls) ==
    /\ ~Working(r) /\ kind \in Asks[r]
    /\ req' = [req EXCEPT ![r] = [Idle EXCEPT !.kind = kind, !.at = "search", !.todo = calls]]
    /\ UNCHANGED <<circuitVars, month, row, ghosts>>

CreateSearch(r) == StartSearch(r, "search", {"search"})

CreateMultiDestSearch(r) == StartSearch(r, "multi", {"search", "ride"})  \* at once

PriceOffer(r) == StartSearch(r, "price", {"price"})

\* The same search may be in the cache, for a quarter of an hour.
BrowseOffers(r) == \E cached \in BOOLEAN : StartSearch(r, "offers", IF cached THEN {} ELSE {"search"})

BrowseDestinations(r) == StartSearch(r, "places", {"ideas"})

BrowseCheapestDates(r) == StartSearch(r, "dates", {"dates"})

BrowseHotels(r) == StartSearch(r, "hotels", {"stay"}) \/ StartSearch(r, "hotels", {"offers"})

\* A search that fails, all its segments included, ends like one that does not.
SearchEnds(r) ==
    /\ req[r].at = "search" /\ req[r].todo = {} /\ Ends(r)
    /\ UNCHANGED <<circuitVars, month, row, ghosts>>

-----------------------------------------------------------------------------
(* The calls to Amadeus of a request. *)

\* Mutant of After: a task whose call failed calls again.
AfterAgain(r, task, answered) ==
    {[req[r] EXCEPT !.at = IF req[r].kind = "ideas" THEN "enrich" ELSE @,
                    !.todo = IF answered THEN @ \ {task} ELSE @]}

\* The ideas Amadeus has are taken on; without any the model is asked alone.
Inspired(one, answered) ==
    {[one EXCEPT !.at = at, !.todo = {}] :
        at \in IF answered THEN {"enrich", "fallback"} ELSE {"fallback"}}

\* What a task is when its call has been answered or not.
After(r, task, answered) ==
    LET one == req[r] IN
    CASE task = "stay" /\ one.kind = "plan" /\ answered -> {[one EXCEPT !.todo = (@ \ {"stay"}) \cup {"offers"}],
                                       [one EXCEPT !.todo = @ \ {"stay"}]}   \* no hotel listed
      [] task = "ideas" /\ one.kind = "ideas" -> Inspired(one, answered)
      [] OTHER -> {[one EXCEPT !.todo = @ \ {task}]}

\* The caller a task calls as.
Caller(r, task) == <<r, IF task = "offers" THEN "stay" ELSE task>>

CallAmadeus(r, task) ==
    /\ task \in req[r].todo
    /\ IF Admits THEN BeginCall(Caller(r, task)) /\ UNCHANGED req
       ELSE \* UPSTREAM_UNAVAILABLE, at once
            /\ Caller(r, task) \notin calling
            /\ \E one \in After(r, task, FALSE) : req' = [req EXCEPT ![r] = one]
            /\ UNCHANGED <<circuit, calling, refused>>
    /\ UNCHANGED <<token, month, row, ghosts>>

AmadeusAnswers(r, task) ==
    /\ task \in req[r].todo /\ CallAnswered(Caller(r, task))
    /\ \E accepted \in BOOLEAN : \E one \in After(r, task, accepted) : req' = [req EXCEPT ![r] = one]
    /\ UNCHANGED <<token, month, row, ghosts>>

AmadeusFails(r, task) ==
    /\ task \in req[r].todo /\ CallFails(Caller(r, task))
    /\ \E one \in After(r, task, FALSE) : req' = [req EXCEPT ![r] = one]
    /\ UNCHANGED <<token, month, row, ghosts>>

Amadeus(r, task) == CallAmadeus(r, task) \/ AmadeusAnswers(r, task) \/ AmadeusFails(r, task)

SearchFlightOffers(r) == Amadeus(r, "ride") \/ Amadeus(r, "search")

ConfirmFlightPrice(r) == Amadeus(r, "price")

SearchFlightDestinations(r) == Amadeus(r, "ideas")

SearchFlightCheapestDates(r) == Amadeus(r, "dates")

SearchHotelList(r) == Amadeus(r, "stay")

SearchHotelOffers(r) == Amadeus(r, "offers")

-----------------------------------------------------------------------------
(* full_plan_orchestrator.py and trip_planner_service.py: a plan. *)

\* From the cache, offline, or by a geocoder that may know nothing or fail.
ResolveOrigin(r) ==
    /\ req[r].at = "origin" /\ req[r].kind = "plan"
    /\ SaysError(r) \/ Goes(r, "destination")
    /\ UNCHANGED <<circuitVars, month, row, ghosts>>

ResolveDestination(r) ==
    /\ req[r].at = "destination"
    /\ SaysError(r) \/ Goes(r, "weather")
    /\ UNCHANGED <<circuitVars, month, row, ghosts>>

\* A train's price is estimated, a flight's asked for.
BuildTransport(dated, train) == IF dated /\ ~train THEN {"ride"} ELSE {}

\* Weather or none; then five tasks start together.
FetchWeather(r) ==
    /\ req[r].at = "weather"
    /\ \/ SaysError(r)
       \/ \E dated, train \in BOOLEAN :
             req' = [req EXCEPT ![r].at = "gather",
                        ![r].todo = {"activities", "baggage", "cover"} \cup BuildTransport(dated, train)
                                    \cup (IF dated THEN {"stay"} ELSE {})]
    /\ UNCHANGED <<circuitVars, month, row, ghosts>>

\* A task's failure becomes a warning, the cover's not even that.  (These three share
\* nothing with anybody: they are taken in one order.)
TaskEnds(r, task, before) ==
    /\ task \in req[r].todo /\ req[r].todo \cap before = {}
    /\ req' = [req EXCEPT ![r].todo = @ \ {task}]
    /\ UNCHANGED <<circuitVars, month, row, ghosts>>

BrainstormActivities(r) == TaskEnds(r, "activities", {})

AdviseBaggage(r) == TaskEnds(r, "baggage", {"activities"})

FetchCoverImage(r) == TaskEnds(r, "cover", {"activities", "baggage"})

\* All five are in, or have failed: the budget is what their prices add up to.
ComputeBudget(r) ==
    /\ req[r].at = "gather" /\ req[r].todo = {}
    /\ SaysError(r) \/ Goes(r, "sections")
    /\ UNCHANGED <<circuitVars, month, row, ghosts>>

\* One event for each section that is not empty; then the plan, which is for stream_plan.
SaySections(r) ==
    /\ req[r].at = "sections" /\ Goes(r, "persist")
    /\ UNCHANGED <<circuitVars, month, row, ghosts>>

\* create_draft_from_command: create_trip commits the trip and reads it again...
PersistTrip(r) ==
    /\ req[r].at = "persist"
    /\ \E draft \in {"none", "empty"} :
          \/ req' = [req EXCEPT ![r].at = "done", ![r].said = {"error"}, ![r].draft = draft]
          \/ draft = "empty" /\ req' = [req EXCEPT ![r].at = "content", ![r].draft = draft]
    /\ UNCHANGED <<circuitVars, month, row, ghosts>>

\* ...then its content is committed, and the trip read once more.  What fails after a commit,
\* or loses its answer, is an error over what was committed.
PersistContent(r) ==
    /\ req[r].at = "content"
    /\ \/ req' = [req EXCEPT ![r].at = "complete", ![r].draft = "whole"]
       \/ \E draft \in {"empty", "whole"} :
             req' = [req EXCEPT ![r].at = "done", ![r].said = {"error"}, ![r].draft = draft]
    /\ UNCHANGED <<circuitVars, month, row, ghosts>>

SayComplete(r) ==
    /\ req[r].at = "complete"
    /\ req' = [req EXCEPT ![r].at = IF req[r].kind = "plan" THEN "count" ELSE "done",
                          ![r].said = @ \cup {"complete"}]
    /\ UNCHANGED <<circuitVars, month, row, ghosts>>

\* Mutant of CountPlan: its failure is an error like any other.
CountPlanAloud(r) ==
    /\ req[r].at = "count"
    /\ \/ Increment(r, row) /\ Goes(r, "done")
       \/ SaysError(r) /\ UNCHANGED <<row, ghosts>>
    /\ UNCHANGED <<circuitVars, month>>

\* The commit of the draft has expired the row: it is read again.  What fails is logged.
CountPlan(r) ==
    /\ req[r].at = "count" /\ Goes(r, "done")
    /\ Increment(r, row) \/ UNCHANGED <<row, ghosts>>
    /\ UNCHANGED <<circuitVars, month>>

SayDone(r) ==
    /\ req[r].at = "done" /\ Ends(r)
    /\ UNCHANGED <<circuitVars, month, row, ghosts>>

-----------------------------------------------------------------------------
(* inspire_orchestrator.py: ideas. *)

ResolveOriginIata(r) ==
    /\ req[r].at = "origin" /\ req[r].kind = "ideas"
    /\ SaysError(r) \/ req' = [req EXCEPT ![r].at = "inspire", ![r].todo = {"ideas"}]
    /\ UNCHANGED <<circuitVars, month, row, ghosts>>

\* Some destination of Amadeus's is known offline, or none.
EnrichCandidates(r) ==
    /\ req[r].at = "enrich"
    /\ Goes(r, "rank") \/ Goes(r, "fallback")
    /\ UNCHANGED <<circuitVars, month, row, ghosts>>

RankWithLlm(r) ==
    /\ req[r].at = "rank"
    /\ \E answered \in BOOLEAN : Asked(answered) /\ IF answered THEN Goes(r, "complete") ELSE SaysError(r)
    /\ UNCHANGED <<circuitVars, month, row, ghosts>>

LlmOnlyFallback(r) ==
    /\ req[r].at = "fallback"
    /\ \E answered \in BOOLEAN : Asked(answered) /\ IF answered THEN Goes(r, "complete") ELSE SaysError(r)
    /\ UNCHANGED <<circuitVars, month, row, ghosts>>

-----------------------------------------------------------------------------
\* The client of a stream is gone: what it waits for is cancelled, and the breaker hears
\* nothing.  (Between the two commits of a draft the stream waits for nothing.)
Leave(r) ==
    /\ req[r].kind \in {"plan", "ideas"} /\ req[r].at \notin {"loaded", "content"}
    /\ CallEnds({k \in calling : k[1] = r}) /\ Ends(r)
    /\ UNCHANGED <<circuit, token, month, row, ghosts>>

MonthEnds ==
    /\ month < Months /\ month' = month + 1
    /\ charged' = 0 /\ straddled' = FALSE
    /\ UNCHANGED <<circuitVars, row, req, overlapped>>

PlanStep(r) ==
    \/ ResolveOrigin(r) \/ ResolveDestination(r) \/ FetchWeather(r)
    \/ BrainstormActivities(r) \/ AdviseBaggage(r) \/ FetchCoverImage(r)
    \/ ComputeBudget(r) \/ SaySections(r) \/ PersistTrip(r) \/ PersistContent(r)
    \/ SayComplete(r) \/ CountPlan(r) \/ SayDone(r)

IdeasStep(r) ==
    ResolveOriginIata(r) \/ EnrichCandidates(r) \/ RankWithLlm(r) \/ LlmOnlyFallback(r)

SuggestStep(r) ==
    SuggestAccommodations(r) \/ SuggestActivities(r) \/ SuggestBaggageItems(r) \/ EstimateBudget(r)

AmadeusStep(r) ==
    \/ SearchFlightOffers(r) \/ SearchFlightDestinations(r) \/ ConfirmFlightPrice(r)
    \/ SearchFlightCheapestDates(r)
    \/ SearchHotelList(r) \/ SearchHotelOffers(r)

Step(r) ==
    CheckQuota(r) \/ SuggestStep(r) \/ SearchEnds(r) \/ PlanStep(r) \/ IdeasStep(r) \/ AmadeusStep(r)

Start(r) ==
    \/ \E kind \in Asks[r] : Ask(r, kind)
    \/ CreateSearch(r) \/ CreateMultiDestSearch(r) \/ PriceOffer(r)
    \/ BrowseOffers(r) \/ BrowseDestinations(r) \/ BrowseCheapestDates(r) \/ BrowseHotels(r)

Next ==
    \/ \E r \in Requests : Step(r) \/ Leave(r) \/ Start(r)
    \/ (CoolsDown \/ RevokesToken \/ TokenExpires) /\ UNCHANGED <<month, row, req, ghosts>>
    \/ MonthEnds

\* Work goes on, every call outside ends in an answer or a timeout, time passes, and
\* somebody searches flights now and then.
Fairness ==
    /\ \A r \in Requests : WF_vars(Step(r)) /\ SF_vars(CreateSearch(r))
    /\ WF_vars(CoolsDown /\ UNCHANGED <<month, row, req, ghosts>>)
    /\ WF_vars(TokenExpires /\ UNCHANGED <<month, row, req, ghosts>>)

Spec == Init /\ [][Next]_vars /\ Fairness

-----------------------------------------------------------------------------
AtMostTwoAtOnce == \A p, q, r \in Requests : p = q \/ q = r \/ p = r

\* The quota under concurrent requests: it bounds what a user gets who makes one request
\* after the other.  Of two at a time one may hold the count it had read while the other
\* uses the quota up, and write it back plus one: once for each count below the limit.  And
\* one that began before the month did may reset the count again, or go uncounted.
WithinQuota ==
    LET held == (Limit * (Limit + 3)) \div 2
        reset == Limit + 1
    IN /\ ~overlapped => charged <= Limit
       /\ AtMostTwoAtOnce => charged <= held + reset

\* The user pays for no generation of another month, unless a request was under way when
\* the month ended.
NeverOvercharged ==
    ~straddled /\ row.reset = month => row.count <= charged

\* What the stream says of the draft is so.  A plan called complete is there with all its
\* content, whatever failed between its two commits, and no failure to count it takes the
\* word back; and only such a plan is counted.
DraftAsSaid ==
    \A r \in Requests : req[r].kind = "plan" =>
        /\ "complete" \in req[r].said => req[r].draft = "whole" /\ "error" \notin req[r].said
        /\ req[r].at = "count" => "complete" \in req[r].said

\* Every request ends, however Amadeus and the models fare.
RequestsEnd == \A r \in Requests : Working(r) ~> ~Working(r)

\* The circuit closes again and again, unless again and again a probe fails that had a good
\* token to send: no probe a client leaves, no late answer that opens it anew, and no token
\* that is refused as long as it is cached keeps it open, or half open, for good.
CircuitCloses ==
    \/ []<>(circuit.state = "closed")
    \/ []<><<circuit.state = "half_open" /\ circuit'.state = "open" /\ ~revoked>>_vars

=============================================================================
