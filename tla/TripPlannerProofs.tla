-------------------------- MODULE TripPlannerProofs --------------------------
(***************************************************************************)
(* Proofs about TripPlanner, for any requests, models, months and limit:     *)
(* what a stream says of its draft (DraftAsSaid), and the quota: what the    *)
(* user is charged for (NeverOvercharged), what one gets who makes one       *)
(* request after the other (QuotaAlone), and who makes two at a time         *)
(* (WithinQuota).                                                            *)
(***************************************************************************)
EXTENDS TripPlanner, TLAPS

planner == <<month, row, req, ghosts>>

Stages == {"idle", "loaded", "thinking", "search", "origin", "destination", "weather", "gather",
           "sections", "persist", "content", "complete", "count", "done", "inspire", "enrich", "rank", "fallback"}

Tasks == {"activities", "baggage", "cover", "ride", "stay", "offers", "ideas", "search", "price", "dates"}

Orders == SUBSET Tasks

Topics == Kinds \cup {"none"}

Words == {"error", "complete"}

\* The types the arguments need.
One == [kind : Topics, at : Stages, seen : Nat, reset : Nat, since : Nat,
        todo : Orders, draft : Draft, said : SUBSET Words]

Typed ==
    /\ month \in Nat \ {0} /\ charged \in Nat
    /\ row \in [count : Nat, reset : Nat]
    /\ req \in [Requests -> One]

\* Nothing is left to do at a stage that is not for doing it.
Settled(a) == a.at \notin {"gather", "inspire", "search"} => a.todo = {}

Settling == \A r \in Requests : Settled(req[r])

Waiting(a) == a.at \in {"idle", "loaded", "thinking"}

-----------------------------------------------------------------------------
(* What a step does to one request. *)

\* Up to where nothing of a plan is committed.
Unsaid == {"loaded", "origin", "destination", "weather", "gather", "sections", "persist"}

\* The draft of a plan at each stage, and what has been said of it.
DraftFits(a) ==
    a.kind = "plan" =>
        /\ a.at \in Unsaid \cup {"content", "complete", "count", "done"}
        /\ a.at \in Unsaid \cup {"content", "complete"} => a.said = {}
        /\ a.at \in {"complete", "count"} => a.draft = "whole"
        /\ a.at = "count" => a.said = {"complete"}
        /\ a.at = "done" => a.said = {"error"} \/ (a.said = {"complete"} /\ a.draft = "whole")

\* One step further, the quota left alone.
Further(a, b) ==
    /\ b.kind = a.kind /\ b.seen = a.seen /\ b.reset = a.reset /\ b.since = a.since
    /\ ~Waiting(a) /\ ~Waiting(b) /\ (a.at = "done" => b.at = "done")
    /\ DraftFits(a) => DraftFits(b)
    /\ Settled(b)
    /\ b.at = "count" => b.kind \in Drawing

Searching(b) ==
    b.kind \in Searches /\ b.at = "search" /\ b.seen = 0 /\ b.reset = 0 /\ b.since = 0

\* Neither what waits for its check nor a suggestion ends without more.
Leaves(a) == a.at # "loaded" /\ (a.at = "thinking" => a.kind \notin Suggested)

\* Only one request moves; to where it stands, with what left to do, draft and words.
Becomes(r, at, todo, draft, said) ==
    /\ req' \in [Requests -> One] /\ \A s \in Requests \ {r} : req'[s] = req[s]
    /\ req'[r].kind = req[r].kind /\ req'[r].seen = req[r].seen
    /\ req'[r].reset = req[r].reset /\ req'[r].since = req[r].since
    /\ req'[r].at = at /\ req'[r].todo = todo /\ req'[r].draft = draft /\ req'[r].said = said

Quietly(r) ==
    /\ req' \in [Requests -> One] /\ \A s \in Requests \ {r} : req'[s] = req[s]
    /\ \/ req'[r] = Idle /\ Leaves(req[r])
       \/ Further(req[r], req'[r])
       \/ req[r].at = "idle" /\ Searching(req'[r])
    /\ UNCHANGED <<month, row, ghosts>>

Counts(r, loaded) == Increment(r, loaded) /\ UNCHANGED month

Counting(r) ==
    \/ /\ req[r].at = "thinking" /\ Ends(r)
       /\ Counts(r, [count |-> req[r].seen, reset |-> req[r].reset])
    \/ req[r].at = "count" /\ Counts(r, row) /\ Goes(r, "done")

Asking(r) == \E kind \in Asks[r] : Ask(r, kind)

Moves == \/ UNCHANGED planner \/ MonthEnds
         \/ \E r \in Requests : Asking(r) \/ CheckQuota(r) \/ Counting(r) \/ Quietly(r)

LEMMA IdleIs == Idle \in One /\ Idle.kind = "none" /\ Idle.at = "idle" /\ Idle.seen = 0 /\ Idle.reset = 0
                /\ Idle.since = 0 /\ Idle.todo = {}
  <1>1. Idle.kind = "none" /\ Idle.at = "idle" /\ Idle.seen = 0 /\ Idle.reset = 0
        /\ Idle.since = 0 /\ Idle.todo = {}
    BY DEF Idle
  <1>2. /\ "none" \in Topics /\ "idle" \in Stages /\ {} \in Orders
        /\ "none" \in Draft /\ {} \in SUBSET Words
    BY DEF Topics, Stages, Orders, Draft
  <1>3. Idle \in One
    BY <1>2 DEF Idle, One
  <1>4. QED
    BY <1>1, <1>3

LEMMA EndsQuietly ==
  ASSUME Typed, NEW r \in Requests, Leaves(req[r]), Ends(r), UNCHANGED <<month, row, ghosts>>
  PROVE  Quietly(r)
  BY IdleIs DEF Quietly, Ends, Typed

LEMMA Goes1 ==
  ASSUME Typed, NEW r \in Requests, NEW at \in Stages, Goes(r, at)
  PROVE  Becomes(r, at, req[r].todo, req[r].draft, req[r].said)
  BY DEF Typed, One, Goes, Becomes

LEMMA Says1 ==
  ASSUME Typed, NEW r \in Requests, NEW at \in Stages, NEW said \in SUBSET Words,
         req' = [req EXCEPT ![r].at = at, ![r].said = said]
  PROVE  Becomes(r, at, req[r].todo, req[r].draft, said)
  BY DEF Typed, One, Becomes

LEMMA Does1 ==
  ASSUME Typed, NEW r \in Requests, NEW at \in Stages, NEW todo \in Orders,
         req' = [req EXCEPT ![r].at = at, ![r].todo = todo]
  PROVE  Becomes(r, at, todo, req[r].draft, req[r].said)
  BY DEF Typed, One, Becomes

LEMMA Drafts1 ==
  ASSUME Typed, NEW r \in Requests, NEW at \in Stages, NEW said \in SUBSET Words, NEW draft \in Draft,
         req' = [req EXCEPT ![r].at = at, ![r].said = said, ![r].draft = draft]
  PROVE  Becomes(r, at, req[r].todo, draft, said)
  <1>1. req' \in [Requests -> One] /\ \A s \in Requests \ {r} : req'[s] = req[s]
    BY DEF Typed, One
  <1>2. QED
    BY <1>1 DEF Typed, One, Becomes

LEMMA Saves1 ==
  ASSUME Typed, NEW r \in Requests, NEW at \in Stages, NEW draft \in Draft,
         req' = [req EXCEPT ![r].at = at, ![r].draft = draft]
  PROVE  Becomes(r, at, req[r].todo, draft, req[r].said)
  BY DEF Typed, One, Becomes

LEMMA Task1 ==
  ASSUME Typed, NEW r \in Requests, NEW todo \in Orders, req' = [req EXCEPT ![r].todo = todo]
  PROVE  Becomes(r, req[r].at, todo, req[r].draft, req[r].said)
  BY DEF Typed, One, Becomes

LEMMA Errs1 ==
  ASSUME Typed, NEW r \in Requests, SaysError(r)
  PROVE  Becomes(r, "done", req[r].todo, req[r].draft, req[r].said \cup {"error"})
  <1>1. "done" \in Stages /\ req[r].said \cup {"error"} \in SUBSET Words
    BY DEF Typed, One, Stages, Words
  <1>2. req' = [req EXCEPT ![r].at = "done", ![r].said = req[r].said \cup {"error"}]
    BY DEF SaysError, Typed, One
  <1>3. QED
    BY <1>1, <1>2, Says1, Zenon

LEMMA Completes1 ==
  ASSUME Typed, NEW r \in Requests, NEW at \in Stages,
         req' = [req EXCEPT ![r].at = at, ![r].said = req[r].said \cup {"complete"}]
  PROVE  Becomes(r, at, req[r].todo, req[r].draft, req[r].said \cup {"complete"})
  <1>1. req[r].said \cup {"complete"} \in SUBSET Words
    BY DEF Typed, One, Words
  <1>2. QED
    BY <1>1, Says1, Zenon

\* A step that leaves the draft as its stage wants it goes quietly.
LEMMA StepsQuietly ==
  ASSUME NEW r \in Requests, NEW at, NEW todo, NEW draft, NEW said,
         Becomes(r, at, todo, draft, said), UNCHANGED <<month, row, ghosts>>,
         ~Waiting(req[r]), ~Waiting(req'[r]), req[r].at = "done" => at = "done",
         DraftFits(req[r]) => DraftFits(req'[r]), Settled(req'[r]),
         req'[r].at = "count" => req[r].kind \in Drawing
  PROVE  Quietly(r)
  BY DEF Quietly, Becomes, Further

LEMMA Staged ==
  /\ "destination" \in Stages /\ "weather" \in Stages /\ "gather" \in Stages /\ "sections" \in Stages
  /\ "persist" \in Stages /\ "complete" \in Stages /\ "count" \in Stages /\ "done" \in Stages
  /\ "inspire" \in Stages /\ "enrich" \in Stages /\ "rank" \in Stages /\ "fallback" \in Stages
  /\ "content" \in Stages /\ {"error"} \in SUBSET Words /\ "empty" \in Draft /\ "whole" \in Draft /\ {"ideas"} \in Orders
  BY DEF Stages, Words, Draft, Orders, Tasks

LEMMA PlanGoesOn ==
  ASSUME Typed, Settling, NEW r \in Requests, PlanStep(r)  PROVE Quietly(r) \/ Counting(r)
  <1> USE DEF Waiting
  <1>1. CASE ResolveOrigin(r)
    <2>0. req[r].at = "origin" /\ UNCHANGED <<month, row, ghosts>>
      BY <1>1, Zenon DEF ResolveOrigin
    <2>1. CASE SaysError(r)
      <3>1. Becomes(r, "done", req[r].todo, req[r].draft, req[r].said \cup {"error"})
        BY <2>1, Errs1, Zenon
      <3>2. QED
        BY <2>0, <3>1, StepsQuietly DEF Becomes, Settling, Settled, DraftFits, Unsaid
    <2>2. CASE Goes(r, "destination")
      <3>1. Becomes(r, "destination", req[r].todo, req[r].draft, req[r].said)
        BY <1>1, <2>2, Staged, Goes1, Zenon DEF ResolveOrigin
      <3>2. QED
        BY <2>0, <3>1, StepsQuietly DEF Becomes, Settling, Settled, DraftFits, Unsaid
    <2>3. QED
      BY <1>1, <2>1, <2>2 DEF ResolveOrigin
  <1>2. CASE ResolveDestination(r)
    <2>0. req[r].at = "destination" /\ UNCHANGED <<month, row, ghosts>>
      BY <1>2, Zenon DEF ResolveDestination
    <2>1. CASE SaysError(r)
      <3>1. Becomes(r, "done", req[r].todo, req[r].draft, req[r].said \cup {"error"})
        BY <2>1, Errs1, Zenon
      <3>2. QED
        BY <2>0, <3>1, StepsQuietly DEF Becomes, Settling, Settled, DraftFits, Unsaid
    <2>2. CASE Goes(r, "weather")
      <3>1. Becomes(r, "weather", req[r].todo, req[r].draft, req[r].said)
        BY <1>2, <2>2, Staged, Goes1, Zenon DEF ResolveDestination
      <3>2. QED
        BY <2>0, <3>1, StepsQuietly DEF Becomes, Settling, Settled, DraftFits, Unsaid
    <2>3. QED
      BY <1>2, <2>1, <2>2 DEF ResolveDestination
  <1>3. CASE FetchWeather(r)
    <2>0. req[r].at = "weather" /\ UNCHANGED <<month, row, ghosts>>
      BY <1>3, Zenon DEF FetchWeather
    <2>1. CASE SaysError(r)
      <3>1. Becomes(r, "done", req[r].todo, req[r].draft, req[r].said \cup {"error"})
        BY <2>1, Errs1, Zenon
      <3>2. QED
        BY <2>0, <3>1, StepsQuietly DEF Becomes, Settling, Settled, DraftFits, Unsaid
    <2>2. ASSUME NEW dated \in BOOLEAN, NEW train \in BOOLEAN, req' = [req EXCEPT ![r].at = "gather",
             ![r].todo = {"activities", "baggage", "cover"} \cup BuildTransport(dated, train)
                                                      \cup (IF dated THEN {"stay"} ELSE {})]
          PROVE  Quietly(r)
      <3> DEFINE todo == {"activities", "baggage", "cover"} \cup BuildTransport(dated, train)
                                                        \cup (IF dated THEN {"stay"} ELSE {})
      <3>1. todo \in Orders
        BY DEF BuildTransport, Orders, Tasks
      <3>2. Becomes(r, "gather", todo, req[r].draft, req[r].said)
        BY <2>2, <3>1, Staged, Does1, Zenon
      <3> HIDE DEF todo
      <3>3. QED
        BY <2>0, <3>2, StepsQuietly DEF Becomes, Settling, Settled, DraftFits, Unsaid
    <2>3. QED
      BY <1>3, <2>1, <2>2 DEF FetchWeather
  <1>4. ASSUME NEW task, NEW before, TaskEnds(r, task, before)  PROVE Quietly(r)
    <2>0. UNCHANGED <<month, row, ghosts>>
      BY <1>4, Zenon DEF TaskEnds
    <2>1. req[r].at \in {"gather", "inspire", "search"} /\ req[r] \in One
      BY <1>4 DEF TaskEnds, Settling, Settled, Typed, One
    <2>2. req[r].todo \ {task} \in Orders /\ req[r].at \in Stages
      BY <2>1 DEF One, Orders
    <2>3. Becomes(r, req[r].at, req[r].todo \ {task}, req[r].draft, req[r].said)
      BY <1>4, <2>2, Task1, Zenon DEF TaskEnds
    <2>4. QED
      BY <1>4, <2>0, <2>1, <2>3, StepsQuietly DEF Becomes, Settling, Settled, DraftFits
  <1>5. CASE ComputeBudget(r)
    <2>0. req[r].at = "gather" /\ req[r].todo = {} /\ UNCHANGED <<month, row, ghosts>>
      BY <1>5, Zenon DEF ComputeBudget
    <2>1. CASE SaysError(r)
      <3>1. Becomes(r, "done", req[r].todo, req[r].draft, req[r].said \cup {"error"})
        BY <2>1, Errs1, Zenon
      <3>2. QED
        BY <2>0, <3>1, StepsQuietly DEF Becomes, Settling, Settled, DraftFits, Unsaid
    <2>2. CASE Goes(r, "sections")
      <3>1. Becomes(r, "sections", req[r].todo, req[r].draft, req[r].said)
        BY <2>2, Staged, Goes1, Zenon
      <3>2. QED
        BY <2>0, <3>1, StepsQuietly DEF Becomes, Settling, Settled, DraftFits, Unsaid
    <2>3. QED
      BY <1>5, <2>1, <2>2 DEF ComputeBudget
  <1>6. CASE SaySections(r)
    <2>0. req[r].at = "sections" /\ UNCHANGED <<month, row, ghosts>>
      BY <1>6, Zenon DEF SaySections
    <2>1. Becomes(r, "persist", req[r].todo, req[r].draft, req[r].said)
      BY <1>6, Staged, Goes1, Zenon DEF SaySections
    <2>2. QED
      BY <2>0, <2>1, StepsQuietly DEF Becomes, Settling, Settled, DraftFits, Unsaid
  <1>7. ASSUME req[r].at \in {"persist", "content"}, UNCHANGED <<month, row, ghosts>>, NEW draft \in Draft,
               req' = [req EXCEPT ![r].at = "done", ![r].said = {"error"}, ![r].draft = draft]
        PROVE  Quietly(r)
    <2>1. Becomes(r, "done", req[r].todo, draft, {"error"})
      BY <1>7, Staged, Drafts1, Zenon
    <2>2. QED
      BY <1>7, <2>1, StepsQuietly DEF Becomes, Settling, Settled, DraftFits, Unsaid
  <1>8. CASE PersistTrip(r)
    <2>0. req[r].at = "persist" /\ UNCHANGED <<month, row, ghosts>>
      BY <1>8, Zenon DEF PersistTrip
    <2>1. CASE req' = [req EXCEPT ![r].at = "content", ![r].draft = "empty"]
      <3>1. Becomes(r, "content", req[r].todo, "empty", req[r].said)
        BY <2>1, Staged, Saves1, Zenon
      <3>2. QED
        BY <2>0, <3>1, StepsQuietly DEF Becomes, Settling, Settled, DraftFits, Unsaid
    <2>2. ASSUME NEW draft \in {"none", "empty"},
                 req' = [req EXCEPT ![r].at = "done", ![r].said = {"error"}, ![r].draft = draft]
          PROVE  Quietly(r)
      <3>1. draft \in Draft
        BY DEF Draft
      <3>2. QED
        BY <1>7, <2>0, <2>2, <3>1
    <2>3. QED
      BY <1>8, <2>1, <2>2 DEF PersistTrip
  <1>9. CASE PersistContent(r)
    <2>0. req[r].at = "content" /\ UNCHANGED <<month, row, ghosts>>
      BY <1>9, Zenon DEF PersistContent
    <2>1. CASE req' = [req EXCEPT ![r].at = "complete", ![r].draft = "whole"]
      <3>1. Becomes(r, "complete", req[r].todo, "whole", req[r].said)
        BY <2>1, Staged, Saves1, Zenon
      <3>2. QED
        BY <2>0, <3>1, StepsQuietly DEF Becomes, Settling, Settled, DraftFits, Unsaid
    <2>2. ASSUME NEW draft \in {"empty", "whole"},
                 req' = [req EXCEPT ![r].at = "done", ![r].said = {"error"}, ![r].draft = draft]
          PROVE  Quietly(r)
      <3>1. draft \in Draft
        BY DEF Draft
      <3>2. QED
        BY <1>7, <2>0, <2>2, <3>1
    <2>3. QED
      BY <1>9, <2>1, <2>2 DEF PersistContent
  <1>10. CASE SayComplete(r)
    <2>0. req[r].at = "complete" /\ UNCHANGED <<month, row, ghosts>>
      BY <1>10, Zenon DEF SayComplete
    <2>1. CASE req[r].kind = "plan"
      <3>1. req' = [req EXCEPT ![r].at = "count", ![r].said = req[r].said \cup {"complete"}]
        BY <1>10, <2>1 DEF SayComplete, Typed, One
      <3>2. Becomes(r, "count", req[r].todo, req[r].draft, req[r].said \cup {"complete"})
        BY <3>1, Staged, Completes1, Zenon
      <3>3. QED
        BY <2>0, <2>1, <3>2, StepsQuietly DEF Becomes, Settling, Settled, DraftFits, Unsaid, Drawing
    <2>2. CASE req[r].kind # "plan"
      <3>1. req' = [req EXCEPT ![r].at = "done", ![r].said = req[r].said \cup {"complete"}]
        BY <1>10, <2>2 DEF SayComplete, Typed, One
      <3>2. Becomes(r, "done", req[r].todo, req[r].draft, req[r].said \cup {"complete"})
        BY <3>1, Staged, Completes1, Zenon
      <3>3. QED
        BY <2>0, <2>2, <3>2, StepsQuietly DEF Becomes, Settling, Settled, DraftFits, Unsaid
    <2>3. QED
      BY <2>1, <2>2
  <1>11. CASE CountPlan(r)
    <2>0. req[r].at = "count" /\ Goes(r, "done") /\ month' = month
      BY <1>11, Zenon DEF CountPlan
    <2>1. CASE Increment(r, row)
      BY <2>0, <2>1 DEF Counting, Counts
    <2>2. CASE UNCHANGED <<row, ghosts>>
      <3>1. Becomes(r, "done", req[r].todo, req[r].draft, req[r].said)
        BY <2>0, Staged, Goes1, Zenon
      <3>2. QED
        BY <2>0, <2>2, <3>1, StepsQuietly DEF Becomes, Settling, Settled, DraftFits, Unsaid
    <2>3. QED
      BY <1>11, <2>1, <2>2 DEF CountPlan
  <1>12. CASE SayDone(r)
    BY <1>12, EndsQuietly DEF SayDone, Leaves
  <1>13. QED
    BY <1>1, <1>2, <1>3, <1>4, <1>5, <1>6, <1>8, <1>9, <1>10, <1>11, <1>12
       DEF PlanStep, BrainstormActivities, AdviseBaggage, FetchCoverImage

LEMMA IdeasGoOn ==
  ASSUME Typed, Settling, NEW r \in Requests, IdeasStep(r)  PROVE Quietly(r)
  <1> USE DEF Waiting
  <1>1. req[r].at \in {"origin", "enrich", "rank", "fallback"} /\ UNCHANGED <<month, row, ghosts>>
    BY DEF IdeasStep, ResolveOriginIata, EnrichCandidates, RankWithLlm, LlmOnlyFallback
  <1>2. ASSUME NEW at \in {"rank", "fallback", "complete"}, req[r].at # "origin", Goes(r, at)
        PROVE  Quietly(r)
    <2>1. at \in Stages
      BY <1>2, Staged
    <2>2. Becomes(r, at, req[r].todo, req[r].draft, req[r].said)
      BY <1>2, <2>1, Goes1, Zenon
    <2>3. QED
      BY <1>1, <1>2, <2>2, StepsQuietly DEF Becomes, Settling, Settled, DraftFits, Unsaid
  <1>3. CASE SaysError(r)
    <2>1. Becomes(r, "done", req[r].todo, req[r].draft, req[r].said \cup {"error"})
      BY <1>3, Errs1, Zenon
    <2>2. QED
      BY <1>1, <2>1, StepsQuietly DEF Becomes, Settling, Settled, DraftFits, Unsaid
  <1>4. ASSUME req[r].kind = "ideas", req' = [req EXCEPT ![r].at = "inspire", ![r].todo = {"ideas"}]
        PROVE  Quietly(r)
    <2>1. Becomes(r, "inspire", {"ideas"}, req[r].draft, req[r].said)
      BY <1>4, Staged, Does1, Zenon
    <2>2. QED
      BY <1>1, <1>4, <2>1, StepsQuietly DEF Becomes, Settling, Settled, DraftFits, Unsaid
  <1>5. QED
    BY <1>2, <1>3, <1>4 DEF IdeasStep, ResolveOriginIata, EnrichCandidates, RankWithLlm, LlmOnlyFallback

\* What After makes of a request is no more than one step further.
LEMMA AfterIsFurther ==
  ASSUME Typed, Settling, NEW r \in Requests, NEW task \in req[r].todo, NEW answered \in BOOLEAN,
         NEW one \in After(r, task, answered)
  PROVE  one \in One /\ Further(req[r], one)
  <1> DEFINE a == req[r]
  <1>1. a \in One /\ Settled(a) /\ a.todo # {} /\ a.todo \in Orders /\ task \in Tasks
    BY DEF Typed, One, Settling, Orders
  <1>2. ASSUME NEW todo \in Orders, one = [a EXCEPT !.todo = todo]  PROVE one \in One /\ Further(a, one)
    <2>1. one \in One
      BY <1>1, <1>2 DEF One
    <2>2. /\ one.kind = a.kind /\ one.seen = a.seen /\ one.reset = a.reset /\ one.since = a.since
          /\ one.at = a.at /\ one.draft = a.draft /\ one.said = a.said
      BY <1>1, <1>2 DEF One
    <2>3. QED
      BY <1>1, <2>1, <2>2 DEF Further, Settled, Waiting, DraftFits
  <1>3. ASSUME a.kind = "ideas", NEW at \in {"enrich", "fallback"}, one = [a EXCEPT !.at = at, !.todo = {}]
        PROVE  one \in One /\ Further(a, one)
    <2>1. at \in Stages /\ {} \in Orders
      BY Staged DEF Orders
    <2>2. one \in One
      BY <1>1, <1>3, <2>1 DEF One
    <2>3. /\ one.kind = a.kind /\ one.seen = a.seen /\ one.reset = a.reset /\ one.since = a.since
          /\ one.at = at /\ one.todo = {}
      BY <1>1, <1>3 DEF One
    <2>4. QED
      BY <1>1, <1>3, <2>2, <2>3 DEF Further, Settled, Waiting, DraftFits
  <1>4. (a.todo \ {"stay"}) \cup {"offers"} \in Orders /\ a.todo \ {"stay"} \in Orders /\ a.todo \ {task} \in Orders
    BY <1>1 DEF Orders, Tasks
  <1>5. \/ \E todo \in Orders : one = [a EXCEPT !.todo = todo]
        \/ a.kind = "ideas" /\ \E at \in {"enrich", "fallback"} : one = [a EXCEPT !.at = at, !.todo = {}]
    <2>1. CASE task = "stay" /\ a.kind = "plan" /\ answered
      <3>1. one = [a EXCEPT !.todo = (a.todo \ {"stay"}) \cup {"offers"}] \/ one = [a EXCEPT !.todo = a.todo \ {"stay"}]
        BY <2>1, Zenon DEF After
      <3>2. QED
        BY <1>4, <3>1, Zenon
    <2>2. CASE task = "ideas" /\ a.kind = "ideas"
      <3>1. \E at \in IF answered THEN {"enrich", "fallback"} ELSE {"fallback"} : one = [a EXCEPT !.at = at, !.todo = {}]
        BY <2>2, Zenon DEF After, Inspired
      <3>2. QED
        BY <2>2, <3>1, Zenon
    <2>3. CASE ~(task = "stay" /\ a.kind = "plan" /\ answered) /\ ~(task = "ideas" /\ a.kind = "ideas")
      <3>1. one = [a EXCEPT !.todo = a.todo \ {task}]
        BY <2>3, Zenon DEF After
      <3>2. QED
        BY <1>4, <3>1, Zenon
    <2>4. QED
      BY <2>1, <2>2, <2>3
  <1>6. QED
    BY <1>2, <1>3, <1>5, Zenon

LEMMA AmadeusGoesOn ==
  ASSUME Typed, Settling, NEW r \in Requests, AmadeusStep(r)
  PROVE  UNCHANGED planner \/ Quietly(r)
  <1>1. PICK task : Amadeus(r, task)
    BY DEF AmadeusStep, SearchFlightOffers, ConfirmFlightPrice, SearchFlightDestinations,
           SearchFlightCheapestDates, SearchHotelList, SearchHotelOffers
  <1>2. task \in req[r].todo /\ UNCHANGED <<month, row, ghosts>>
    BY <1>1 DEF Amadeus, CallAmadeus, AmadeusAnswers, AmadeusFails
  <1>3. \/ UNCHANGED req
        \/ \E answered \in BOOLEAN : \E one \in After(r, task, answered) : req' = [req EXCEPT ![r] = one]
    BY <1>1, Zenon DEF Amadeus, CallAmadeus, AmadeusAnswers, AmadeusFails
  <1>4. ASSUME NEW answered \in BOOLEAN, NEW one \in After(r, task, answered), req' = [req EXCEPT ![r] = one]
        PROVE  Quietly(r)
    <2>1. one \in One /\ Further(req[r], one)
      BY <1>2, AfterIsFurther
    <2>2. QED
      BY <1>2, <1>4, <2>1 DEF Quietly, Typed
  <1>5. QED
    BY <1>2, <1>3, <1>4 DEF planner

LEMMA Searches1 ==
  ASSUME Typed, NEW r \in Requests, NEW kind \in Searches, NEW calls \in Orders, StartSearch(r, kind, calls)
  PROVE  Quietly(r)
  <1> DEFINE b == [Idle EXCEPT !.kind = kind, !.at = "search", !.todo = calls]
  <1>1. kind \in Topics /\ "search" \in Stages
    BY DEF Topics, Kinds, Stages
  <1>2. b \in One
    BY <1>1, IdleIs DEF One
  <1>3. b.kind = kind /\ b.at = "search" /\ b.seen = 0 /\ b.reset = 0 /\ b.since = 0
    BY IdleIs DEF One
  <1> HIDE DEF b
  <1>4. req' = [req EXCEPT ![r] = b] /\ UNCHANGED <<month, row, ghosts>> /\ req[r].at = "idle"
    BY Zenon DEF StartSearch, Working, b
  <1>5. Searching(b)
    BY <1>3 DEF Searching
  <1>6. QED
    BY <1>2, <1>4, <1>5 DEF Quietly, Typed

LEMMA Orders1 ==
  /\ {} \in Orders /\ {"search"} \in Orders /\ {"search", "ride"} \in Orders /\ {"price"} \in Orders
  /\ {"ideas"} \in Orders /\ {"dates"} \in Orders /\ {"stay"} \in Orders /\ {"offers"} \in Orders
  /\ "search" \in Searches /\ "multi" \in Searches /\ "price" \in Searches /\ "offers" \in Searches
  /\ "places" \in Searches /\ "dates" \in Searches /\ "hotels" \in Searches
  BY DEF Orders, Tasks, Searches

LEMMA Starting ==
  ASSUME Typed, NEW r \in Requests, Start(r)  PROVE Asking(r) \/ Quietly(r)
  <1>1. ASSUME BrowseOffers(r)  PROVE Quietly(r)
    <2>1. PICK cached \in BOOLEAN : StartSearch(r, "offers", IF cached THEN {} ELSE {"search"})
      BY <1>1 DEF BrowseOffers
    <2>2. (IF cached THEN {} ELSE {"search"}) \in Orders
      BY Orders1
    <2>3. QED
      BY <2>1, <2>2, Orders1, Searches1, Zenon
  <1>2. QED
    BY <1>1, Orders1, Searches1, Zenon
       DEF Start, Asking, CreateSearch, CreateMultiDestSearch, PriceOffer, BrowseDestinations,
           BrowseCheapestDates, BrowseHotels

LEMMA Suggesting ==
  ASSUME NEW r \in Requests, SuggestStep(r)  PROVE Counting(r)
  BY Zenon DEF SuggestStep, SuggestAccommodations, SuggestActivities, SuggestBaggageItems, EstimateBudget,
           Suggest, Counting, Counts

\* What any step does to the quota and to one request.
LEMMA EveryMove ==
  ASSUME Typed, Settling, [Next]_vars  PROVE Moves
  <1>1. ASSUME NEW r \in Requests, Step(r)
        PROVE  UNCHANGED planner \/ CheckQuota(r) \/ Counting(r) \/ Quietly(r)
    <2>1. SearchEnds(r) => Quietly(r)
      BY EndsQuietly, Zenon DEF SearchEnds, Leaves
    <2>2. QED
      BY <1>1, <2>1, PlanGoesOn, IdeasGoOn, AmadeusGoesOn, Suggesting, Zenon DEF Step
  <1>2. ASSUME NEW r \in Requests, Leave(r)  PROVE Quietly(r)
    <2>1. Leaves(req[r])
      BY <1>2 DEF Leave, Leaves, Suggested
    <2>2. QED
      BY <1>2, <2>1, EndsQuietly, Zenon DEF Leave
  <1>3. CASE UNCHANGED vars
    BY <1>3 DEF vars, planner, Moves
  <1>4. CASE (CoolsDown \/ RevokesToken \/ TokenExpires) /\ UNCHANGED <<month, row, req, ghosts>>
    BY <1>4 DEF planner, Moves
  <1>5. QED
    BY <1>1, <1>2, <1>3, <1>4, Starting, Zenon DEF Next, Moves

LEMMA AskIs ==
  ASSUME Typed, NEW r \in Requests, Asking(r)
  PROVE  /\ req' \in [Requests -> One] /\ \A s \in Requests \ {r} : req'[s] = req[s]
         /\ req[r].at = "idle" /\ req'[r].kind \in Drawing /\ req'[r].at = "loaded"
         /\ req'[r].seen = row.count /\ req'[r].reset = row.reset /\ req'[r].since = month
         /\ req'[r].todo = {} /\ req'[r].draft = "none" /\ req'[r].said = {}
         /\ UNCHANGED <<month, row, charged, straddled>>
         /\ overlapped' = (overlapped \/ \E s \in Requests \ {r} : req[s].kind \in Drawing)
  <1>1. PICK kind \in Asks[r] : Ask(r, kind)
    BY DEF Asking
  <1> DEFINE b == [Idle EXCEPT !.kind = kind, !.at = "loaded", !.seen = row.count, !.reset = row.reset,
                               !.since = month]
  <1>2. kind \in Drawing /\ kind \in Topics /\ "loaded" \in Stages
    BY <1>1 DEF Ask, Topics, Kinds, Stages
  <1>3. b \in One
    BY <1>2, IdleIs DEF One, Typed
  <1>4. /\ b.kind = kind /\ b.at = "loaded" /\ b.seen = row.count /\ b.reset = row.reset /\ b.since = month
        /\ b.todo = Idle.todo /\ b.draft = Idle.draft /\ b.said = Idle.said
    BY IdleIs DEF One
  <1>5. Idle.draft = "none" /\ Idle.said = {}
    BY DEF Idle
  <1> HIDE DEF b
  <1>6. req' = [req EXCEPT ![r] = b]
    BY <1>1, Zenon DEF Ask, b
  <1>7. UNCHANGED <<month, row, charged, straddled>> /\ req[r].at = "idle"
    BY <1>1, Zenon DEF Ask, Working
  <1>8. overlapped' = (overlapped \/ \E s \in Requests \ {r} : req[s].kind \in Drawing)
    BY <1>1, Zenon DEF Ask
  <1>9. req' \in [Requests -> One] /\ req'[r] = b /\ \A s \in Requests \ {r} : req'[s] = req[s]
    BY <1>3, <1>6 DEF Typed
  <1>10. QED
    BY <1>2, <1>4, <1>5, <1>7, <1>8, <1>9, IdleIs

\* The row a request has loaded is of an earlier month.
New(r) == req[r].reset \notin {0, month}

\* The count it is checked against: the row's as loaded, or read again after a reset.
Seen(r) == IF ~New(r) THEN req[r].seen ELSE IF req[r].seen = 0 THEN row.count ELSE 0

LEMMA CheckIs ==
  ASSUME Typed, NEW r \in Requests, CheckQuota(r)
  PROVE  /\ req' \in [Requests -> One] /\ \A s \in Requests \ {r} : req'[s] = req[s]
         /\ req[r].at = "loaded" /\ UNCHANGED <<month, charged, overlapped>>
         /\ straddled' = (straddled \/ req[r].since # month)
         /\ New(r) => row'.reset = month /\ row'.count = IF req[r].seen = 0 THEN row.count ELSE 0
         /\ ~New(r) => row' = row
         /\ row' \in [count : Nat, reset : Nat]
         /\ \/ req'[r] = Idle /\ Seen(r) >= Limit
            \/ /\ Seen(r) < Limit
               /\ req'[r].kind = req[r].kind /\ req'[r].since = month /\ req'[r].todo = req[r].todo
               /\ req'[r].draft = req[r].draft /\ req'[r].said = req[r].said
               /\ \/ /\ req[r].kind \in Suggested /\ req'[r].at = "thinking"
                     /\ req'[r].seen = Seen(r)
                     /\ req'[r].reset = (IF New(r) THEN month ELSE req[r].reset)
                  \/ /\ req[r].kind \notin Suggested /\ req'[r].at = "origin"
                     /\ req'[r].seen = 0 /\ req'[r].reset = 0
  <1> DEFINE a == req[r]
             suggested == a.kind \in Suggested
             seen == Seen(r)
             at == IF suggested THEN "thinking" ELSE "origin"
             kept == IF suggested THEN seen ELSE 0
             reset == IF ~suggested THEN 0 ELSE IF New(r) THEN month ELSE a.reset
             b == [a EXCEPT !.at = at, !.seen = kept, !.reset = reset, !.since = month]
  <1>1. a \in One /\ month \in Nat /\ row \in [count : Nat, reset : Nat] /\ Limit \in Nat
    BY PlannerConstantsOK DEF Typed
  <1>2. at \in Stages /\ seen \in Nat /\ kept \in Nat /\ reset \in Nat
    BY <1>1 DEF One, Stages, Seen
  <1>3. req[r].at = "loaded" /\ UNCHANGED <<month, charged, overlapped>>
    BY Zenon DEF CheckQuota
  <1>4. straddled' = (straddled \/ req[r].since # month)
    BY Zenon DEF CheckQuota
  <1>5. row' = IF New(r) THEN [count |-> IF a.seen = 0 THEN row.count ELSE 0, reset |-> month] ELSE row
    BY Zenon DEF CheckQuota, New
  <1>6. req' = [req EXCEPT ![r] = IF seen >= Limit THEN Idle ELSE b]
    BY Zenon DEF CheckQuota, New, Seen
  <1> HIDE DEF at, kept, reset
  <1>7. /\ b \in One /\ b.kind = a.kind /\ b.at = at /\ b.seen = kept /\ b.reset = reset /\ b.since = month
        /\ b.todo = a.todo /\ b.draft = a.draft /\ b.said = a.said
    BY <1>1, <1>2 DEF One
  <1> HIDE DEF b, seen
  <1>8. /\ req' \in [Requests -> One] /\ \A s \in Requests \ {r} : req'[s] = req[s]
        /\ (req'[r] = Idle /\ seen >= Limit) \/ (req'[r] = b /\ ~(seen >= Limit))
    BY <1>6, <1>7, IdleIs DEF Typed
  <1>9. seen >= Limit \/ seen < Limit
    BY <1>1, <1>2
  <1>10. /\ New(r) => row'.reset = month /\ row'.count = IF req[r].seen = 0 THEN row.count ELSE 0
         /\ ~New(r) => row' = row
         /\ row' \in [count : Nat, reset : Nat]
    BY <1>1, <1>5
  <1>11. /\ suggested => at = "thinking" /\ kept = seen /\ reset = IF New(r) THEN month ELSE a.reset
         /\ ~suggested => at = "origin" /\ kept = 0 /\ reset = 0
    BY DEF at, kept, reset
  <1>12. \/ req'[r] = Idle /\ seen >= Limit
         \/ /\ seen < Limit
            /\ req'[r].kind = req[r].kind /\ req'[r].since = month /\ req'[r].todo = req[r].todo
            /\ req'[r].draft = req[r].draft /\ req'[r].said = req[r].said
            /\ \/ /\ req[r].kind \in Suggested /\ req'[r].at = "thinking"
                  /\ req'[r].seen = seen
                  /\ req'[r].reset = (IF New(r) THEN month ELSE req[r].reset)
               \/ /\ req[r].kind \notin Suggested /\ req'[r].at = "origin"
                  /\ req'[r].seen = 0 /\ req'[r].reset = 0
    BY <1>7, <1>8, <1>9, <1>11
  <1>13. QED
    BY <1>3, <1>4, <1>8, <1>10, <1>12 DEF seen

-----------------------------------------------------------------------------
(* Types. *)

LEMMA TypedStep ==
  ASSUME Typed, Settling, [Next]_vars  PROVE Typed' /\ Settling'
  <1>1. ASSUME NEW r \in Requests, Quietly(r)  PROVE Typed' /\ Settling'
    <2>1. Typed'
      BY <1>1 DEF Quietly, Typed, ghosts
    <2>2. Settled(req'[r])
      BY <1>1, IdleIs DEF Quietly, Further, Searching, Settled
    <2>3. Settling'
      BY <1>1, <2>2 DEF Quietly, Settling, Settled
    <2>4. QED
      BY <2>1, <2>3
  <1>2. ASSUME NEW r \in Requests, Counting(r)  PROVE Typed' /\ Settling'
    <2>1. req' \in [Requests -> One] /\ Settling'
      <3>1. CASE req[r].at = "thinking" /\ Ends(r)
        BY <3>1, IdleIs DEF Ends, Typed, Settling, Settled
      <3>2. CASE req[r].at = "count" /\ Goes(r, "done")
        <4>1. Becomes(r, "done", req[r].todo, req[r].draft, req[r].said)
          BY <3>2, Staged, Goes1, Zenon
        <4>2. QED
          BY <3>2, <4>1 DEF Becomes, Settling, Settled
      <3>3. QED
        BY <1>2, <3>1, <3>2, Zenon DEF Counting
    <2>2. month' = month
      BY <1>2 DEF Counting, Counts
    <2>3. PICK loaded \in [count : Nat, reset : Nat] : Increment(r, loaded)
      BY <1>2 DEF Counting, Counts, Typed, One
    <2>4. row' \in [count : Nat, reset : Nat] /\ charged' \in Nat
      BY <2>3 DEF Increment, Typed
    <2>5. QED
      BY <2>1, <2>2, <2>4 DEF Typed
  <1>3. ASSUME NEW r \in Requests, Asking(r)  PROVE Typed' /\ Settling'
    BY <1>3, AskIs DEF Typed, Settling, Settled
  <1>4. ASSUME NEW r \in Requests, CheckQuota(r)  PROVE Typed' /\ Settling'
    BY <1>4, CheckIs, IdleIs DEF Typed, Settling, Settled
  <1>5. CASE MonthEnds
    BY <1>5 DEF MonthEnds, Typed, Settling, Settled
  <1>6. CASE UNCHANGED planner
    BY <1>6 DEF planner, ghosts, Typed, Settling, Settled
  <1>7. QED
    BY <1>1, <1>2, <1>3, <1>4, <1>5, <1>6, EveryMove, Zenon DEF Moves

LEMMA InitTyped == Init => Typed /\ Settling
  BY IdleIs, PlannerConstantsOK DEF Init, Typed, Settling, Settled

\* Every request keeps its type, and has calls under way only where a plan, ideas or a search
\* gathers them (full_plan_orchestrator.py, inspire_orchestrator.py).
THEOREM TypeCorrect == Spec => [](Typed /\ Settling)
  <1>1. Typed /\ Settling /\ [Next]_vars => (Typed /\ Settling)'
    BY TypedStep
  <1>2. QED
    BY <1>1, InitTyped, PTL DEF Spec

-----------------------------------------------------------------------------
(* What is said of the draft. *)

DraftsFit == \A r \in Requests : DraftFits(req[r])

\* How the two ways to count a generation leave the request, and on which row they count.
LEMMA CountingIs ==
  ASSUME Typed, NEW r \in Requests, Counting(r)
  PROVE  /\ req' \in [Requests -> One] /\ \A s \in Requests \ {r} : req'[s] = req[s]
         /\ UNCHANGED <<month, overlapped>>
         /\ charged' = IF req[r].since = month THEN charged + 1 ELSE charged
         /\ straddled' = (straddled \/ req[r].since # month)
         /\ row' \in [count : Nat, reset : Nat]
         /\ \/ /\ req[r].at = "thinking" /\ req'[r] = Idle
               /\ row'.count = req[r].seen + 1
               /\ row'.reset = IF req[r].reset = 0 THEN month ELSE row.reset
            \/ /\ req[r].at = "count" /\ Becomes(r, "done", req[r].todo, req[r].draft, req[r].said)
               /\ row'.count = row.count + 1
               /\ row'.reset = IF row.reset = 0 THEN month ELSE row.reset
  <1>1. ASSUME NEW loaded \in [count : Nat, reset : Nat], Counts(r, loaded)
        PROVE  /\ UNCHANGED <<month, overlapped>>
               /\ charged' = IF req[r].since = month THEN charged + 1 ELSE charged
               /\ straddled' = (straddled \/ req[r].since # month)
               /\ row' \in [count : Nat, reset : Nat]
               /\ row'.count = loaded.count + 1
               /\ row'.reset = IF loaded.reset = 0 THEN month ELSE row.reset
    <2>1. row' = [count |-> loaded.count + 1, reset |-> IF loaded.reset = 0 THEN month ELSE row.reset]
      BY <1>1, Zenon DEF Counts, Increment
    <2>2. straddled' = (straddled \/ req[r].since # month) /\ UNCHANGED <<month, overlapped>>
      BY <1>1, Zenon DEF Counts, Increment
    <2>3. charged' = IF req[r].since = month THEN charged + 1 ELSE charged
      BY <1>1 DEF Counts, Increment
    <2>4. QED
      BY <2>1, <2>2, <2>3 DEF Typed
  <1>2. CASE req[r].at = "thinking" /\ Ends(r) /\ Counts(r, [count |-> req[r].seen, reset |-> req[r].reset])
    <2> DEFINE loaded == [count |-> req[r].seen, reset |-> req[r].reset]
    <2>1. loaded \in [count : Nat, reset : Nat] /\ loaded.count = req[r].seen /\ loaded.reset = req[r].reset
      BY DEF Typed, One
    <2>2. req' \in [Requests -> One] /\ (\A s \in Requests \ {r} : req'[s] = req[s]) /\ req'[r] = Idle
      BY <1>2, IdleIs DEF Ends, Typed
    <2> HIDE DEF loaded
    <2>3. Counts(r, loaded)
      BY <1>2 DEF loaded
    <2>4. QED
      BY <1>1, <1>2, <2>1, <2>2, <2>3
  <1>3. CASE req[r].at = "count" /\ Counts(r, row) /\ Goes(r, "done")
    <2>1. Becomes(r, "done", req[r].todo, req[r].draft, req[r].said)
      BY <1>3, Staged, Goes1, Zenon
    <2>2. row \in [count : Nat, reset : Nat]
      BY DEF Typed
    <2>3. QED
      BY <1>1, <1>3, <2>1, <2>2 DEF Becomes
  <1>4. QED
    BY <1>2, <1>3 DEF Counting

LEMMA DraftsFitStep ==
  ASSUME Typed, Settling, DraftsFit, [Next]_vars  PROVE DraftsFit'
  <1>1. ASSUME NEW r \in Requests, Quietly(r)  PROVE DraftsFit'
    <2>1. DraftFits(req'[r])
      <3>1. CASE req'[r] = Idle
        BY <3>1, IdleIs DEF DraftFits
      <3>2. CASE Further(req[r], req'[r])
        BY <3>2 DEF Further, DraftsFit
      <3>3. CASE Searching(req'[r])
        BY <3>3 DEF Searching, DraftFits, Searches
      <3>4. QED
        BY <1>1, <3>1, <3>2, <3>3 DEF Quietly
    <2>2. QED
      BY <1>1, <2>1 DEF Quietly, DraftsFit
  <1>2. ASSUME NEW r \in Requests, Counting(r)  PROVE DraftsFit'
    <2>1. DraftFits(req'[r])
      BY <1>2, CountingIs, IdleIs DEF DraftsFit, DraftFits, Becomes, Unsaid
    <2>2. QED
      BY <1>2, <2>1, CountingIs DEF DraftsFit
  <1>3. ASSUME NEW r \in Requests, Asking(r)  PROVE DraftsFit'
    <2>1. DraftFits(req'[r])
      BY <1>3, AskIs DEF DraftFits, Unsaid
    <2>2. QED
      BY <1>3, <2>1, AskIs DEF DraftsFit
  <1>4. ASSUME NEW r \in Requests, CheckQuota(r)  PROVE DraftsFit'
    <2>1. DraftFits(req'[r])
      BY <1>4, CheckIs, IdleIs DEF DraftsFit, DraftFits, Unsaid, Suggested
    <2>2. QED
      BY <1>4, <2>1, CheckIs DEF DraftsFit
  <1>5. CASE MonthEnds
    BY <1>5 DEF MonthEnds, DraftsFit
  <1>6. CASE UNCHANGED planner
    BY <1>6 DEF planner, DraftsFit
  <1>7. QED
    BY <1>1, <1>2, <1>3, <1>4, <1>5, <1>6, EveryMove, Zenon DEF Moves

\* What a stream says of the draft of a plan is so: once "complete" is said the draft is whole
\* and no error is said of it, and only a plan called complete is counted, whichever of the two
\* commits fails or loses its answer (plan_draft_service.py, trip_planner_service.py).
THEOREM TrueToTheDraft == Spec => []DraftAsSaid
  <1>1. Init => DraftsFit
    BY IdleIs DEF Init, DraftsFit, DraftFits
  <1>2. DraftsFit => DraftAsSaid
    BY DEF DraftsFit, DraftFits, DraftAsSaid, Unsaid
  <1>3. Typed /\ Settling /\ DraftsFit /\ [Next]_vars => DraftsFit'
    BY DraftsFitStep
  <1>4. QED
    BY <1>1, <1>2, <1>3, TypeCorrect, PTL DEF Spec

-----------------------------------------------------------------------------
(* What the user is charged for. *)

\* The months that requests and the row are of.
OnTime(a) ==
    /\ a.since <= month /\ a.reset <= month
    /\ a.reset = 0 => a.seen = 0
    /\ a.reset # 0 => row.reset # 0

Dated ==
    /\ row.reset <= month /\ (row.reset = 0 => row.count = 0)
    /\ \A r \in Requests : OnTime(req[r])

\* What a request of this month has loaded of the row owes nothing to another month: it is
\* this month's, or the row still is as it was loaded, or another request has reset it since.
Owed(a) ==
    a.since = month =>
        /\ a.at = "loaded" =>
              /\ a.reset = month => row.reset = month /\ a.seen <= charged
              /\ a.reset \notin {0, month} =>
                    row.reset = month \/ (row.reset = a.reset /\ row.count = a.seen)
              /\ a.reset = 0 => row.reset \in {0, month}
        /\ a.at # "loaded" =>
              /\ row.reset \in {0, month}
              /\ a.reset # 0 => a.reset = month /\ row.reset = month /\ a.seen <= charged

Paid == row.reset = month => row.count <= charged

Charged == ~straddled => Paid /\ \A r \in Requests : Owed(req[r])

LEMMA DatedStep ==
  ASSUME Typed, Settling, Dated, [Next]_vars  PROVE Dated'
  <1> USE DEF Typed, One
  <1>1. ASSUME NEW r \in Requests, Quietly(r)  PROVE Dated'
    BY <1>1, IdleIs DEF Quietly, Further, Searching, Dated, OnTime
  <1>2. ASSUME NEW r \in Requests, Counting(r)  PROVE Dated'
    <2>1. row'.reset <= month /\ row'.reset # 0
      BY <1>2, CountingIs DEF Dated, OnTime
    <2>2. OnTime(req[r])'
      BY <1>2, <2>1, CountingIs, IdleIs DEF Dated, OnTime, Becomes
    <2>3. QED
      BY <1>2, <2>1, <2>2, CountingIs DEF Dated, OnTime
  <1>3. ASSUME NEW r \in Requests, Asking(r)  PROVE Dated'
    BY <1>3, AskIs DEF Dated, OnTime
  <1>4. ASSUME NEW r \in Requests, CheckQuota(r)  PROVE Dated'
    <2>1. row'.reset <= month /\ (row'.reset = 0 => row'.count = 0) /\ (row.reset # 0 => row'.reset # 0)
      BY <1>4, CheckIs DEF Dated, New
    <2>2. OnTime(req[r])'
      BY <1>4, <2>1, CheckIs, IdleIs DEF Dated, OnTime, New, Seen
    <2>3. QED
      BY <1>4, <2>1, <2>2, CheckIs DEF Dated, OnTime
  <1>5. CASE MonthEnds
    BY <1>5 DEF MonthEnds, Dated, OnTime
  <1>6. CASE UNCHANGED planner
    BY <1>6 DEF planner, Dated, OnTime
  <1>7. QED
    BY <1>1, <1>2, <1>3, <1>4, <1>5, <1>6, EveryMove, Zenon DEF Moves

LEMMA ChargedStep ==
  ASSUME Typed, Settling, Dated, Charged, [Next]_vars  PROVE Charged'
  <1> USE DEF Typed, One
  <1>1. ASSUME NEW r \in Requests, Quietly(r)  PROVE Charged'
    <2>1. UNCHANGED <<row, month, charged, straddled>>
      BY <1>1 DEF Quietly, ghosts
    <2>2. Owed(req[r]) => Owed(req[r])'
      BY <1>1, <2>1, IdleIs DEF Quietly, Further, Searching, Owed, Waiting
    <2>3. QED
      BY <1>1, <2>1, <2>2 DEF Quietly, Charged, Paid, Owed
  <1>2. ASSUME NEW r \in Requests, Counting(r), ~straddled'  PROVE Charged'
    <2>1. ~straddled /\ req[r].since = month /\ Owed(req[r]) /\ Paid
      BY <1>2, CountingIs DEF Charged
    <2>2. row'.reset = month /\ row'.count <= charged' /\ charged <= charged'
      BY <1>2, <2>1, CountingIs DEF Owed, Paid, Dated, OnTime
    <2>3. row.reset \in {0, month}
      BY <1>2, <2>1, CountingIs DEF Owed
    <2>4. Owed(req[r])'
      BY <1>2, <2>1, <2>2, CountingIs, IdleIs DEF Owed, Becomes
    <2>5. ASSUME NEW s \in Requests \ {r}  PROVE Owed(req[s])'
      <3> DEFINE c == req[s]
      <3>1. Owed(c) /\ c' = c /\ month' = month
        BY <1>2, <2>1, CountingIs DEF Charged
      <3>2. c.seen \in Nat /\ (c.seen <= charged => c.seen <= charged')
        BY <1>2, <2>2, CountingIs
      <3> HIDE DEF c
      <3>3. Owed(c)'
        BY <2>2, <2>3, <3>1, <3>2, Zenon DEF Owed
      <3>4. QED
        BY <3>3 DEF c
    <2>6. QED
      BY <1>2, <2>2, <2>4, <2>5, CountingIs DEF Charged, Paid
  <1>3. ASSUME NEW r \in Requests, Asking(r)  PROVE Charged'
    <2>1. Paid => Owed(req[r])'
      BY <1>3, AskIs DEF Owed, Paid
    <2>2. QED
      BY <1>3, <2>1, AskIs DEF Charged, Paid, Owed
  <1>4. ASSUME NEW r \in Requests, CheckQuota(r), ~straddled'  PROVE Charged'
    <2>1. ~straddled /\ req[r].since = month /\ Owed(req[r]) /\ Paid /\ UNCHANGED <<month, charged>>
          /\ req[r].at = "loaded"
      BY <1>4, CheckIs DEF Charged
    <2>2. row'.reset = month => row'.count <= charged
      BY <1>4, <2>1, CheckIs DEF Owed, Paid, Dated, OnTime, New
    <2>3. Owed(req[r])'
      BY <1>4, <2>1, <2>2, CheckIs, IdleIs DEF Owed, New, Seen
    <2>4. ASSUME NEW s \in Requests \ {r}  PROVE Owed(req[s])'
      <3> DEFINE c == req[s]
      <3>1. Owed(c) /\ c' = c
        BY <1>4, <2>1, CheckIs DEF Charged
      <3>2. row' = row \/ row'.reset = month
        BY <1>4, CheckIs
      <3> HIDE DEF c
      <3>3. Owed(c)'
        BY <2>1, <3>1, <3>2, Zenon DEF Owed
      <3>4. QED
        BY <3>3 DEF c
    <2>5. QED
      BY <2>1, <2>2, <2>3, <2>4 DEF Charged, Paid
  <1>5. CASE MonthEnds
    BY <1>5 DEF MonthEnds, Dated, OnTime, Charged, Owed, Paid
  <1>6. CASE UNCHANGED planner
    BY <1>6 DEF planner, ghosts, Charged, Owed, Paid
  <1>7. QED
    BY <1>1, <1>2, <1>3, <1>4, <1>5, <1>6, EveryMove, Zenon DEF Moves, Charged

\* The user pays for no generation of another month, unless a request was under way when
\* the month ended: however many requests overlap, over any number of months
\* (plan_service.py, check_ai_generation_quota and increment_ai_generation).
THEOREM ChargedOnlyForTheMonth == Spec => []NeverOvercharged
  <1>1. Init => Dated /\ Charged
    <2>1. ASSUME Init  PROVE Dated /\ Charged
      <3>1. month = 1 /\ row.reset = 0 /\ row.count = 0 /\ \A r \in Requests : req[r] = Idle
        BY <2>1 DEF Init
      <3>2. Dated
        BY <3>1, IdleIs DEF Dated, OnTime
      <3>3. Charged
        BY <3>1, IdleIs DEF Charged, Owed, Paid
      <3>4. QED
        BY <3>2, <3>3
    <2>2. QED
      BY <2>1
  <1>2. Charged => NeverOvercharged
    BY DEF Charged, Paid, NeverOvercharged
  <1>3. Typed /\ Settling /\ Dated /\ [Next]_vars => Dated'
    BY DatedStep
  <1>4. Typed /\ Settling /\ Dated /\ Charged /\ [Next]_vars => Charged'
    BY ChargedStep
  <1>5. QED
    BY <1>1, <1>2, <1>3, <1>4, TypeCorrect, PTL DEF Spec

-----------------------------------------------------------------------------
(* The quota of a user who makes one request after the other. *)

QuotaAlone == ~overlapped => charged <= Limit

\* Only what draws on the quota is loaded, waits for its suggestion, or has a month.
Draws(a) ==
    /\ a.at \in {"loaded", "thinking", "count"} => a.kind \in Drawing
    /\ a.since # 0 => a.kind \in Drawing

Drawn == \A r \in Requests : Draws(req[r])

\* Only one request draws on the quota; until it is counted the row is as it was loaded,
\* and once it is let through there is room for it.
RoomFor(a) ==
    /\ a.at \in {"loaded", "thinking"} => row.count = a.seen /\ row.reset = a.reset
    /\ a.at \notin {"loaded", "done", "idle"} /\ a.since = month =>
           charged < Limit /\ row.reset \in {0, month}

Within ==
    /\ charged <= Limit
    /\ charged > 0 => row.reset = month /\ charged <= row.count
    /\ \A r \in Requests : RoomFor(req[r])
    /\ \A r, s \in Requests : req[r].kind \in Drawing /\ req[s].kind \in Drawing => r = s

OneByOne == ~overlapped => Within

LEMMA DrawnStep ==
  ASSUME Typed, Settling, Drawn, [Next]_vars  PROVE Drawn'
  <1>1. ASSUME NEW r \in Requests, Quietly(r)  PROVE Drawn'
    <2>1. Draws(req[r])'
      BY <1>1, IdleIs DEF Quietly, Further, Searching, Drawn, Draws, Waiting
    <2>2. QED
      BY <1>1, <2>1 DEF Quietly, Drawn, Draws
  <1>2. ASSUME NEW r \in Requests, Counting(r)  PROVE Drawn'
    <2>1. Draws(req[r])'
      BY <1>2, CountingIs, IdleIs DEF Drawn, Draws, Becomes
    <2>2. QED
      BY <1>2, <2>1, CountingIs DEF Drawn, Draws
  <1>3. ASSUME NEW r \in Requests, Asking(r)  PROVE Drawn'
    BY <1>3, AskIs DEF Drawn, Draws
  <1>4. ASSUME NEW r \in Requests, CheckQuota(r)  PROVE Drawn'
    <2>1. Draws(req[r])'
      BY <1>4, CheckIs, IdleIs DEF Drawn, Draws
    <2>2. QED
      BY <1>4, <2>1, CheckIs DEF Drawn, Draws
  <1>5. CASE MonthEnds
    BY <1>5 DEF MonthEnds, Drawn, Draws
  <1>6. CASE UNCHANGED planner
    BY <1>6 DEF planner, Drawn, Draws
  <1>7. QED
    BY <1>1, <1>2, <1>3, <1>4, <1>5, <1>6, EveryMove, Zenon DEF Moves

\* A request that draws on nothing is owed no room.
LEMMA OthersFit ==
  ASSUME Typed, NEW a \in One, Draws(a), a.kind \notin Drawing  PROVE RoomFor(a)
  BY DEF Draws, RoomFor, Typed

LEMMA OneByOneStep ==
  ASSUME Typed, Settling, Dated, Drawn, OneByOne, [Next]_vars  PROVE OneByOne'
  <1>0. Typed' /\ Drawn'
    BY TypedStep, DrawnStep
  <1>1. ASSUME NEW r \in Requests, Quietly(r), Within  PROVE Within'
    <2>1. UNCHANGED <<row, month, charged, overlapped>>
      BY <1>1 DEF Quietly, ghosts
    <2>2. RoomFor(req[r])'
      <3>1. CASE req'[r] = Idle
        BY <2>1, <3>1, IdleIs DEF RoomFor
      <3>2. CASE Searching(req'[r])
        BY <2>1, <3>2 DEF Searching, RoomFor, Typed
      <3>3. CASE Further(req[r], req'[r])
        BY <1>1, <2>1, <3>3 DEF Further, Within, RoomFor, Waiting
      <3>4. QED
        BY <1>1, <3>1, <3>2, <3>3 DEF Quietly
    <2>3. req'[r].kind \in Drawing => req[r].kind \in Drawing
      BY <1>1, IdleIs DEF Quietly, Further, Searching, Drawing, Suggested, Searches
    <2>4. QED
      BY <1>1, <2>1, <2>2, <2>3 DEF Quietly, Within, RoomFor
  <1>2. ASSUME NEW r \in Requests, Counting(r), Within  PROVE Within'
    <2>1. req[r].kind \in Drawing /\ req[r].at \in {"thinking", "count"}
      BY <1>2, CountingIs DEF Drawn, Draws
    <2>2. \A s \in Requests \ {r} : req'[s].kind \notin Drawing
      BY <1>2, <2>1, CountingIs DEF Within
    <2>3. ASSUME NEW s \in Requests \ {r}  PROVE RoomFor(req[s])'
      BY <1>0, <2>2, <2>3, OthersFit DEF Typed, Drawn, Draws, RoomFor
    <2>4. RoomFor(req[r])'
      BY <1>2, CountingIs, IdleIs DEF RoomFor, Becomes
    <2>5. row'.count = row.count + 1
      BY <1>2, CountingIs DEF Within, RoomFor
    <2>6. row.reset = month => row'.reset = month
      BY <1>2, CountingIs
    <2>7. CASE req[r].since = month
      <3>1. charged < Limit /\ row'.reset = month /\ charged' = charged + 1
        BY <1>2, <2>7, CountingIs DEF Within, RoomFor
      <3>2. charged' <= Limit /\ charged' <= row'.count
        BY <1>2, <2>5, <3>1, PlannerConstantsOK DEF Within, Typed
      <3>3. QED
        BY <1>2, <2>2, <2>3, <2>4, <3>1, <3>2, CountingIs DEF Within
    <2>8. CASE req[r].since # month
      <3>1. charged' = charged
        BY <1>2, <2>8, CountingIs
      <3>2. charged > 0 => charged <= row'.count
        BY <1>2, <2>5 DEF Within, Typed
      <3>3. QED
        BY <1>2, <2>2, <2>3, <2>4, <2>6, <3>1, <3>2, CountingIs DEF Within
    <2>9. QED
      BY <2>7, <2>8
  <1>3. ASSUME NEW r \in Requests, Asking(r), ~overlapped', Within  PROVE Within'
    <2>1. \A s \in Requests \ {r} : req'[s].kind \notin Drawing
      BY <1>3, AskIs
    <2>2. UNCHANGED <<row, month, charged>>
      BY <1>3, AskIs
    <2>3. RoomFor(req[r])'
      BY <1>3, AskIs DEF RoomFor
    <2>4. \A s \in Requests \ {r} : RoomFor(req[s])'
      BY <1>3, <2>2, AskIs DEF Within, RoomFor
    <2>5. QED
      BY <1>3, <2>1, <2>2, <2>3, <2>4 DEF Within
  <1>4. ASSUME NEW r \in Requests, CheckQuota(r), Within  PROVE Within'
    <2>1. req[r].kind \in Drawing /\ row.count = req[r].seen /\ row.reset = req[r].reset
      BY <1>4, CheckIs DEF Drawn, Draws, Within, RoomFor
    <2>2. \A s \in Requests \ {r} : req'[s].kind \notin Drawing
      BY <1>4, <2>1, CheckIs DEF Within
    <2>3. UNCHANGED <<month, charged>>
      BY <1>4, CheckIs
    <2>4. charged > 0 => ~New(r) /\ row' = row
      BY <1>4, <2>1, CheckIs DEF Within, New
    <2>5. New(r) => charged = 0 /\ row'.count = 0 /\ row'.reset = month
      BY <1>4, <2>1, <2>4, CheckIs DEF Typed
    <2>6. ~New(r) => row' = row /\ row.reset \in {0, month}
      BY <1>4, <2>1, CheckIs DEF New
    <2>7. RoomFor(req[r])'
      <3>1. CASE req'[r] = Idle
        BY <3>1, IdleIs DEF RoomFor
      <3>2. CASE req'[r] # Idle
        <4>1. charged < Limit
          <5>1. New(r) \/ req[r].seen < Limit
            BY <1>4, <3>2, CheckIs DEF Seen
          <5>2. QED
            BY <1>4, <2>1, <2>5, <5>1, PlannerConstantsOK DEF Within, Typed
        <4>2. row'.reset \in {0, month}
          BY <2>5, <2>6
        <4>3. req'[r].at = "thinking" => row'.count = req'[r].seen /\ row'.reset = req'[r].reset
          BY <1>4, <2>1, <2>5, <2>6, <3>2, CheckIs DEF Seen
        <4>4. req'[r].at \in {"thinking", "origin"}
          BY <1>4, <3>2, CheckIs
        <4>5. QED
          BY <2>3, <4>1, <4>2, <4>3, <4>4 DEF RoomFor
      <3>3. QED
        BY <3>1, <3>2
    <2>8. ASSUME NEW s \in Requests \ {r}  PROVE RoomFor(req[s])'
      BY <1>0, <2>2, <2>8, OthersFit DEF Typed, Drawn, Draws, RoomFor
    <2>9. QED
      BY <1>4, <2>2, <2>3, <2>4, <2>7, <2>8 DEF Within
  <1>5. ASSUME MonthEnds, Within  PROVE Within'
    BY <1>5, PlannerConstantsOK DEF MonthEnds, Dated, OnTime, Within, RoomFor, Typed, One
  <1>6. CASE UNCHANGED planner
    BY <1>6 DEF planner, ghosts, OneByOne, Within, RoomFor
  <1>7. ASSUME NEW r \in Requests, Asking(r)  PROVE ~overlapped' => ~overlapped
    BY <1>7, AskIs
  <1>8. ASSUME NEW r \in Requests, Quietly(r) \/ Counting(r) \/ CheckQuota(r)  PROVE overlapped' = overlapped
    BY <1>8, CountingIs, CheckIs DEF Quietly, ghosts
  <1>9. MonthEnds => overlapped' = overlapped
    BY DEF MonthEnds
  <1>10. QED
    BY <1>1, <1>2, <1>3, <1>4, <1>5, <1>6, <1>7, <1>8, <1>9, EveryMove, Zenon DEF Moves, OneByOne

\* Who makes one request after the other gets no more generations in a month than the
\* limit, whatever the months do: the half of WithinQuota that is about such a user, for
\* any limit (plan_guard.py, plan_service.py).
THEOREM QuotaHolds == Spec => []QuotaAlone
  <1>1. Init => Dated /\ Drawn /\ OneByOne
    <2>1. ASSUME Init  PROVE Dated /\ Drawn /\ OneByOne
      <3>1. /\ month = 1 /\ row.reset = 0 /\ row.count = 0 /\ charged = 0
            /\ \A r \in Requests : req[r] = Idle
        BY <2>1 DEF Init
      <3>2. Dated
        BY <3>1, IdleIs DEF Dated, OnTime
      <3>3. Drawn
        BY <3>1, IdleIs DEF Drawn, Draws
      <3>4. "none" \notin Drawing
        BY DEF Drawing, Suggested
      <3>5. OneByOne
        BY <3>1, <3>4, IdleIs, PlannerConstantsOK DEF OneByOne, Within, RoomFor
      <3>6. QED
        BY <3>2, <3>3, <3>5
    <2>2. QED
      BY <2>1
  <1>2. OneByOne => QuotaAlone
    BY DEF OneByOne, Within, QuotaAlone
  <1>3. Typed /\ Settling /\ Dated /\ [Next]_vars => Dated'
    BY DatedStep
  <1>4. Typed /\ Settling /\ Drawn /\ [Next]_vars => Drawn'
    BY DrawnStep
  <1>5. Typed /\ Settling /\ Dated /\ Drawn /\ OneByOne /\ [Next]_vars => OneByOne'
    BY OneByOneStep
  <1>6. QED
    BY <1>1, <1>2, <1>3, <1>4, <1>5, TypeCorrect, PTL DEF Spec
-----------------------------------------------------------------------------
(* The quota of a user who makes two requests at a time. *)

\* What a request can still yield while another one, d below the limit, holds its count:
\* the counts up to the limit, again after each time the count held is written back.
Yield(d) == (d * (d + 3)) \div 2

Bound == Yield(Limit) + Limit + 1

LEMMA Yields ==
  /\ \A d \in Nat : Yield(d) \in Nat /\ Yield(d + 1) = Yield(d) + d + 2
  /\ \A c, d \in Nat : c <= d => Yield(d) >= Yield(c) + 2 * (d - c)
  /\ Yield(0) = 0 /\ Yield(1) = 2 /\ Bound \in Nat
  <1>1. ASSUME NEW x \in Nat, NEW y \in Nat  PROVE (x + 2 * y) \div 2 = x \div 2 + y /\ x \div 2 \in Nat
    OBVIOUS
  <1>2. ASSUME NEW x \in Nat, NEW y \in Nat, x <= y  PROVE x \div 2 <= y \div 2
    BY <1>2
  <1>3. ASSUME NEW d \in Nat  PROVE Yield(d) \in Nat /\ Yield(d + 1) = Yield(d) + d + 2
    <2>1. d * (d + 3) \in Nat /\ d + 2 \in Nat
      OBVIOUS
    <2>2. (d + 1) * ((d + 1) + 3) = d * (d + 3) + 2 * (d + 2)
      OBVIOUS
    <2>3. Yield(d + 1) = Yield(d) + (d + 2)
      BY <1>1, <2>1, <2>2, Zenon DEF Yield
    <2>4. Yield(d) \in Nat
      BY <1>1, <2>1 DEF Yield
    <2>5. QED
      BY <2>3, <2>4
  <1>4. ASSUME NEW c \in Nat, NEW d \in Nat, c <= d  PROVE Yield(d) >= Yield(c) + 2 * (d - c)
    <2>1. c * (c + 3) \in Nat /\ d * (d + 3) \in Nat /\ 2 * (d - c) \in Nat
      BY <1>4
    <2>2. d * (d + 3) >= c * (c + 3) + 2 * (2 * (d - c))
      <3>1. CASE c = d
        BY <3>1
      <3>2. CASE c < d
        <4>1. d * (d + 3) - c * (c + 3) = (d - c) * (c + d + 3)
          OBVIOUS
        <4>2. c + d + 3 >= 4 /\ d - c \in Nat
          BY <3>2
        <4>3. (d - c) * (c + d + 3) >= (d - c) * 4
          BY <4>2
        <4>4. QED
          BY <2>1, <4>1, <4>3
      <3>3. QED
        BY <1>4, <3>1, <3>2
    <2>3. (c * (c + 3) + 2 * (2 * (d - c))) \div 2 = Yield(c) + 2 * (d - c)
      BY <1>1, <2>1, Zenon DEF Yield
    <2>4. c * (c + 3) + 2 * (2 * (d - c)) \in Nat
      BY <2>1
    <2>5. QED
      BY <1>2, <2>1, <2>2, <2>3, <2>4 DEF Yield
  <1>5. Yield(0) = 0 /\ Yield(1) = 2
    BY DEF Yield
  <1>6. Bound \in Nat
    BY <1>3, PlannerConstantsOK DEF Bound
  <1>7. QED
    BY <1>3, <1>4, <1>5, <1>6

\* With charge generations charged, one request at count x and the other at y: what the
\* first can yield from there, the other's lead spent, stays within the bound.
Ahead(charge, x, y) == x <= y => charge + Yield(Limit - x) + x <= Bound + y

\* A charge of the months before leaves room for all of it.
LEMMA FreshMonth ==
  ASSUME NEW charge \in Nat, NEW x \in 0..Limit, NEW y \in Nat, charge <= 1 + y
  PROVE  Ahead(charge, x, y)
  <1>1. Limit \in Nat /\ Limit - x \in Nat /\ x \in Nat
    BY PlannerConstantsOK
  <1>2. Yield(Limit) >= Yield(Limit - x) + 2 * (Limit - (Limit - x))
    BY <1>1, Yields
  <1>3. Yield(Limit) \in Nat /\ Yield(Limit - x) \in Nat
    BY <1>1, Yields
  <1>4. QED
    BY <1>1, <1>2, <1>3 DEF Ahead, Bound

\* One is counted where it stands and stands one further: the other where it stood, or
\* beside it, or at the last count below the limit.
LEMMA OneCounted ==
  ASSUME NEW charge \in Nat, NEW charge1 \in Nat, charge1 <= charge + 1,
         NEW x \in Nat, x < Limit, NEW y \in 0..Limit, NEW y1 \in Nat,
         y1 = y \/ y1 = x + 1 \/ (y1 = x /\ y <= x /\ x + 1 = Limit),
         Ahead(charge, x, y), Ahead(charge, y, x)
  PROVE  Ahead(charge1, x + 1, y1) /\ Ahead(charge1, y1, x + 1)
  <1>1. Limit \in Nat /\ y \in Nat /\ y <= Limit
    BY PlannerConstantsOK
  <1> DEFINE d == Limit - (x + 1)
             e == Limit - y
  <1>2. d \in Nat /\ e \in Nat /\ Limit - x = d + 1 /\ d = Limit - (x + 1) /\ e = Limit - y
    BY <1>1
  <1> HIDE DEF d, e
  <1>3. Yield(d) \in Nat /\ Yield(e) \in Nat /\ Yield(d + 1) = Yield(d) + d + 2 /\ Bound \in Nat
    BY <1>2, Yields
  <1>4. x <= y => charge + Yield(d + 1) + x <= Bound + y
    BY <1>2 DEF Ahead
  <1>5. y <= x => charge + Yield(e) + y <= Bound + x
    BY <1>2 DEF Ahead
  <1>6. y <= x => Yield(e) >= Yield(d + 1) + 2 * (x - y)
    <2>1. ASSUME y <= x  PROVE Yield(e) >= Yield(d + 1) + 2 * (e - (d + 1))
      BY <1>1, <1>2, <2>1, Yields
    <2>2. QED
      BY <1>1, <1>2, <1>3, <2>1
  <1>7. CASE y1 = y
    <2>1. x + 1 <= y => charge1 + Yield(d) + (x + 1) <= Bound + y
      BY <1>1, <1>2, <1>3, <1>4
    <2>2. y <= x + 1 => charge1 + Yield(e) + y <= Bound + (x + 1)
      <3>1. CASE y <= x
        BY <1>1, <1>3, <1>5, <3>1
      <3>2. CASE y = x + 1
        <4>1. e = d
          BY <1>1, <1>2, <3>2
        <4>2. QED
          BY <1>1, <1>2, <1>3, <2>1, <3>2, <4>1
      <3>3. QED
        BY <1>1, <3>1, <3>2
    <2>3. QED
      BY <1>2, <1>7, <2>1, <2>2 DEF Ahead
  <1>8. CASE y1 = x + 1
    <2>1. charge1 + Yield(d) + (x + 1) <= Bound + (x + 1)
      <3>1. CASE x <= y
        BY <1>1, <1>2, <1>3, <1>4, <3>1
      <3>2. CASE y <= x
        BY <1>1, <1>2, <1>3, <1>5, <1>6, <3>2
      <3>3. QED
        BY <1>1, <3>1, <3>2
    <2>2. QED
      BY <1>2, <1>8, <2>1 DEF Ahead
  <1>9. CASE y1 = x /\ y <= x /\ x + 1 = Limit
    <2>1. d = 0 /\ Limit - y1 = 1 /\ Yield(1) = 2 /\ Yield(d + 1) = 2
      <3>1. d = 0 /\ Limit - y1 = 1
        BY <1>1, <1>2, <1>9
      <3>2. QED
        BY <3>1, Yields
    <2>2. charge1 + Yield(1) + y1 <= Bound + (x + 1)
      BY <1>1, <1>3, <1>5, <1>6, <1>9, <2>1
    <2>3. QED
      BY <1>9, <2>1, <2>2 DEF Ahead
  <1>10. QED
    BY <1>7, <1>8, <1>9

\* A plan ends uncounted at the limit.
LEMMA OneGone ==
  ASSUME NEW charge \in Nat, Ahead(charge, Limit - 1, Limit)
  PROVE  Ahead(charge, Limit, Limit)
  <1>1. Limit \in Nat /\ Limit - (Limit - 1) = 1 /\ Limit - Limit = 0
    BY PlannerConstantsOK
  <1>2. charge + Yield(1) + (Limit - 1) <= Bound + Limit
    BY <1>1 DEF Ahead
  <1>3. charge + Yield(0) + Limit <= Bound + Limit
    BY <1>1, <1>2, Yields
  <1>4. QED
    BY <1>1, <1>3 DEF Ahead

-----------------------------------------------------------------------------

Outdated(a) == a.at = "loaded" /\ a.reset \notin {0, month}

\* A plan or ideas let through and not yet counted.
Admitted(a) == a.at \notin {"idle", "loaded", "thinking", "done"} /\ a.since # 0

\* What will write back the count it has read, or raise the row's.
Keeps(a) == \/ a.at = "thinking"
            \/ a.at = "loaded" /\ ~Outdated(a) /\ a.seen < Limit /\ a.kind \in Suggested

Adds(a) == \/ Admitted(a)
           \/ a.at = "loaded" /\ ~Outdated(a) /\ a.seen < Limit /\ a.kind \notin Suggested

Least(x, y) == IF x <= y THEN x ELSE y

\* The count from which a request goes on.
Place(a) == IF Keeps(a) THEN a.seen
            ELSE IF Outdated(a) THEN 0
            ELSE Least(row.count, IF Adds(a) THEN Limit - 1 ELSE Limit)

\* It may yet be counted.
Roomy(a) == a.at = "thinking" \/ Admitted(a) \/ (a.at = "loaded" /\ a.seen < Limit)

\* It has loaded a row never counted on, and may count on it.
Blank(a) == a.at \in {"loaded", "thinking"} /\ a.reset = 0

\* It will be counted this month without a reset.
Early(a) == \/ a.at = "loaded" /\ a.reset = 0
            \/ (a.at = "thinking" \/ Admitted(a)) /\ a.since = month

Sound(a) ==
    /\ a.kind \in Drawing => a.since # 0
    /\ a.at = "thinking" => /\ a.kind \in Suggested /\ a.seen < Limit
                            /\ a.since = month => a.reset \in {0, month}
    /\ a.at \in {"loaded", "thinking"} /\ a.reset = month => row.reset = month

Between(a, b) ==
    /\ Outdated(a) => charged <= 1 + Place(b)
    /\ Outdated(b) => charged <= 1 + Place(a)
    /\ ~Outdated(a) /\ ~Outdated(b) =>
          Ahead(charged, Place(a), Place(b)) /\ Ahead(charged, Place(b), Place(a))

\* Once the limit is reached only one of two may yet be counted; only one of them has
\* loaded a row never counted on, once it is; and before the month's first reset at most
\* one is counted.
Pair(a, b) ==
    /\ row.count >= Limit => ~Roomy(a) \/ ~Roomy(b)
    /\ row.reset # 0 => ~Blank(a) \/ ~Blank(b)
    /\ row.reset \notin {0, month} =>
          /\ ~Early(a) \/ ~Early(b)
          /\ charged <= 1
          /\ Early(a) \/ Early(b) => charged = 0
    /\ row.reset = month => Between(a, b)

Apart == /\ row.reset = 0 => charged = 0
         /\ \A r \in Requests : Sound(req[r])
         /\ overlapped => \E r, s \in Requests : r # s

Paired == AtMostTwoAtOnce => \A r, s \in Requests : r # s => Pair(req[r], req[s])

LEMMA ApartStep ==
  ASSUME Typed, Settling, Dated, Drawn, Apart, [Next]_vars  PROVE Apart'
  <1>0. Typed' /\ Dated' /\ month \in Nat \ {0}
    BY TypedStep, DatedStep DEF Typed
  <1>1. ASSUME NEW r \in Requests, Quietly(r)  PROVE Apart'
    <2>1. UNCHANGED <<row, month, charged, overlapped>>
      BY <1>1 DEF Quietly, ghosts
    <2>2. Sound(req[r])'
      <3>1. CASE req'[r] = Idle
        BY <3>1, IdleIs DEF Sound, Drawing, Suggested
      <3>2. CASE Searching(req'[r])
        BY <3>2 DEF Searching, Sound, Drawing, Suggested, Searches
      <3>3. CASE Further(req[r], req'[r])
        BY <2>1, <3>3 DEF Further, Apart, Sound, Waiting
      <3>4. QED
        BY <1>1, <3>1, <3>2, <3>3 DEF Quietly
    <2>3. QED
      BY <1>1, <2>1, <2>2 DEF Quietly, Apart, Sound
  <1>2. ASSUME NEW r \in Requests, Counting(r)  PROVE Apart'
    <2>1. row'.reset # 0
      <3>1. row'.count # 0
        BY <1>2, CountingIs DEF Typed, One
      <3>2. QED
        BY <1>0, <3>1 DEF Dated
    <2>2. row.reset = month => row'.reset = month
      BY <1>2, CountingIs
    <2>3. Sound(req[r])'
      BY <1>2, CountingIs, IdleIs DEF Apart, Sound, Becomes, Drawing, Suggested
    <2>4. UNCHANGED <<month, overlapped>> /\ \A s \in Requests \ {r} : req'[s] = req[s]
      BY <1>2, CountingIs
    <2>5. QED
      BY <2>1, <2>2, <2>3, <2>4 DEF Apart, Sound
  <1>3. ASSUME NEW r \in Requests, Asking(r)  PROVE Apart'
    <2>1. Sound(req[r])'
      BY <1>0, <1>3, AskIs DEF Sound
    <2>2. UNCHANGED <<row, month, charged>> /\ \A s \in Requests \ {r} : req'[s] = req[s]
      BY <1>3, AskIs
    <2>3. overlapped' => \E p, s \in Requests : p # s
      <3>1. overlapped' = (overlapped \/ \E s \in Requests \ {r} : req[s].kind \in Drawing)
        BY <1>3, AskIs
      <3>2. CASE \E s \in Requests \ {r} : req[s].kind \in Drawing
        BY <3>2
      <3>3. QED
        BY <3>1, <3>2, Zenon DEF Apart
    <2>4. QED
      BY <2>1, <2>2, <2>3 DEF Apart, Sound
  <1>4. ASSUME NEW r \in Requests, CheckQuota(r)  PROVE Apart'
    <2>1. Sound(req[r])'
      BY <1>0, <1>4, CheckIs, IdleIs, PlannerConstantsOK DEF Apart, Sound, New, Drawing, Suggested
    <2>2. row' = row \/ row'.reset = month
      BY <1>4, CheckIs
    <2>3. UNCHANGED <<month, charged, overlapped>> /\ \A s \in Requests \ {r} : req'[s] = req[s]
      BY <1>4, CheckIs
    <2>4. QED
      BY <1>0, <2>1, <2>2, <2>3 DEF Apart, Sound
  <1>5. CASE MonthEnds
    <2>1. ASSUME NEW r \in Requests  PROVE Sound(req[r])'
      BY <1>0, <1>5, <2>1 DEF MonthEnds, Dated, OnTime, Apart, Sound, Typed, One
    <2>2. QED
      BY <1>5, <2>1 DEF MonthEnds, Apart
  <1>6. CASE UNCHANGED planner
    BY <1>6 DEF planner, ghosts, Apart, Sound
  <1>7. QED
    BY <1>1, <1>2, <1>3, <1>4, <1>5, <1>6, EveryMove, Zenon DEF Moves

\* A place is a count up to the limit.
LEMMA PlaceIs ==
  ASSUME Typed, NEW a \in One  PROVE Place(a) \in 0..Limit \/ (a.at = "thinking" /\ Place(a) = a.seen)
  <1>1. Limit \in Nat \ {0} /\ row.count \in Nat /\ a.seen \in Nat
    BY PlannerConstantsOK DEF Typed, One
  <1>2. CASE Keeps(a)
    <2>1. Place(a) = a.seen
      BY <1>2 DEF Place
    <2>2. a.at = "thinking" \/ a.seen < Limit
      BY <1>2 DEF Keeps
    <2>3. QED
      BY <1>1, <2>1, <2>2
  <1>3. CASE ~Keeps(a)
    <2>1. Place(a) = 0 \/ Place(a) = Least(row.count, Limit - 1) \/ Place(a) = Least(row.count, Limit)
      BY <1>3 DEF Place
    <2>2. ASSUME NEW n \in Nat, NEW m \in 0..Limit  PROVE Least(n, m) \in 0..Limit
      BY <1>1 DEF Least
    <2>3. Limit - 1 \in 0..Limit /\ Limit \in 0..Limit /\ 0 \in 0..Limit
      BY <1>1
    <2>4. Least(row.count, Limit - 1) \in 0..Limit /\ Least(row.count, Limit) \in 0..Limit
      BY <1>1, <2>2, <2>3
    <2>5. QED
      BY <2>1, <2>3, <2>4
  <1>4. QED
    BY <1>2, <1>3

LEMMA InPlace ==
  ASSUME Typed, Apart, NEW q \in Requests  PROVE Place(req[q]) \in 0..Limit /\ Place(req[q]) \in Nat
  <1>1. req[q] \in One /\ Limit \in Nat
    BY PlannerConstantsOK DEF Typed
  <1>2. req[q].at = "thinking" => req[q].seen \in 0..Limit
    BY <1>1 DEF Apart, Sound, One
  <1>3. QED
    BY <1>1, <1>2, PlaceIs

\* Who does not move is what it was, and where it was, the row's count apart.
LEMMA StaysAsItWas ==
  ASSUME NEW q \in Requests, req'[q] = req[q], month' = month
  PROVE  /\ Outdated(req[q])' = Outdated(req[q]) /\ Roomy(req[q])' = Roomy(req[q])
         /\ Blank(req[q])' = Blank(req[q]) /\ Early(req[q])' = Early(req[q])
         /\ row' = row \/ Keeps(req[q]) \/ Outdated(req[q]) => Place(req[q])' = Place(req[q])
         /\ ~Keeps(req[q]) /\ ~Outdated(req[q]) =>
               Place(req[q])' = Least(row'.count, IF Adds(req[q]) THEN Limit - 1 ELSE Limit)
  <1>1. Outdated(req[q])' = Outdated(req[q]) /\ Admitted(req[q])' = Admitted(req[q])
    BY DEF Outdated, Admitted
  <1>2. /\ Roomy(req[q])' = Roomy(req[q]) /\ Blank(req[q])' = Blank(req[q]) /\ Early(req[q])' = Early(req[q])
        /\ Keeps(req[q])' = Keeps(req[q]) /\ Adds(req[q])' = Adds(req[q])
    BY <1>1 DEF Roomy, Blank, Early, Keeps, Adds
  <1>3. /\ row' = row \/ Keeps(req[q]) \/ Outdated(req[q]) => Place(req[q])' = Place(req[q])
        /\ ~Keeps(req[q]) /\ ~Outdated(req[q]) =>
               Place(req[q])' = Least(row'.count, IF Adds(req[q]) THEN Limit - 1 ELSE Limit)
    BY <1>1, <1>2 DEF Place, Least
  <1>4. QED
    BY <1>1, <1>2, <1>3

\* The one that moves stays at its place, gains nothing, and the row is as it was.
LEMMA PairStays ==
  ASSUME NEW r \in Requests, NEW q \in Requests, req'[q] = req[q], UNCHANGED <<row, month, charged>>,
         ~Outdated(req[r])', row.reset = month => ~Outdated(req[r]) /\ Place(req[r])' = Place(req[r]),
         Roomy(req[r])' => Roomy(req[r]) \/ row.count < Limit,
         row.reset # 0 => (Blank(req[r])' => Blank(req[r])) /\ (Early(req[r])' => Early(req[r])),
         row.count \in Nat, Limit \in Nat, Pair(req[r], req[q])
  PROVE  Pair(req[r], req[q])'
  <1>1. /\ Outdated(req[q])' = Outdated(req[q]) /\ Roomy(req[q])' = Roomy(req[q])
        /\ Blank(req[q])' = Blank(req[q]) /\ Early(req[q])' = Early(req[q])
        /\ Place(req[q])' = Place(req[q])
    BY StaysAsItWas, Zenon
  <1>2. row.count >= Limit => ~Roomy(req[r])' \/ ~Roomy(req[q])'
    BY <1>1 DEF Pair
  <1>3. row.reset # 0 => ~Blank(req[r])' \/ ~Blank(req[q])'
    BY <1>1 DEF Pair
  <1>4. row.reset \notin {0, month} =>
          /\ ~Early(req[r])' \/ ~Early(req[q])'
          /\ charged <= 1
          /\ Early(req[r])' \/ Early(req[q])' => charged = 0
    BY <1>1 DEF Pair
  <1>5. row.reset = month => Between(req[r], req[q])'
    <2>1. ASSUME row.reset = month  PROVE Between(req[r], req[q])'
      <3>1. Between(req[r], req[q]) /\ charged' = charged
        BY <2>1 DEF Pair
      <3>2. Place(req[r])' = Place(req[r]) /\ Place(req[q])' = Place(req[q])
        BY <1>1, <2>1
      <3>3. Ahead(charged, Place(req[r]), Place(req[q]))' <=> Ahead(charged, Place(req[r]), Place(req[q]))
        BY <3>1, <3>2, Zenon DEF Ahead, Bound
      <3>4. Ahead(charged, Place(req[q]), Place(req[r]))' <=> Ahead(charged, Place(req[q]), Place(req[r]))
        BY <3>1, <3>2, Zenon DEF Ahead, Bound
      <3>5. ~Outdated(req[r])
        BY <2>1
      <3>6. QED
        BY <1>1, <3>1, <3>2, <3>3, <3>4, <3>5, Zenon DEF Between
    <2>2. QED
      BY <2>1
  <1>6. QED
    BY <1>2, <1>3, <1>4, <1>5 DEF Pair

LEMMA PairAsks ==
  ASSUME Typed, Apart, NEW r \in Requests, NEW q \in Requests, r # q, Asking(r), Pair(req[r], req[q])
  PROVE  Pair(req[r], req[q])'
  <1>1. /\ req'[q] = req[q] /\ UNCHANGED <<row, month, charged>>
        /\ req[r].at = "idle" /\ req'[r].at = "loaded" /\ req'[r].kind \in Drawing
        /\ req'[r].seen = row.count /\ req'[r].reset = row.reset
    BY AskIs
  <1>2. row.count \in Nat /\ Limit \in Nat \ {0}
    BY PlannerConstantsOK DEF Typed
  <1>3. Outdated(req[r])' <=> row.reset \notin {0, month}
    BY <1>1 DEF Outdated
  <1>4. row.reset = month => ~Outdated(req[r])' /\ ~Outdated(req[r])
    BY <1>1, <1>3 DEF Outdated
  <1>5. ASSUME row.reset = month  PROVE Place(req[r])' = Place(req[r])
    <2>1. Place(req[r]) = Least(row.count, Limit)
      BY <1>1 DEF Place, Keeps, Outdated, Adds, Admitted
    <2>2. CASE row.count >= Limit
      <3>1. ~Keeps(req[r])' /\ ~Adds(req[r])'
        BY <1>1, <1>2, <2>2 DEF Keeps, Adds, Admitted
      <3>2. Place(req[r])' = Least(row.count, Limit)
        BY <1>1, <1>4, <1>5, <3>1 DEF Place, Least
      <3>3. QED
        BY <2>1, <3>2
    <2>3. CASE row.count < Limit /\ req'[r].kind \in Suggested
      <3>1. Keeps(req[r])'
        BY <1>1, <1>4, <1>5, <2>3 DEF Keeps
      <3>2. Place(req[r])' = row.count
        BY <1>1, <3>1 DEF Place
      <3>3. QED
        BY <1>2, <2>1, <2>3, <3>2 DEF Least
    <2>4. CASE row.count < Limit /\ req'[r].kind \notin Suggested
      <3>1. ~Keeps(req[r])' /\ Adds(req[r])'
        BY <1>1, <1>4, <1>5, <2>4 DEF Keeps, Adds
      <3>2. Place(req[r])' = Least(row.count, Limit - 1)
        BY <1>1, <1>4, <1>5, <3>1 DEF Place, Least
      <3>3. QED
        BY <1>2, <2>1, <2>4, <3>2 DEF Least
    <2>5. QED
      BY <1>2, <2>2, <2>3, <2>4
  <1>6. Roomy(req[r])' => row.count < Limit
    BY <1>1 DEF Roomy, Admitted
  <1>7. row.reset # 0 => ~Blank(req[r])' /\ ~Early(req[r])'
    BY <1>1 DEF Blank, Early, Admitted
  <1>8. CASE row.reset \in {0, month}
    BY <1>1, <1>2, <1>3, <1>4, <1>5, <1>6, <1>7, <1>8, PairStays
  <1>9. CASE row.reset \notin {0, month}
    <2>1. /\ Roomy(req[q])' = Roomy(req[q]) /\ Blank(req[q])' = Blank(req[q]) /\ Early(req[q])' = Early(req[q])
      BY <1>1, StaysAsItWas, Zenon
    <2>2. row.count >= Limit => ~Roomy(req[r])'
      BY <1>2, <1>6
    <2>3. QED
      BY <1>1, <1>7, <1>9, <2>1, <2>2 DEF Pair
  <1>10. QED
    BY <1>8, <1>9

\* A check of a row of this month, or of none counted on, leaves a request in its place.
LEMMA PairChecks ==
  ASSUME Typed, Apart, NEW r \in Requests, NEW q \in Requests, r # q, CheckQuota(r), ~New(r),
         Pair(req[r], req[q])
  PROVE  Pair(req[r], req[q])'
  <1>1. /\ req'[q] = req[q] /\ UNCHANGED <<row, month, charged>> /\ req[r].at = "loaded"
        /\ req[r].reset \in {0, month}
    BY CheckIs DEF New
  <1>2. \/ req'[r] = Idle /\ req[r].seen >= Limit
        \/ /\ req[r].seen < Limit /\ req'[r].since = month
           /\ \/ /\ req[r].kind \in Suggested /\ req'[r].at = "thinking"
                 /\ req'[r].seen = req[r].seen /\ req'[r].reset = req[r].reset
              \/ req[r].kind \notin Suggested /\ req'[r].at = "origin"
    BY CheckIs DEF Seen
  <1>3. row.count \in Nat /\ Limit \in Nat \ {0} /\ req[r].seen \in Nat /\ month # 0
    BY PlannerConstantsOK DEF Typed, One
  <1>4. ~Outdated(req[r]) /\ ~Outdated(req[r])'
    BY <1>1, <1>2, IdleIs DEF Outdated
  <1>5. /\ Place(req[r])' = Place(req[r]) /\ (Roomy(req[r])' => Roomy(req[r]))
        /\ (Blank(req[r])' => Blank(req[r])) /\ (Early(req[r])' => req[r].reset = 0 \/ row.reset = month)
    <2>1. CASE req'[r] = Idle /\ req[r].seen >= Limit
      <3>1. ~Keeps(req[r]) /\ ~Adds(req[r]) /\ ~Keeps(req[r])' /\ ~Adds(req[r])'
        BY <1>1, <1>3, <2>1, IdleIs DEF Keeps, Adds, Admitted
      <3>2. Place(req[r])' = Place(req[r])
        BY <1>1, <1>4, <3>1 DEF Place, Least
      <3>3. ~Roomy(req[r])' /\ ~Blank(req[r])' /\ ~Early(req[r])'
        BY <2>1, IdleIs DEF Roomy, Admitted, Blank, Early
      <3>4. QED
        BY <3>2, <3>3
    <2>2. CASE req[r].seen < Limit /\ req[r].kind \in Suggested /\ req'[r].at = "thinking"
               /\ req'[r].seen = req[r].seen /\ req'[r].reset = req[r].reset
      <3>1. Keeps(req[r]) /\ Keeps(req[r])'
        BY <1>1, <1>4, <2>2 DEF Keeps
      <3>2. Place(req[r])' = Place(req[r])
        BY <2>2, <3>1 DEF Place
      <3>3. Roomy(req[r]) /\ (Blank(req[r])' => Blank(req[r]))
        BY <1>1, <2>2 DEF Roomy, Blank
      <3>4. req[r].reset = 0 \/ row.reset = month
        BY <1>1 DEF Apart, Sound
      <3>5. QED
        BY <3>2, <3>3, <3>4
    <2>3. CASE req[r].seen < Limit /\ req[r].kind \notin Suggested /\ req'[r].at = "origin" /\ req'[r].since = month
      <3>1. Admitted(req[r])' /\ ~Keeps(req[r]) /\ ~Keeps(req[r])' /\ Adds(req[r]) /\ Adds(req[r])'
        BY <1>1, <1>3, <1>4, <2>3 DEF Keeps, Adds, Admitted
      <3>2. Place(req[r])' = Place(req[r])
        BY <1>1, <1>4, <3>1 DEF Place, Least
      <3>3. Roomy(req[r]) /\ ~Blank(req[r])'
        BY <1>1, <2>3 DEF Roomy, Blank
      <3>4. req[r].reset = 0 \/ row.reset = month
        BY <1>1 DEF Apart, Sound
      <3>5. QED
        BY <3>2, <3>3, <3>4
    <2>4. QED
      BY <1>2, <2>1, <2>2, <2>3
  <1>6. CASE row.reset \in {0, month}
    <2>1. row.reset # 0 => row.reset = month
      BY <1>6
    <2>2. row.reset # 0 => (Early(req[r])' => Early(req[r])) \/ row.reset = month
      BY <2>1
    <2>3. /\ Roomy(req[q])' = Roomy(req[q]) /\ Blank(req[q])' = Blank(req[q])
      BY <1>1, StaysAsItWas, Zenon
    <2>4. /\ row.count >= Limit => ~Roomy(req[r])' \/ ~Roomy(req[q])'
          /\ row.reset # 0 => ~Blank(req[r])' \/ ~Blank(req[q])'
      BY <1>5, <2>3 DEF Pair
    <2>5. row.reset = month => Between(req[r], req[q])'
      <3>1. ASSUME row.reset = month  PROVE Between(req[r], req[q])'
        <4>1. Between(req[r], req[q]) /\ charged' = charged
          BY <1>1, <3>1 DEF Pair
        <4>2. Place(req[r])' = Place(req[r]) /\ Place(req[q])' = Place(req[q]) /\ Outdated(req[q])' = Outdated(req[q])
          BY <1>1, <1>5, StaysAsItWas, Zenon
        <4>3. /\ Ahead(charged, Place(req[r]), Place(req[q]))' <=> Ahead(charged, Place(req[r]), Place(req[q]))
              /\ Ahead(charged, Place(req[q]), Place(req[r]))' <=> Ahead(charged, Place(req[q]), Place(req[r]))
          BY <4>1, <4>2, Zenon DEF Ahead, Bound
        <4>4. QED
          BY <1>4, <4>1, <4>2, <4>3, Zenon DEF Between
      <3>2. QED
        BY <3>1
    <2>6. QED
      BY <1>1, <1>6, <2>4, <2>5 DEF Pair
  <1>7. CASE row.reset \notin {0, month}
    <2>1. req[r].reset = 0 => Early(req[r])
      BY <1>1 DEF Early
    <2>2. Early(req[r])' => Early(req[r])
      BY <1>5, <1>7, <2>1
    <2>3. QED
      BY <1>1, <1>3, <1>4, <1>5, <1>7, <2>2, PairStays
  <1>8. QED
    BY <1>6, <1>7

\* A reset in a new month: what was charged since it began is at most one more than where
\* the other stands, and both start again.
LEMMA PairResets ==
  ASSUME Typed, Dated, Apart, NEW r \in Requests, NEW q \in Requests, r # q, CheckQuota(r), New(r),
         Pair(req[r], req[q])
  PROVE  Pair(req[r], req[q])'
  <1>1. /\ req'[q] = req[q] /\ UNCHANGED <<month, charged>> /\ req[r].at = "loaded"
        /\ row'.reset = month /\ row'.count = (IF req[r].seen = 0 THEN row.count ELSE 0)
    BY CheckIs
  <1>2. \/ req'[r] = Idle /\ row'.count >= Limit
        \/ /\ req'[r].at = "thinking" /\ req'[r].seen = row'.count /\ row'.count < Limit
           /\ req'[r].reset = month
        \/ req'[r].at = "origin" /\ req'[r].since = month
    <2>1. Seen(r) = row'.count
      BY <1>1 DEF Seen
    <2>2. QED
      BY <2>1, CheckIs
  <1>3. row.count \in Nat /\ Limit \in Nat \ {0} /\ req[r].seen \in Nat /\ charged \in Nat
        /\ month \in Nat \ {0}
    BY PlannerConstantsOK DEF Typed, One
  <1>4. Outdated(req[r]) /\ row.reset # 0 /\ ~Outdated(req[r])'
    BY <1>1, <1>2, IdleIs DEF New, Outdated, Dated, OnTime
  <1>5. Place(req[q]) \in 0..Limit /\ Place(req[q]) \in Nat
    BY InPlace
  <1>6. charged <= 1 + Place(req[q])
    <2>1. CASE row.reset = month
      BY <1>4, <2>1 DEF Pair, Between
    <2>2. CASE row.reset # month
      BY <1>3, <1>4, <1>5, <2>2 DEF Pair
    <2>3. QED
      BY <2>1, <2>2
  <1>7. /\ Outdated(req[q])' = Outdated(req[q]) /\ Roomy(req[q])' = Roomy(req[q])
        /\ row' = row \/ Keeps(req[q]) \/ Outdated(req[q]) => Place(req[q])' = Place(req[q])
        /\ ~Keeps(req[q]) /\ ~Outdated(req[q]) =>
               Place(req[q])' = Least(row'.count, IF Adds(req[q]) THEN Limit - 1 ELSE Limit)
    BY <1>1, StaysAsItWas, Zenon
  <1>8. Place(req[r])' \in 0..Limit /\ (row'.count = 0 => Place(req[r])' = 0)
    <2>0. CASE req'[r] = Idle /\ row'.count >= Limit
      <3>1. ~Keeps(req[r])' /\ ~Adds(req[r])'
        BY <2>0, IdleIs DEF Keeps, Adds, Admitted
      <3>2. Place(req[r])' = Least(row'.count, Limit)
        BY <1>4, <3>1 DEF Place, Least
      <3>3. row'.count \in Nat
        BY <1>1, <1>3
      <3>4. Least(row'.count, Limit) = Limit
        BY <1>3, <2>0, <3>3 DEF Least
      <3>5. QED
        BY <1>3, <2>0, <3>2, <3>4
    <2>1. CASE req'[r].at = "thinking" /\ req'[r].seen = row'.count /\ row'.count < Limit
      <3>1. Place(req[r])' = row'.count
        BY <2>1 DEF Place, Keeps
      <3>2. row'.count \in Nat
        BY <1>1, <1>3
      <3>3. QED
        BY <1>3, <2>1, <3>1, <3>2
    <2>2. CASE req'[r].at = "origin" /\ req'[r].since = month
      <3>1. ~Keeps(req[r])' /\ Adds(req[r])'
        BY <1>1, <1>3, <2>2 DEF Keeps, Adds, Admitted
      <3>2. Place(req[r])' = Least(row'.count, Limit - 1)
        BY <1>4, <3>1 DEF Place, Least
      <3>3. row'.count \in Nat
        BY <1>1, <1>3
      <3>4. Least(row'.count, Limit - 1) \in 0..Limit /\ (row'.count = 0 => Least(row'.count, Limit - 1) = 0)
        BY <1>3, <3>3 DEF Least
      <3>5. QED
        BY <3>2, <3>4
    <2>3. QED
      BY <1>2, <2>0, <2>1, <2>2
  <1>9. Place(req[q])' = Place(req[q]) \/ (row'.count = 0 /\ Place(req[q])' = 0)
    <2>1. CASE Keeps(req[q]) \/ Outdated(req[q])
      BY <1>7, <2>1
    <2>2. CASE ~Keeps(req[q]) /\ ~Outdated(req[q])
      <3>1. /\ Place(req[q])' = Least(row'.count, IF Adds(req[q]) THEN Limit - 1 ELSE Limit)
            /\ Place(req[q]) = Least(row.count, IF Adds(req[q]) THEN Limit - 1 ELSE Limit)
        BY <1>7, <2>2 DEF Place
      <3>2. CASE req[r].seen = 0
        BY <1>1, <3>1, <3>2
      <3>3. CASE req[r].seen # 0
        <4>1. row'.count = 0 /\ Least(0, Limit) = 0 /\ Least(0, Limit - 1) = 0
          BY <1>1, <1>3, <3>3 DEF Least
        <4>2. QED
          BY <3>1, <4>1
      <3>4. QED
        BY <3>2, <3>3
    <2>3. QED
      BY <2>1, <2>2
  <1>10. row'.count >= Limit => ~Roomy(req[r])' \/ ~Roomy(req[q])'
    <2>1. ASSUME row'.count >= Limit  PROVE ~Roomy(req[q])'
      <3>1. req[r].seen = 0 /\ row.count >= Limit
        BY <1>1, <1>3, <2>1
      <3>2. Roomy(req[r])
        BY <1>1, <1>3, <3>1 DEF Roomy
      <3>3. QED
        BY <1>7, <3>1, <3>2 DEF Pair
    <2>2. QED
      BY <2>1
  <1>11. ~Blank(req[r])'
    BY <1>2, <1>3, IdleIs DEF Blank
  <1>12. Between(req[r], req[q])'
    <2> DEFINE x == Place(req[r])'
               y == Place(req[q])'
    <2>1. charged' \in Nat /\ x \in 0..Limit /\ y \in 0..Limit /\ x \in Nat /\ y \in Nat
      BY <1>1, <1>3, <1>5, <1>8, <1>9
    <2>2. Outdated(req[q])' => charged' <= 1 + x
      <3>1. ASSUME Outdated(req[q])  PROVE charged <= 1
        BY <1>3, <1>6, <3>1 DEF Place, Keeps, Outdated
      <3>2. QED
        BY <1>1, <1>3, <1>7, <2>1, <3>1
    <2>3. CASE Place(req[q])' = Place(req[q])
      <3>1. charged' <= 1 + y
        BY <1>1, <1>6, <2>3
      <3> HIDE DEF x, y
      <3>2. Ahead(charged', x, y)
        BY <2>1, <3>1, FreshMonth
      <3>3. Ahead(charged', y, x)
        <4>1. CASE y <= x
          <5>1. charged' <= 1 + x
            BY <2>1, <3>1, <4>1
          <5>2. QED
            BY <2>1, <5>1, FreshMonth
        <4>2. CASE ~(y <= x)
          BY <4>2 DEF Ahead
        <4>3. QED
          BY <4>1, <4>2
      <3>4. QED
        BY <1>4, <2>2, <3>2, <3>3 DEF Between, Ahead, Bound, x, y
    <2>4. CASE row'.count = 0 /\ Place(req[q])' = 0
      <3>1. x = 0 /\ y = 0 /\ charged' <= Limit + 1
        BY <1>1, <1>3, <1>5, <1>6, <1>8, <2>4
      <3> HIDE DEF x, y
      <3>2. Yield(Limit) \in Nat /\ Limit - 0 = Limit
        <4>1. Limit \in Nat /\ Limit - 0 = Limit
          BY <1>3
        <4>2. \A d \in Nat : Yield(d) \in Nat
          BY Yields, Zenon
        <4>3. QED
          BY <4>1, <4>2, Zenon
      <3>3. Ahead(charged', x, y) /\ Ahead(charged', y, x)
        BY <1>3, <2>1, <3>1, <3>2 DEF Ahead, Bound
      <3>4. QED
        BY <1>4, <2>2, <3>3 DEF Between, Ahead, Bound, x, y
    <2>5. QED
      BY <1>9, <2>3, <2>4
  <1>13. QED
    BY <1>1, <1>10, <1>11, <1>12 DEF Pair

\* What the next state owes two of whom the first is not outdated.
LEMMA BetweenThem ==
  ASSUME NEW r \in Requests, NEW q \in Requests, NEW c, NEW x, NEW y,
         charged' = c, Place(req[r])' = x, Place(req[q])' = y, ~Outdated(req[r])',
         Outdated(req[q])' => c <= 1 + x, ~Outdated(req[q])' => Ahead(c, x, y) /\ Ahead(c, y, x)
  PROVE  Between(req[r], req[q])'
  <1>1. Outdated(req[q])' => (charged <= 1 + Place(req[r]))'
    BY Zenon
  <1>2. ~Outdated(req[q])' => Ahead(charged, Place(req[r]), Place(req[q]))'
    BY Zenon DEF Ahead, Bound
  <1>3. ~Outdated(req[q])' => Ahead(charged, Place(req[q]), Place(req[r]))'
    BY Zenon DEF Ahead, Bound
  <1>4. QED
    BY <1>1, <1>2, <1>3, Zenon DEF Between

LEMMA PairCounts ==
  ASSUME Typed, Dated, Dated', Drawn, Apart, NEW r \in Requests, NEW q \in Requests, r # q, Counting(r),
         Pair(req[r], req[q])
  PROVE  Pair(req[r], req[q])'
  <1>1. /\ req'[q] = req[q] /\ UNCHANGED month
        /\ charged' = IF req[r].since = month THEN charged + 1 ELSE charged
        /\ \/ /\ req[r].at = "thinking" /\ req'[r] = Idle /\ row'.count = req[r].seen + 1
              /\ row'.reset = IF req[r].reset = 0 THEN month ELSE row.reset
           \/ /\ req[r].at = "count" /\ req'[r].at = "done" /\ row'.count = row.count + 1
              /\ row'.reset = IF row.reset = 0 THEN month ELSE row.reset
    BY CountingIs DEF Becomes
  <1>2. row.count \in Nat /\ Limit \in Nat \ {0} /\ req[r].seen \in Nat /\ charged \in Nat /\ month \in Nat \ {0}
    BY PlannerConstantsOK DEF Typed, One
  <1>3. req[r].at = "thinking" => req[r].seen < Limit /\ (req[r].since = month => req[r].reset \in {0, month})
    BY DEF Apart, Sound
  <1>4. req[r].at = "count" => req[r].since # 0
    BY DEF Apart, Sound, Drawn, Draws
  <1>5. ~Outdated(req[r]) /\ ~Outdated(req[r])' /\ ~Roomy(req[r])' /\ ~Blank(req[r])' /\ ~Early(req[r])'
        /\ ~Keeps(req[r])' /\ ~Adds(req[r])'
    BY <1>1, IdleIs DEF Outdated, Roomy, Admitted, Blank, Early, Keeps, Adds
  <1>6. charged' \in Nat /\ charged' <= charged + 1
    BY <1>1, <1>2
  <1>7. Place(req[q]) \in 0..Limit /\ Place(req[r]) \in Nat
    BY InPlace
  <1>8. /\ Outdated(req[q])' = Outdated(req[q]) /\ Early(req[q])' = Early(req[q])
        /\ Keeps(req[q]) \/ Outdated(req[q]) => Place(req[q])' = Place(req[q])
        /\ ~Keeps(req[q]) /\ ~Outdated(req[q]) =>
               Place(req[q])' = Least(row'.count, IF Adds(req[q]) THEN Limit - 1 ELSE Limit)
    BY <1>1, StaysAsItWas, Zenon
  <1> DEFINE x == Place(req[r])
             y == Place(req[q])
             y1 == Place(req[q])'
  <1>9. /\ x < Limit /\ Place(req[r])' = x + 1
        /\ Least(row'.count, Limit) = x + 1
        /\ Least(row'.count, Limit - 1) = (IF x + 1 < Limit THEN x + 1 ELSE x)
    <2>1. Place(req[r])' = Least(row'.count, Limit)
      BY <1>5 DEF Place, Least
    <2>2. CASE req[r].at = "thinking" /\ row'.count = req[r].seen + 1
      <3>1. x = req[r].seen
        BY <2>2 DEF Place, Keeps
      <3>2. QED
        BY <1>2, <1>3, <2>1, <2>2, <3>1 DEF Least
    <2>3. CASE req[r].at = "count" /\ row'.count = row.count + 1
      <3>1. Adds(req[r]) /\ ~Keeps(req[r])
        BY <1>4, <2>3 DEF Adds, Admitted, Keeps
      <3>2. x = Least(row.count, Limit - 1)
        BY <1>5, <3>1 DEF Place
      <3>3. QED
        BY <1>2, <2>1, <2>3, <3>2 DEF Least
    <2>4. QED
      BY <1>1, <2>2, <2>3
  <1>10. ~Outdated(req[q]) => y1 = y \/ y1 = x + 1 \/ (y1 = x /\ y <= x /\ x + 1 = Limit)
    <2>1. CASE Keeps(req[q]) \/ Outdated(req[q])
      BY <1>8, <2>1
    <2>2. CASE ~Keeps(req[q]) /\ ~Outdated(req[q]) /\ Adds(req[q])
      <3>1. y1 = Least(row'.count, Limit - 1) /\ y = Least(row.count, Limit - 1)
        BY <1>8, <2>2 DEF Place
      <3>2. y <= Limit - 1
        BY <1>2, <3>1 DEF Least
      <3>3. QED
        BY <1>2, <1>7, <1>9, <3>1, <3>2
    <2>3. CASE ~Keeps(req[q]) /\ ~Outdated(req[q]) /\ ~Adds(req[q])
      BY <1>8, <1>9, <2>3
    <2>4. QED
      BY <2>1, <2>2, <2>3
  <1>11. y1 \in Nat
    BY <1>2, <1>7, <1>8, <1>9, <1>10 DEF Place, Outdated
  <1>12. CASE row.reset = month
    <2>1. row'.reset = month /\ Between(req[r], req[q])
      BY <1>1, <1>2, <1>12 DEF Pair
    <2>2. Outdated(req[q]) => charged' <= 1 + (x + 1)
      <3>1. Outdated(req[q]) => charged <= 1 + x
        BY <2>1 DEF Between
      <3>2. QED
        BY <1>2, <1>6, <1>7, <3>1
    <2>3. ASSUME ~Outdated(req[q])  PROVE Ahead(charged', x + 1, y1) /\ Ahead(charged', y1, x + 1)
      <3>1. Ahead(charged, x, y) /\ Ahead(charged, y, x)
        BY <1>5, <2>1, <2>3 DEF Between
      <3>2. y1 = y \/ y1 = x + 1 \/ (y1 = x /\ y <= x /\ x + 1 = Limit)
        BY <1>10, <2>3
      <3> HIDE DEF x, y, y1
      <3>3. x \in Nat /\ x < Limit /\ y \in 0..Limit /\ y1 \in Nat
        BY <1>7, <1>9, <1>11 DEF x, y
      <3>4. PICK c1 \in Nat : c1 = charged'
        BY <1>6
      <3>5. Ahead(c1, x + 1, y1) /\ Ahead(c1, y1, x + 1)
        BY <1>2, <1>6, <3>1, <3>2, <3>3, <3>4, OneCounted
      <3>6. QED
        BY <3>4, <3>5 DEF Ahead
    <2>4. Between(req[r], req[q])'
      <3> HIDE DEF x, y, y1
      <3>1. PICK c1 \in Nat : c1 = charged'
        BY <1>6
      <3>2. PICK x1 \in Nat : x1 = x + 1
        BY <1>7 DEF x
      <3>3. PICK z \in Nat : z = y1
        BY <1>11
      <3>4. charged' = c1 /\ Place(req[r])' = x1 /\ Place(req[q])' = z
        BY <1>9, <3>1, <3>2, <3>3 DEF x, y1
      <3>5. Outdated(req[q])' => c1 <= 1 + x1
        BY <1>8, <2>2, <3>1, <3>2 DEF x
      <3>6. ~Outdated(req[q])' => Ahead(c1, x1, z) /\ Ahead(c1, z, x1)
        BY <1>8, <2>3, <3>1, <3>2, <3>3 DEF Ahead
      <3>7. QED
        BY <1>5, <3>4, <3>5, <3>6, BetweenThem
    <2>5. QED
      BY <1>1, <1>5, <2>1, <2>4 DEF Pair
  <1>13. CASE row.reset # month
    <2>1. charged' <= 1 /\ row'.reset # 0 /\ (row'.reset = month \/ row'.reset = row.reset)
      <3>1. row'.count # 0
        BY <1>1, <1>2
      <3>2. row'.reset # 0
        BY <3>1 DEF Dated
      <3>3. row'.reset = month \/ row'.reset = row.reset
        BY <1>1
      <3>4. CASE row.reset = 0
        BY <1>2, <1>6, <3>2, <3>3, <3>4 DEF Apart
      <3>5. CASE row.reset # 0 /\ req[r].since = month
        <4>1. Early(req[r])
          BY <1>1, <1>2, <1>4, <3>5 DEF Early, Admitted
        <4>2. charged = 0
          BY <1>13, <3>5, <4>1 DEF Pair
        <4>3. QED
          BY <1>6, <3>2, <3>3, <4>2
      <3>6. CASE row.reset # 0 /\ req[r].since # month
        <4>1. charged' = charged /\ charged <= 1
          BY <1>1, <1>13, <3>6 DEF Pair
        <4>2. QED
          BY <3>2, <3>3, <4>1
      <3>7. QED
        BY <3>4, <3>5, <3>6
    <2>2. row'.reset # month /\ Early(req[q]) => charged' = 0
      <3>1. ASSUME row'.reset # month, Early(req[q])  PROVE charged' = 0
        <4>1. row.reset \notin {0, month}
          BY <1>13, <2>1, <3>1
        <4>2. ~Early(req[r]) /\ charged = 0
          BY <3>1, <4>1 DEF Pair
        <4>3. req[r].since # month
          BY <1>1, <1>2, <1>4, <4>2 DEF Early, Admitted
        <4>4. QED
          BY <1>1, <4>2, <4>3
      <3>2. QED
        BY <3>1
    <2>3. Between(req[r], req[q])'
      <3>1. charged' <= 1 + y1 /\ charged' <= 1 + (x + 1) /\ x + 1 \in 0..Limit /\ x + 1 \in Nat
        BY <1>2, <1>6, <1>7, <1>9, <1>11, <2>1
      <3>2. y1 \in 0..Limit
        BY <1>2, <1>7, <1>8, <1>9, <1>10 DEF Place, Outdated
      <3> HIDE DEF x, y, y1
      <3>3. PICK c1 \in Nat : c1 = charged'
        BY <1>6
      <3>4. PICK x1 \in 0..Limit : x1 = x + 1 /\ x1 \in Nat
        BY <3>1
      <3>5. Ahead(c1, x1, y1) /\ Ahead(c1, y1, x1)
        BY <1>11, <3>1, <3>2, <3>3, <3>4, FreshMonth
      <3>6. Place(req[r])' = x1 /\ Place(req[q])' = y1
        BY <1>9, <3>4 DEF x, y1
      <3>7. QED
        <4>1. PICK z \in Nat : z = y1
          BY <1>11 DEF y1
        <4>2. Place(req[q])' = z /\ Ahead(c1, x1, z) /\ Ahead(c1, z, x1) /\ c1 <= 1 + x1
          BY <3>1, <3>3, <3>4, <3>5, <3>6, <4>1
        <4>3. QED
          BY <1>5, <3>3, <3>6, <4>2, BetweenThem
    <2>4. QED
      BY <1>1, <1>5, <1>8, <2>1, <2>2, <2>3 DEF Pair
  <1>14. QED
    BY <1>12, <1>13

\* What goes quietly stays in its place, but for the plan that ends uncounted.
LEMMA PairQuiet ==
  ASSUME Typed, Apart, NEW r \in Requests, NEW q \in Requests, r # q, Quietly(r), Pair(req[r], req[q])
  PROVE  Pair(req[r], req[q])'
  <1>1. req'[q] = req[q] /\ UNCHANGED <<row, month, charged>>
    BY DEF Quietly, ghosts
  <1>2. row.count \in Nat /\ Limit \in Nat \ {0} /\ charged \in Nat
    BY PlannerConstantsOK DEF Typed
  <1>3. /\ req[r].at \notin {"loaded", "thinking"} /\ req'[r].at \notin {"loaded", "thinking"}
        /\ Admitted(req[r])' => Admitted(req[r]) /\ req'[r].since = req[r].since
    <2>1. CASE req'[r] = Idle /\ Leaves(req[r])
      BY <2>1, IdleIs DEF Leaves, Apart, Sound, Admitted
    <2>2. CASE req[r].at = "idle" /\ Searching(req'[r])
      BY <2>2 DEF Searching, Admitted
    <2>3. CASE Further(req[r], req'[r])
      BY <2>3 DEF Further, Waiting, Admitted
    <2>4. QED
      BY <2>1, <2>2, <2>3 DEF Quietly
  <1>4. /\ ~Outdated(req[r]) /\ ~Outdated(req[r])' /\ ~Keeps(req[r]) /\ ~Keeps(req[r])'
        /\ ~Blank(req[r]) /\ ~Blank(req[r])'
    BY <1>3 DEF Outdated, Keeps, Blank
  <1>5. /\ Adds(req[r]) <=> Admitted(req[r])
        /\ Adds(req[r])' <=> Admitted(req[r])'
        /\ Roomy(req[r]) <=> Admitted(req[r])
        /\ Roomy(req[r])' <=> Admitted(req[r])'
    BY <1>3 DEF Adds, Roomy
  <1>6. Early(req[r])' => Early(req[r])
    BY <1>1, <1>3 DEF Early
  <1>7. /\ Place(req[r]) = Least(row.count, IF Admitted(req[r]) THEN Limit - 1 ELSE Limit)
        /\ Place(req[r])' = Least(row.count, IF Admitted(req[r])' THEN Limit - 1 ELSE Limit)
    BY <1>1, <1>4, <1>5 DEF Place, Least
  <1>8. CASE Place(req[r])' = Place(req[r])
    BY <1>1, <1>2, <1>3, <1>4, <1>5, <1>6, <1>8, PairStays
  <1>9. CASE Place(req[r])' # Place(req[r])
    <2>1. Admitted(req[r]) /\ ~Admitted(req[r])'
      BY <1>3, <1>7, <1>9
    <2>2. row.count >= Limit
      BY <1>2, <1>7, <1>9, <2>1 DEF Least
    <2>3. Place(req[r]) = Limit - 1 /\ Place(req[r])' = Limit
      BY <1>2, <1>7, <2>1, <2>2 DEF Least
    <2>4. /\ Outdated(req[q])' = Outdated(req[q]) /\ Early(req[q])' = Early(req[q])
          /\ Place(req[q])' = Place(req[q])
      BY <1>1, StaysAsItWas, Zenon
    <2>5. ~Roomy(req[q])
      BY <1>5, <2>1, <2>2 DEF Pair
    <2>6. Outdated(req[q]) \/ Place(req[q]) = Limit
      <3>1. ~Keeps(req[q]) /\ ~Adds(req[q])
        BY <2>5 DEF Roomy, Keeps, Adds
      <3>2. Least(row.count, Limit) = Limit
        BY <1>2, <2>2 DEF Least
      <3>3. QED
        BY <3>1, <3>2 DEF Place
    <2>7. row.reset = month => Between(req[r], req[q])'
      <3>1. ASSUME row.reset = month  PROVE Between(req[r], req[q])'
        <4>1. Between(req[r], req[q])
          BY <3>1 DEF Pair
        <4>2. Outdated(req[q]) => charged <= 1 + Limit
          BY <1>2, <2>3, <4>1 DEF Between
        <4>3. ~Outdated(req[q]) => Place(req[q]) = Limit /\ Ahead(charged, Limit, Limit)
          <5>1. ASSUME ~Outdated(req[q])  PROVE Place(req[q]) = Limit /\ Ahead(charged, Limit - 1, Limit)
            BY <1>4, <2>3, <2>6, <4>1, <5>1 DEF Between
          <5>2. QED
            BY <1>2, <5>1, OneGone
        <4>4. PICK y : y = Place(req[q])
          OBVIOUS
        <4>5. charged' = charged /\ Place(req[r])' = Limit /\ Place(req[q])' = y
          BY <1>1, <2>3, <2>4, <4>4
        <4>6. Outdated(req[q])' => charged <= 1 + Limit
          BY <2>4, <4>2
        <4>7. ~Outdated(req[q])' => Ahead(charged, Limit, y) /\ Ahead(charged, y, Limit)
          BY <2>4, <4>3, <4>4
        <4>8. QED
          BY <1>4, <4>5, <4>6, <4>7, BetweenThem
      <3>2. QED
        BY <3>1
    <2>8. QED
      BY <1>1, <1>4, <1>5, <1>6, <2>1, <2>4, <2>7 DEF Pair
  <1>10. QED
    BY <1>8, <1>9

LEMMA PairMonth ==
  ASSUME Typed, Dated, Apart, NEW r \in Requests, NEW q \in Requests, MonthEnds, Pair(req[r], req[q])
  PROVE  Pair(req[r], req[q])'
  <1>1. /\ UNCHANGED <<row, req>> /\ month' = month + 1 /\ charged' = 0
        /\ month \in Nat \ {0} /\ row.reset \in Nat /\ row.reset <= month
    BY DEF MonthEnds, Typed, Dated
  <1>2. ASSUME NEW s \in Requests
        PROVE  /\ Roomy(req[s])' = Roomy(req[s]) /\ Blank(req[s])' = Blank(req[s])
               /\ Early(req[s])' => Blank(req[s])
    <2>1. req[s].since <= month /\ req[s].since \in Nat
      BY DEF Dated, OnTime, Typed, One
    <2>2. Admitted(req[s])' = Admitted(req[s])
      BY <1>1 DEF Admitted
    <2>3. Roomy(req[s])' = Roomy(req[s]) /\ Blank(req[s])' = Blank(req[s])
      BY <1>1, <2>2 DEF Roomy, Blank
    <2>4. Early(req[s])' => Blank(req[s])
      BY <1>1, <2>1 DEF Early, Blank
    <2>5. QED
      BY <2>3, <2>4
  <1>3. row'.reset # month'
    BY <1>1
  <1>4. row'.count >= Limit => ~Roomy(req[r])' \/ ~Roomy(req[q])'
    BY <1>1, <1>2 DEF Pair
  <1>5. row'.reset # 0 => ~Blank(req[r])' \/ ~Blank(req[q])'
    BY <1>1, <1>2 DEF Pair
  <1>6. row'.reset # 0 => ~Early(req[r])' \/ ~Early(req[q])'
    BY <1>1, <1>2 DEF Pair
  <1>7. QED
    BY <1>1, <1>3, <1>4, <1>5, <1>6 DEF Pair

LEMMA PairIsSymmetric ==
  ASSUME NEW r \in Requests, NEW q \in Requests
  PROVE  /\ Pair(req[r], req[q]) => Pair(req[q], req[r])
         /\ Pair(req[r], req[q])' => Pair(req[q], req[r])'
  BY Zenon DEF Pair, Between

LEMMA PairedStep ==
  ASSUME Typed, Settling, Dated, Drawn, Apart, Paired, [Next]_vars  PROVE Paired'
  <1>0. Typed' /\ Dated'
    BY TypedStep, DatedStep
  <1>1. SUFFICES ASSUME AtMostTwoAtOnce, NEW p \in Requests, NEW s \in Requests, p # s
                 PROVE  Pair(req[p], req[s])'
    BY DEF Paired, AtMostTwoAtOnce
  <1>2. Pair(req[p], req[s]) /\ Pair(req[s], req[p])
    BY <1>1 DEF Paired
  <1>3. ASSUME NEW r \in Requests, NEW q \in Requests, r # q, Pair(req[r], req[q]),
               Asking(r) \/ CheckQuota(r) \/ Counting(r) \/ Quietly(r)
        PROVE  Pair(req[r], req[q])'
    <2>1. CASE Asking(r)
      BY <1>3, <2>1, PairAsks
    <2>2. CASE CheckQuota(r) /\ ~New(r)
      BY <1>3, <2>2, PairChecks
    <2>3. CASE CheckQuota(r) /\ New(r)
      BY <1>3, <2>3, PairResets
    <2>4. CASE Counting(r)
      BY <1>0, <1>3, <2>4, PairCounts
    <2>5. CASE Quietly(r)
      BY <1>3, <2>5, PairQuiet
    <2>6. QED
      BY <1>3, <2>1, <2>2, <2>3, <2>4, <2>5
  <1>4. ASSUME NEW r \in Requests, Asking(r) \/ CheckQuota(r) \/ Counting(r) \/ Quietly(r)
        PROVE  Pair(req[p], req[s])'
    <2>1. r = p \/ r = s
      BY <1>1, <1>4 DEF AtMostTwoAtOnce
    <2>2. CASE r = p
      BY <1>1, <1>2, <1>3, <1>4, <2>2
    <2>3. CASE r = s
      <3>1. Pair(req[s], req[p])'
        BY <1>1, <1>2, <1>3, <1>4, <2>3
      <3>2. QED
        BY <3>1, PairIsSymmetric
    <2>4. QED
      BY <2>1, <2>2, <2>3
  <1>5. CASE MonthEnds
    BY <1>2, <1>5, PairMonth
  <1>6. CASE UNCHANGED planner
    <2>1. UNCHANGED <<month, row, req, charged>>
      BY <1>6 DEF planner, ghosts
    <2>2. /\ Place(req[p])' = Place(req[p]) /\ Place(req[s])' = Place(req[s])
          /\ Outdated(req[p])' = Outdated(req[p]) /\ Outdated(req[s])' = Outdated(req[s])
          /\ Roomy(req[p])' = Roomy(req[p]) /\ Roomy(req[s])' = Roomy(req[s])
          /\ Blank(req[p])' = Blank(req[p]) /\ Blank(req[s])' = Blank(req[s])
          /\ Early(req[p])' = Early(req[p]) /\ Early(req[s])' = Early(req[s])
      BY <2>1, StaysAsItWas
    <2>3. Between(req[p], req[s]) => Between(req[p], req[s])'
      BY <2>1, <2>2, Zenon DEF Between, Ahead, Bound
    <2>4. QED
      BY <1>2, <2>1, <2>2, <2>3, Zenon DEF Pair
  <1>7. QED
    BY <1>4, <1>5, <1>6, EveryMove, Zenon DEF Moves

\* Two requests owe the quota no more than the bound.
LEMMA PairWithinBound ==
  ASSUME Typed, Apart, NEW r \in Requests, NEW q \in Requests, Pair(req[r], req[q])
  PROVE  charged <= Bound
  <1>1. Limit \in Nat \ {0} /\ charged \in Nat /\ Yield(Limit) \in Nat /\ Bound = Yield(Limit) + Limit + 1
    BY PlannerConstantsOK, Yields DEF Typed, Bound
  <1>2. Place(req[r]) \in 0..Limit /\ Place(req[q]) \in 0..Limit
    BY InPlace
  <1>3. ASSUME NEW x \in 0..Limit, NEW y \in 0..Limit, x <= y, Ahead(charged, x, y)  PROVE charged <= Bound
    <2>1. Limit - x \in Nat /\ x \in Nat /\ y \in Nat /\ y <= Limit /\ x <= Limit
      BY <1>1
    <2>2. charged + Yield(Limit - x) + x <= Bound + y
      BY <1>3 DEF Ahead
    <2>3. Yield(Limit - x) >= Yield(0) + 2 * ((Limit - x) - 0)
      BY <2>1, Yields
    <2>4. Yield(Limit - x) \in Nat /\ Yield(0) = 0 /\ Bound \in Nat
      BY <2>1, Yields
    <2>5. QED
      BY <1>1, <2>1, <2>2, <2>3, <2>4
  <1>4. CASE row.reset # month
    BY <1>1, <1>4 DEF Apart, Pair
  <1>5. CASE row.reset = month
    <2>1. Between(req[r], req[q])
      BY <1>5 DEF Pair
    <2>2. CASE Outdated(req[r])
      BY <1>1, <1>2, <2>1, <2>2 DEF Between
    <2>3. CASE Outdated(req[q])
      BY <1>1, <1>2, <2>1, <2>3 DEF Between
    <2>4. CASE ~Outdated(req[r]) /\ ~Outdated(req[q])
      <3>1. /\ Ahead(charged, Place(req[r]), Place(req[q]))
            /\ Ahead(charged, Place(req[q]), Place(req[r]))
        BY <2>1, <2>4 DEF Between
      <3>2. Place(req[r]) <= Place(req[q]) \/ Place(req[q]) <= Place(req[r])
        BY <1>1, <1>2
      <3>3. QED
        BY <1>2, <1>3, <3>1, <3>2
    <2>5. QED
      BY <2>2, <2>3, <2>4
  <1>6. QED
    BY <1>4, <1>5

\* What a user gets of generations in a month: the limit at most, who makes one request
\* after the other; and of two at a time, however they interleave with each other's checks
\* and counts and with the ends of months, no more than a count held from each value below
\* the limit and a late reset can yield.  For any limit (plan_guard.py, plan_service.py).
THEOREM QuotaOfTwo == Spec => []WithinQuota
  <1>1. Init => Dated /\ Drawn /\ Apart /\ Paired
    <2>1. ASSUME Init  PROVE Dated /\ Drawn /\ Apart /\ Paired
      <3>1. /\ month = 1 /\ row.reset = 0 /\ row.count = 0 /\ charged = 0 /\ overlapped = FALSE
            /\ \A r \in Requests : req[r] = Idle
        BY <2>1 DEF Init
      <3>2. Dated
        BY <3>1, IdleIs DEF Dated, OnTime
      <3>3. "none" \notin Drawing
        BY DEF Drawing, Suggested
      <3>4. Drawn
        BY <3>1, IdleIs DEF Drawn, Draws
      <3>5. Apart
        BY <3>1, <3>3, IdleIs DEF Apart, Sound
      <3>6. ASSUME NEW r \in Requests, NEW q \in Requests  PROVE Pair(req[r], req[q])
        BY <3>1, IdleIs, PlannerConstantsOK DEF Pair, Roomy, Admitted, Blank
      <3>7. QED
        BY <3>2, <3>4, <3>5, <3>6 DEF Paired
    <2>2. QED
      BY <2>1
  <1>2. Typed /\ Apart /\ Paired /\ QuotaAlone => WithinQuota
    <2>1. ASSUME Typed, Apart, Paired, QuotaAlone, AtMostTwoAtOnce  PROVE charged <= Bound
      <3>1. CASE overlapped
        <4>1. PICK r \in Requests, q \in Requests : r # q
          BY <2>1, <3>1 DEF Apart
        <4>2. Pair(req[r], req[q])
          BY <2>1, <4>1 DEF Paired
        <4>3. QED
          BY <2>1, <4>2, PairWithinBound
      <3>2. CASE ~overlapped
        <4>1. charged <= Limit /\ charged \in Nat /\ Limit \in Nat /\ Yield(Limit) \in Nat
          BY <2>1, <3>2, PlannerConstantsOK, Yields DEF QuotaAlone, Typed
        <4>2. QED
          BY <4>1 DEF Bound
      <3>3. QED
        BY <3>1, <3>2
    <2>2. Bound = (Limit * (Limit + 3)) \div 2 + (Limit + 1)
      <3>1. Yield(Limit) \in Nat /\ Limit \in Nat
        BY PlannerConstantsOK, Yields
      <3>2. Bound = Yield(Limit) + (Limit + 1)
        BY <3>1 DEF Bound
      <3>3. QED
        BY <3>2 DEF Yield
    <2>3. QED
      BY <2>1, <2>2, Zenon DEF WithinQuota, QuotaAlone
  <1>3. Typed /\ Settling /\ Dated /\ [Next]_vars => Dated'
    BY DatedStep
  <1>4. Typed /\ Settling /\ Drawn /\ [Next]_vars => Drawn'
    BY DrawnStep
  <1>5. Typed /\ Settling /\ Dated /\ Drawn /\ Apart /\ [Next]_vars => Apart'
    BY ApartStep
  <1>6. Typed /\ Settling /\ Dated /\ Drawn /\ Apart /\ Paired /\ [Next]_vars => Paired'
    BY PairedStep
  <1>7. QED
    BY <1>1, <1>2, <1>3, <1>4, <1>5, <1>6, TypeCorrect, QuotaHolds, PTL DEF Spec

=============================================================================
