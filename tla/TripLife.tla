------------------------------ MODULE TripLife ------------------------------
(***************************************************************************)
(* The life of an owner's trips: the owner's requests (create, change, plan, *)
(* close, delete), the daily job that moves trips along their dates and      *)
(* deletes the drafts nobody confirmed, and the bookings and shares of the   *)
(* trips, whose rows decide what may be deleted.                             *)
(*                                                                           *)
(* Requests run one at a time on the event loop; the job runs in a thread,   *)
(* so it may commit between a request's read of the trip and its write.      *)
(* Bookings are BookingPayment's, reduced to what the trip sees of them:     *)
(* money held, an order being placed, a ticket.                              *)
(***************************************************************************)
EXTENDS TripSharing

CONSTANTS
    Booked,     \* bound: the trips the owner may book a flight for
    NoReq,      \* no request is between its read and its write
    Dates,      \* bound: the dates the owner picks, 0 for none
    MaxDay,     \* bound: last day; the clock stops there, midnight still comes
    MaxMishaps  \* bound: restarts of the process and changes made by the staff

ASSUME LifeConstantsOK == Booked \subseteq Trips /\ Dates \subseteq 0..MaxDay
                         /\ MaxDay \in Nat \ {0} /\ MaxMishaps \in Nat

VARIABLES
    start, end,  \* the trip's dates, 0 for NULL
    stale,       \* trips created more than 24 hours ago
    booking,     \* the trip's booking intent
    day,         \* today
    req,         \* the request being served: what it loaded
    job,         \* the daily job: where it is, the trips it holds in memory
    mishaps      \* restarts and changes by the staff so far

lifeVars == <<start, end, stale, booking, day, req, job, mishaps>>
vars == <<status, noted, registered, member, invite, start, end, stale, booking, day, req, job,
          mishaps>>

Date == 0..MaxDay

Booking == {"none", "held", "ordering", "ticketed", "lost"}

Request == [op : {"update", "status", "delete"}, trip : Trips, seen : Status]

JobPhase == {"due", "locked", "notify", "collect", "purge", "idle"}

TypeOK ==
    /\ SharingTypeOK
    /\ status \in [Trips -> Status] /\ noted \in SUBSET Trips
    /\ start \in [Trips -> Date] /\ end \in [Trips -> Date]
    /\ stale \in SUBSET Trips /\ booking \in [Trips -> Booking]
    /\ day \in 1..MaxDay /\ mishaps \in 0..MaxMishaps
    /\ req \in Request \cup {NoReq}
    /\ job \in [at : JobPhase, picked : SUBSET Trips]

\* The scheduler runs the job once when the process starts.
StartUp == [at |-> "due", picked |-> {}]

Init ==
    /\ SharingInit
    /\ status = [t \in Trips |-> "ABSENT"] /\ noted = {}
    /\ start = [t \in Trips |-> 0] /\ end = [t \in Trips |-> 0]
    /\ stale = {} /\ booking = [t \in Trips |-> "none"]
    /\ day = 1 /\ req = NoReq /\ job = StartUp /\ mishaps = 0

Exists(t) == status[t] \notin {"ABSENT", "DELETED"}

-----------------------------------------------------------------------------
(* Requests of the owner. *)

\* POST /trips, and the planner's create_draft_from_command.
CreateTrip(t, s, e) ==
    /\ req = NoReq /\ status[t] = "ABSENT"
    /\ status' = [status EXCEPT ![t] = "DRAFT"]
    /\ start' = [start EXCEPT ![t] = s] /\ end' = [end EXCEPT ![t] = e]
    /\ UNCHANGED <<noted, sharingVars, stale, booking, day, req, job, mishaps>>

\* get_trip_owner_access loads the trip; the service decides from what it loaded.
\* Until a transaction that has changed the row commits, others read its old version.
Load(op, t) ==
    /\ req = NoReq /\ Exists(t)
    /\ CASE op = "update" -> status[t] # "COMPLETED"
         [] op = "delete" -> status[t] = "DRAFT"
         [] op = "status" -> status[t] # "COMPLETED"
    /\ req' = [op |-> op, trip |-> t, seen |-> status[t]]
    /\ UNCHANGED <<status, noted, sharingVars, start, end, stale, booking, day, job, mishaps>>

\* The write waits for the row lock of the job's transaction.
MayWrite(op) ==
    /\ req # NoReq /\ req.op = op /\ req' = NoReq
    /\ ~(job.at = "locked" /\ req.trip \in job.picked)

\* update_trip: any dates, in any order; a date is never cleared.
UpdateTrip(s, e) ==
    /\ MayWrite("update")
    /\ Exists(req.trip)
    /\ start' = [start EXCEPT ![req.trip] = IF s = 0 THEN @ ELSE s]
    /\ end' = [end EXCEPT ![req.trip] = IF e = 0 THEN @ ELSE e]
    /\ UNCHANGED <<status, noted, sharingVars, stale, booking, day, job, mishaps>>

\* VALID_TRANSITIONS
Following == [DRAFT |-> "PLANNED", PLANNED |-> "ONGOING", ONGOING |-> "COMPLETED"]

MayFollow(t, seen) ==
    seen = "DRAFT" => start[t] # 0 /\ end[t] # 0 /\ start[t] <= end[t]

\* update_trip_status writes the status that follows the one it loaded; closing the
\* trip also notifies its participants.
UpdateTripStatus ==
    /\ MayWrite("status")
    /\ LET t == req.trip IN
       /\ Exists(t) /\ MayFollow(t, req.seen)
       /\ status' = [status EXCEPT ![t] = Following[req.seen]]
       /\ IF req.seen = "ONGOING" THEN Notify(t) ELSE UNCHANGED noted
    /\ UNCHANGED <<sharingVars, start, end, stale, booking, day, job, mishaps>>

\* Rows that refer to the trip and that deleting it does not take along.
Pinned(t) == t \in noted \/ Invited(t) # {}

\* The rows of the intents go with the trip; a placed order is Amadeus's.
Gone(s) == [t \in Trips |-> IF t \in s /\ status[t] # "ABSENT" THEN "DELETED" ELSE status[t]]

Cascade(s) == member' = [t \in Trips |-> IF t \in s THEN {} ELSE member[t]]

DeleteTrip ==
    /\ MayWrite("delete")
    /\ booking[req.trip] # "ticketed" /\ ~Pinned(req.trip)
    /\ status' = Gone({req.trip}) /\ Cascade({req.trip})
    /\ UNCHANGED <<noted, registered, invite, start, end, stale, booking, day, job, mishaps>>

\* Refused: incomplete or disordered dates, a confirmed flight, a row that refers to
\* the trip (IntegrityError), or the row is gone (StaleDataError).
Refused ==
    /\ req # NoReq /\ req' = NoReq
    /\ LET t == req.trip IN
       \/ ~Exists(t)
       \/ req.op = "status" /\ ~MayFollow(t, req.seen)
       \/ req.op = "delete" /\ (booking[t] = "ticketed" \/ Pinned(t))
    /\ UNCHANGED <<status, noted, sharingVars, start, end, stale, booking, day, job, mishaps>>

\* The route looks for a cover first, and gives the loop up meanwhile; nothing is written
\* before.
Creations == \E t \in Trips, s, e \in Dates : CreateTrip(t, s, e)

Requests ==
    \/ Creations
    \/ \E t \in Trips, op \in {"update", "status", "delete"} : Load(op, t)
    \/ \E s, e \in Dates : UpdateTrip(s, e)
    \/ UpdateTripStatus \/ DeleteTrip \/ Refused

-----------------------------------------------------------------------------
(* The booking intent, as its trip sees it. *)

\* Stripe reports the authorization: the money is held.
MoneyHeld(t) ==
    /\ req = NoReq /\ Exists(t) /\ booking[t] = "none"
    /\ booking' = [booking EXCEPT ![t] = "held"]
    /\ UNCHANGED <<status, noted, sharingVars, start, end, stale, day, req, job, mishaps>>

\* `book` awaits Amadeus and lets the event loop serve other requests.
OrderPlaced(t) ==
    /\ req = NoReq /\ Exists(t) /\ booking[t] = "held"
    /\ booking' = [booking EXCEPT ![t] = "ordering"]
    /\ UNCHANGED <<status, noted, sharingVars, start, end, stale, day, req, job, mishaps>>

\* The FlightOrder row refers to the trip: without it the write fails and the order
\* exists at Amadeus alone.
OrderConfirmed(t) ==
    /\ req = NoReq /\ booking[t] = "ordering"
    /\ booking' = [booking EXCEPT ![t] = IF Exists(t) THEN "ticketed" ELSE "lost"]
    /\ UNCHANGED <<status, noted, sharingVars, start, end, stale, day, req, job, mishaps>>

Bookings == \E t \in Booked : MoneyHeld(t) \/ OrderPlaced(t) \/ OrderConfirmed(t)

-----------------------------------------------------------------------------
(* The daily job. *)

\* Mutant of Starting: only the trips that start today.
StartingToday == {t \in Trips : status[t] = "PLANNED" /\ start[t] = day}

Starting == {t \in Trips : status[t] = "PLANNED" /\ start[t] # 0 /\ start[t] <= day}

Ended(t) == end[t] # 0 /\ end[t] < day

\* auto_transition_statuses, PLANNED -> ONGOING: the rows are locked until the commit.
JobStarts ==
    /\ job.at = "due" /\ job' = [at |-> "locked", picked |-> Starting]
    /\ UNCHANGED <<status, noted, sharingVars, start, end, stale, booking, day, req, mishaps>>

\* ONGOING -> COMPLETED, the trips just started included, and the commit.
JobCompletes ==
    /\ job.at = "locked"
    /\ LET ongoing == job.picked \cup {t \in Trips : status[t] = "ONGOING"}
           done == {t \in ongoing : Ended(t)}
       IN /\ status' = [t \in Trips |-> IF t \in done THEN "COMPLETED"
                                        ELSE IF t \in ongoing THEN "ONGOING" ELSE status[t]]
          /\ job' = [at |-> "notify", picked |-> done \cup job.picked]
    /\ UNCHANGED <<noted, sharingVars, start, end, stale, booking, day, req, mishaps>>

\* TRIP_STARTED and TRIP_ENDED; a failure stops nothing.
JobNotifies ==
    /\ job.at = "notify" /\ job' = [at |-> "collect", picked |-> {}]
    /\ noted' \in {noted, noted \cup job.picked}
    /\ UNCHANGED <<status, sharingVars, start, end, stale, booking, day, req, mishaps>>

\* Mutant of GcSelects: the age is compared the wrong way round.
GcSelectsFresh ==
    /\ job.at = "collect"
    /\ job' = [at |-> "purge", picked |-> {t \in Trips \ stale : status[t] = "DRAFT"}]
    /\ UNCHANGED <<status, noted, sharingVars, start, end, stale, booking, day, req, mishaps>>

\* gc_stale_drafts selects the drafts...
GcSelects ==
    /\ job.at = "collect"
    /\ job' = [at |-> "purge", picked |-> {t \in stale : status[t] = "DRAFT"}]
    /\ UNCHANGED <<status, noted, sharingVars, start, end, stale, booking, day, req, mishaps>>

\* Mutant of GcDeletes: the order goes with the trip.
GcDeletesOrders ==
    /\ job.at = "purge" /\ job' = [at |-> "idle", picked |-> {}]
    /\ IF \E t \in job.picked : Pinned(t)
         THEN UNCHANGED <<status, member>>
         ELSE status' = Gone(job.picked) /\ Cascade(job.picked)
    /\ UNCHANGED <<noted, registered, invite, start, end, stale, booking, day, req, mishaps>>

\* ...and deletes them all in one commit, whatever their status is by then: one that
\* another row refers to fails it for all.
GcDeletes ==
    /\ job.at = "purge" /\ job' = [at |-> "idle", picked |-> {}]
    /\ IF \E t \in job.picked : Pinned(t) \/ booking[t] = "ticketed"
         THEN UNCHANGED <<status, member>>
         ELSE status' = Gone(job.picked) /\ Cascade(job.picked)
    /\ UNCHANGED <<noted, registered, invite, start, end, stale, booking, day, req, mishaps>>

JobStep == JobStarts \/ JobCompletes \/ JobNotifies \/ GcSelects \/ GcDeletes

\* Every midnight UTC.
Midnight ==
    /\ job.at = "idle" /\ job' = StartUp
    /\ day' = IF day < MaxDay THEN day + 1 ELSE day
    /\ stale' = {t \in Trips : Exists(t)} \cup stale
    /\ UNCHANGED <<status, noted, sharingVars, start, end, booking, req, mishaps>>

\* A restart drops what is not committed; an order being placed is not recorded.
Crash ==
    /\ mishaps < MaxMishaps /\ mishaps' = mishaps + 1
    /\ req' = NoReq /\ job' = StartUp
    /\ booking' = [t \in Trips |-> IF booking[t] = "ordering" THEN "lost" ELSE booking[t]]
    /\ UNCHANGED <<status, noted, sharingVars, start, end, stale, day>>

-----------------------------------------------------------------------------
(* The admin panel: no check of the status or of the bookings. *)

AdminActs == req = NoReq /\ mishaps < MaxMishaps /\ mishaps' = mishaps + 1

AdminUpdatesTrip(t, st) ==
    /\ AdminActs /\ Exists(t) /\ ~(job.at = "locked" /\ t \in job.picked)
    /\ status' = [status EXCEPT ![t] = st]
    /\ UNCHANGED <<noted, sharingVars, start, end, stale, booking, day, req, job>>

AdminDeletesTrip(t) ==
    /\ AdminActs /\ Exists(t) /\ ~(job.at = "locked" /\ t \in job.picked)
    /\ ~Pinned(t) /\ booking[t] # "ticketed"
    /\ status' = Gone({t}) /\ Cascade({t})
    /\ UNCHANGED <<noted, registered, invite, start, end, stale, booking, day, req, job>>

AdminDeletesShare(t, u) ==
    /\ AdminActs /\ u \in member[t]
    /\ member' = [member EXCEPT ![t] = @ \ {u}]
    /\ UNCHANGED <<status, noted, registered, invite, start, end, stale, booking, day, req, job>>

Admin ==
    \E t \in Trips :
        \/ AdminDeletesTrip(t)
        \/ \E st \in {"DRAFT", "PLANNED", "ONGOING", "COMPLETED"} : AdminUpdatesTrip(t, st)
        \/ \E u \in Users : AdminDeletesShare(t, u)

-----------------------------------------------------------------------------
\* A guest deletes the notifications that name the trip.
NotificationsDeleted(t) ==
    /\ req = NoReq /\ t \in noted /\ noted' = noted \ {t}
    /\ UNCHANGED <<status, sharingVars, lifeVars>>

ShareStep == req = NoReq /\ Sharing /\ UNCHANGED lifeVars

Next ==
    \/ Requests \/ Bookings \/ JobStep \/ Midnight \/ Crash \/ ShareStep \/ Admin
    \/ \E t \in Trips : NotificationsDeleted(t)

Spec == Init /\ [][Next]_vars

\* A request in progress ends, the job's thread runs, midnight comes.
FairSpec ==
    /\ Spec
    /\ WF_vars(req # NoReq /\ Requests) /\ WF_vars(JobStep) /\ WF_vars(Midnight)

-----------------------------------------------------------------------------
\* trips_service: the limit is checked against the shares alone when the guest has an
\* account, and not at all when an invite is accepted.  The hole has a bound: a FREE
\* owner's trip never has more than twice the seats of the plan.
AtMostTwice == \A t \in Trips : Seats(t) <= 2 * Limit

\* An invite admits one person: seats, once given, are handed over and never multiply.
\* Only the owner's own grant adds one, and on a closed trip nobody adds or loses one.
SeatsAreGranted ==
    [][\A t \in Trips :
        /\ Seats(t)' > Seats(t) => \E g \in Guests : ShareWithAccount(t, g) \/ InviteByEmail(t, g)
        /\ status[t] = "COMPLETED" /\ status'[t] = "COMPLETED" /\ ~Admin
               => member[t] \subseteq member'[t]
      ]_vars

\* A confirmed flight keeps its trip: delete_trip refuses, and the collection of drafts,
\* which looks at no booking, runs into the order's foreign key.
TicketKeepsTrip == \A t \in Trips : booking[t] = "ticketed" => Exists(t)

\* A trip whose last day is over gets closed, also when a request that had read PLANNED
\* wrote ONGOING over the COMPLETED the job had committed.
EndedTripCloses ==
    \A t \in Trips :
        status[t] \in {"PLANNED", "ONGOING"} /\ start[t] # 0 /\ Ended(t)
            ~> status[t] \notin {"PLANNED", "ONGOING"} \/ ~Ended(t)

\* A draft nobody confirms is deleted, unless some stale draft (this one or another:
\* they share one commit) has a row that refers to it.
DraftsAreCollected ==
    \A t \in Trips :
        t \in stale /\ status[t] = "DRAFT"
            ~> \/ status[t] # "DRAFT"
               \/ \E u \in stale : status[u] = "DRAFT" /\ (Pinned(u) \/ booking[u] = "ticketed")

\* The list of a user's trips (a UNION of two queries) has the trips that trip_access lets
\* him into, and each once; only the owner, who can take up an invite to his own trip,
\* may find it twice.  The two ways to list a group, by a filter of the query and by sorting
\* the rows, show the same trips.
ListsWhatOpens ==
    \A t \in Trips, u \in Users :
        /\ Rows(t, u) > 0 <=> Opens(t, u)
        /\ Rows(t, u) > 1 => u = Owner
        /\ \A group \in DOMAIN Shown : Listed(t, u, group) = Grouped(t, u, group)

=============================================================================
