---------------------------- MODULE Notifications ----------------------------
(***************************************************************************)
(* The pushes the half-hourly job sends about one event of a trip, and the   *)
(* lock that keeps the job to one worker.  In each worker the job's loop     *)
(* takes the lock in Redis, runs its checks in a thread, releases the lock   *)
(* and sleeps.  A tick inserts a row for each recipient not told recently,   *)
(* pushes to FCM and stamps the row; then it pushes again the rows of the    *)
(* last two hours that have no stamp.                                        *)
(*                                                                           *)
(* Two kinds are told by a request instead, in the event loop of a worker    *)
(* and without the lock: the alert of a budget, and a message of the staff   *)
(* to several users.  Their rows are among those the job pushes again.       *)
(*                                                                           *)
(* Time is counted in half hours.  The ticks drift by the time they take: a  *)
(* comparison with a limit that is just reached may go either way.           *)
(***************************************************************************)
EXTENDS Integers, Sequences, FiniteSets

CONSTANTS
    Workers, Users,
    Devices,
    Kinds,       \* the kinds of event considered, of DOMAIN Width
    NoUser, Nobody,
    Audience,    \* how many users an event of a kind is for: its trip's owner and guests
    Mishaps      \* bound: faults, and acts of the users that disturb the job, by kind

VARIABLES
    kind,     \* what is to be told
    audience, \* _get_trip_recipients
    clock,
    worker,   \* the job in each worker
    request,  \* the request each worker's event loop handles
    lock,     \* lock:job:notification
    redis,    \* Redis answers
    rows,     \* notifications, by user
    device,   \* device_tokens: the user a device's pushes are for
    dead,     \* devices FCM no longer knows
    muted,    \* users who switched these notifications off
    mishaps,
    stray     \* a row was inserted by a tick that the lock did not cover

notes == <<rows, device, dead, muted>>
vars == <<kind, audience, clock, worker, request, lock, redis, notes, mishaps, stray>>

\* How long an event is due, and how long its notification silences another.
Width == [departure |-> 48, flight |-> 2, morning |-> 6, activity |-> 2, budget |-> 2, message |-> 1]
Dedup == [departure |-> 40, flight |-> 10, morning |-> 40, activity |-> 4, budget |-> 2]

\* The kinds that a request tells; an alert of one level stands for those of each.
Requested == {"budget", "message"}

\* Bound: how often a request tells a user.
Requests == [budget |-> 2, message |-> 1]

ASSUME NotificationConstantsOK ==
    /\ Kinds \subseteq DOMAIN Width /\ Mishaps \in [Kinds -> Nat] /\ IsFiniteSet(Users)
    /\ Audience \in [Kinds -> 1..Cardinality(Users)]
    /\ Workers # {} /\ NoUser \notin Users /\ Nobody \notin Workers
    /\ "budget" \in Kinds => Audience.budget = 1  \* its owner

\* Mutant of LockTtl: as long as the retry window.
LockTtlOfFour == 4

LockTtl == 2

RetryWindow == 4

Starts == 1
Ends == Starts + Width[kind]
LastClock == Ends + RetryWindow + 1

Row == [at : 0..60, state : {"unsent", "sent", "deleted"}]

RowId == Users \X Nat

NoLock == [by |-> Nobody, until |-> 0]

\* until: of the lock it took, 0 when it has none.
Worker == [at : {"starting", "asleep", "check", "insert", "push", "stamp", "commit", "ended"},
           wake : 0..60, client : {"unknown", "none", "redis"}, until : 0..62,
           todo : SUBSET Users, on : Users \cup {NoUser}, batch : SUBSET RowId,
           slow : BOOLEAN, stopping : BOOLEAN]

TypeOK ==
    /\ kind \in Kinds /\ audience \subseteq Users /\ clock \in 0..LastClock
    /\ worker \in [Workers -> Worker]
    /\ request \in [Workers -> [at : {"idle", "insert", "push", "stamp"}, batch : SUBSET RowId]]
    /\ lock.by \in Workers \cup {Nobody} /\ lock.until \in 0..LastClock + LockTtl
    /\ redis \in BOOLEAN /\ stray \in BOOLEAN /\ mishaps \in 0..Mishaps[kind]
    /\ \A u \in Users : \A i \in DOMAIN rows[u] : rows[u][i] \in Row
    /\ device \in [Devices -> Users \cup {NoUser}]
    /\ dead \subseteq Devices /\ muted \subseteq Users
    /\ \A w \in Workers : worker[w].at \in {"insert", "push", "stamp"} => worker[w].on \in Users

Fresh == [at |-> "starting", wake |-> 0, client |-> "unknown", until |-> 0, todo |-> {},
          on |-> NoUser, batch |-> {}, slow |-> FALSE, stopping |-> FALSE]

Idle == [at |-> "idle", batch |-> {}]

Init ==
    /\ kind \in Kinds /\ clock = 0 /\ request = [w \in Workers |-> Idle]
    /\ audience \in {us \in SUBSET Users : Cardinality(us) = Audience[kind]}
    /\ worker = [w \in Workers |-> Fresh] /\ lock = NoLock /\ redis = TRUE
    /\ rows = [u \in Users |-> <<>>]
    /\ device \in {f \in [Devices -> Users] : \A u \in audience : \E d \in Devices : f[d] = u}
    /\ dead = {} /\ muted = {} /\ mishaps = 0 /\ stray = FALSE

Mishap == mishaps < Mishaps[kind] /\ mishaps' = mishaps + 1

\* a < b, for certain or perhaps: the outcomes of a comparison of two times.
Before(a, b) == IF a < b THEN {TRUE} ELSE IF a = b THEN {TRUE, FALSE} ELSE {FALSE}

Ticking(w) == worker[w].at \in {"check", "insert", "push", "stamp", "commit"}

-----------------------------------------------------------------------------
(* distributed_lock.py *)

\* The token of w's tick is the one in Redis.
Mine(w) == worker[w].until # 0 /\ lock = [by |-> w, until |-> worker[w].until]

\* w is within the time for which it took the lock.
Covered(w) == clock < worker[w].until

\* Mutant of Released: DEL, whoever holds the lock.
ReleasedBlindly(w) == IF worker[w].until # 0 /\ redis THEN NoLock ELSE lock

\* Compare and delete; a failure is logged, and the lock runs out.
Released(w) == IF Mine(w) /\ redis THEN NoLock ELSE lock

\* get_redis_client, memoised for the life of the process.
Client(w) ==
    IF worker[w].client # "unknown" THEN worker[w].client
    ELSE IF redis THEN "redis" ELSE "none"

\* Whether the event may be due now.
Due == {begun /\ ~over : begun \in Before(Starts, clock), over \in Before(Ends, clock)}

StartTick(w, until) ==
    \E due \in Due :
        worker' = [worker EXCEPT ![w].at = "check", ![w].client = Client(w), ![w].until = until,
                                 ![w].todo = IF due /\ kind \notin Requested THEN audience ELSE {}]

Sleep(w) ==
    worker' = [worker EXCEPT ![w] =
        IF @.stopping THEN Fresh
        ELSE [Fresh EXCEPT !.at = "asleep", !.wake = clock + 1, !.client = Client(w)]]

\* notification_scheduler at the top of its loop; a request keeps the event loop.
Awake(w) ==
    /\ request[w] = Idle
    /\ \/ worker[w].at = "starting"
       \/ worker[w].at = "asleep" /\ worker[w].wake <= clock

\* Mutant of Taken: SET NX, without EX.
TakenForGood == {lock.by # Nobody}

\* What SET NX EX may find: a key that expires.
Taken == IF lock.by = Nobody THEN {FALSE} ELSE Before(clock, lock.until)

AcquireLock(w) ==
    /\ Awake(w) /\ Client(w) = "redis" /\ redis
    /\ FALSE \in Taken
    /\ lock' = [by |-> w, until |-> clock + LockTtl]
    /\ StartTick(w, clock + LockTtl)
    /\ UNCHANGED <<kind, audience, request, clock, redis, notes, mishaps, stray>>

SkipTick(w) ==
    /\ Awake(w) /\ Client(w) = "redis" /\ redis
    /\ TRUE \in Taken /\ Sleep(w)
    /\ UNCHANGED <<kind, audience, request, clock, lock, redis, notes, mishaps, stray>>

\* A worker that found no Redis when it started runs without the lock.
TickUnlocked(w) ==
    /\ Awake(w) /\ Client(w) = "none" /\ StartTick(w, 0)
    /\ UNCHANGED <<kind, audience, request, clock, lock, redis, notes, mishaps, stray>>

\* One that had found it: SET raises, outside the try of the loop, and the task ends.
LoopEnds(w) ==
    /\ Awake(w) /\ Client(w) = "redis" /\ ~redis
    /\ worker' = [worker EXCEPT ![w].at = "ended", ![w].client = "redis"]
    /\ UNCHANGED <<kind, audience, request, clock, lock, redis, notes, mishaps, stray>>

-----------------------------------------------------------------------------
(* notification_job.py and notification_service.py *)

Kept(u) == {i \in DOMAIN rows[u] : rows[u][i].state # "deleted"}

Silences(u, i, since) == Before(clock, rows[u][i].at + since)

\* _already_sent: what it may answer.
AlreadySent(u, since) ==
    LET found == {Silences(u, i, since) : i \in Kept(u)} IN
    IF {TRUE} \in found THEN {TRUE} ELSE (UNION found) \cup {FALSE}

\* The dedup check and the preferences of one recipient.
CheckRecipient(w, since) ==
    /\ worker[w].at = "check"
    /\ \E u \in worker[w].todo : \E told \in AlreadySent(u, since) :
          worker' = [worker EXCEPT ![w].todo = @ \ {u},
                                   ![w].at = IF told \/ u \in muted THEN "check" ELSE "insert",
                                   ![w].on = IF told \/ u \in muted THEN NoUser ELSE u]
    /\ UNCHANGED <<kind, audience, request, clock, lock, redis, notes, mishaps, stray>>

CheckDepartureReminders(w) == kind = "departure" /\ CheckRecipient(w, Dedup.departure)

CheckFlightAlerts(w) == kind = "flight" /\ CheckRecipient(w, Dedup.flight)

CheckMorningSummary(w) == kind = "morning" /\ CheckRecipient(w, Dedup.morning)

CheckActivityReminders(w) == kind = "activity" /\ CheckRecipient(w, Dedup.activity)

\* The ids of the rows that telling us appends.
NextRows(us) == {<<u, Len(rows[u]) + 1>> : u \in us}

\* create_and_send: the row and its commit...
InsertRow(w) ==
    /\ worker[w].at = "insert"
    /\ rows' = [rows EXCEPT ![worker[w].on] = Append(@, [at |-> clock, state |-> "unsent"])]
    /\ worker' = [worker EXCEPT ![w].at = "push", ![w].batch = NextRows({worker[w].on})]
    /\ stray' = (stray \/ ~Covered(w))
    /\ UNCHANGED <<kind, audience, request, clock, lock, redis, device, dead, muted, mishaps>>

DevicesOf(u) == {d \in Devices : device[d] = u}

\* _send_fcm: to one device, or to several whatever became of each.
Accepted(u) == Cardinality(DevicesOf(u)) > 1 \/ DevicesOf(u) \ dead # {}

\* The tokens of devices that are gone are dropped.
Dropped(us) == [d \in Devices |-> IF d \in dead /\ device[d] \in us THEN NoUser ELSE device[d]]

NextRecipient(w) ==
    worker' = [worker EXCEPT ![w].at = "check", ![w].on = NoUser, ![w].batch = {}]

\* ...the push...
Push(w) ==
    /\ worker[w].at = "push"
    /\ LET u == worker[w].on IN
       \/ DevicesOf(u) = {} /\ NextRecipient(w) /\ UNCHANGED <<device, mishaps>>
       \/ /\ DevicesOf(u) # {} /\ device' = Dropped({u}) /\ UNCHANGED mishaps
          /\ IF Accepted(u) THEN worker' = [worker EXCEPT ![w].at = "stamp"] ELSE NextRecipient(w)
       \/ /\ DevicesOf(u) # {} /\ Mishap  \* FCM fails: logged
          /\ NextRecipient(w) /\ UNCHANGED device
    /\ UNCHANGED <<kind, audience, request, clock, lock, redis, rows, dead, muted, stray>>

\* An error ends the tick, the retries included; the lock is released.
TickFails(w) ==
    /\ lock' = Released(w) /\ Sleep(w)
    /\ UNCHANGED <<kind, audience, request, clock, redis, notes, stray>>

\* A user has deleted a row that is to be stamped.
Gone(batch) == \E r \in batch : rows[r[1]][r[2]].state = "deleted"

\* One commit for the rows of a batch, which fails when one of them is gone.
Stamped(batch) ==
    IF Gone(batch) THEN rows
    ELSE [u \in Users |-> [i \in DOMAIN rows[u] |->
             IF <<u, i>> \in batch THEN [rows[u][i] EXCEPT !.state = "sent"] ELSE rows[u][i]]]

\* ...and sent_at.
Stamp(w) ==
    /\ worker[w].at = "stamp"
    /\ IF Gone(worker[w].batch)
         THEN TickFails(w)
         ELSE /\ rows' = Stamped(worker[w].batch) /\ NextRecipient(w)
              /\ UNCHANGED <<kind, audience, request, clock, lock, redis, device, dead, muted, stray>>
    /\ UNCHANGED mishaps

Written == UNION {{u} \X DOMAIN rows[u] : u \in Users}

\* Whether retry_unsent selects a row.
Pending(u, i) == IF rows[u][i].state = "unsent" THEN Before(clock, rows[u][i].at + RetryWindow)
                 ELSE {FALSE}

\* retry_unsent: the rows, the tokens, the pushes...
RetryUnsent(w) ==
    /\ worker[w].at = "check" /\ worker[w].todo = {}
    /\ \E picked \in SUBSET {r \in Written : TRUE \in Pending(r[1], r[2])} :
       /\ \A u \in Users : \A i \in DOMAIN rows[u] : Pending(u, i) = {TRUE} => <<u, i>> \in picked
       /\ LET reached == {r \in picked : DevicesOf(r[1]) # {} /\ Accepted(r[1])} IN
          \/ /\ worker' = [worker EXCEPT ![w].at = "commit", ![w].batch = reached]
             /\ device' = Dropped({r[1] : r \in picked}) /\ UNCHANGED mishaps
          \/ /\ reached # {} /\ Mishap
             /\ \E refused \in SUBSET reached \ {{}} :
                   worker' = [worker EXCEPT ![w].at = "commit", ![w].batch = reached \ refused]
             /\ UNCHANGED device
    /\ UNCHANGED <<kind, audience, request, clock, lock, redis, rows, dead, muted, stray>>

\* ...and their commit; the tick's end.
CommitRetries(w) ==
    /\ worker[w].at = "commit"
    /\ rows' = Stamped(worker[w].batch) /\ lock' = Released(w) /\ Sleep(w)
    /\ UNCHANGED <<kind, audience, request, clock, redis, device, dead, muted, mishaps, stray>>

TickStep(w) ==
    \/ AcquireLock(w) \/ SkipTick(w) \/ TickUnlocked(w) \/ LoopEnds(w)
    \/ CheckDepartureReminders(w) \/ CheckFlightAlerts(w) \/ CheckMorningSummary(w)
    \/ CheckActivityReminders(w)
    \/ InsertRow(w) \/ Push(w) \/ Stamp(w) \/ RetryUnsent(w) \/ CommitRetries(w)

-----------------------------------------------------------------------------
(* Told by a request: no await from its first read to its last commit, so the requests of
   one worker follow each other, between steps of the job's thread and of other workers. *)

\* A request of w may tell u: it is in no other's hands, and within the bound.
MayTell(w, u) ==
    /\ request[w] = Idle /\ ~worker[w].stopping /\ TRUE \in Due
    /\ Len(rows[u]) < Requests[kind]

Inserted(us) ==
    rows' = [u \in Users |-> IF u \in us THEN Append(rows[u], [at |-> clock, state |-> "unsent"])
                             ELSE rows[u]]

\* check_and_send_budget_alert, after each write to the budget of a trip that is over it:
\* the dedup check and the preferences...
CheckBudgetAlert(w) ==
    /\ kind = "budget"
    /\ \E u \in audience \ muted :
          /\ MayTell(w, u) /\ FALSE \in AlreadySent(u, Dedup.budget)
          /\ request' = [request EXCEPT ![w] = [at |-> "insert", batch |-> NextRows({u})]]
    /\ UNCHANGED <<kind, audience, clock, worker, lock, redis, notes, mishaps, stray>>

\* ...and the row.
InsertAlert(w) ==
    /\ request[w].at = "insert"
    /\ Inserted(audience)
    /\ request' = [request EXCEPT ![w] = [at |-> "push", batch |-> NextRows(audience)]]
    /\ stray' = (stray \/ \E v \in Workers \ {w} : request[v] # Idle)
    /\ UNCHANGED <<kind, audience, clock, worker, lock, redis, device, dead, muted, mishaps>>

\* create_and_send_bulk: the rows of all the users at once, preferences apart.
SendNotification(w) ==
    /\ kind = "message" /\ \A u \in audience : MayTell(w, u)
    /\ Inserted(audience)
    /\ request' = [request EXCEPT ![w] = [at |-> "push", batch |-> NextRows(audience)]]
    /\ UNCHANGED <<kind, audience, clock, worker, lock, redis, device, dead, muted, mishaps, stray>>

ToldBy(w) == {r[1] : r \in request[w].batch}

\* One push to the devices of all.
PushRequest(w) ==
    /\ request[w].at = "push"
    /\ LET devices == UNION {DevicesOf(u) : u \in ToldBy(w)}
           accepted == Cardinality(devices) > 1 \/ devices \ dead # {}
       IN \/ /\ request' = [request EXCEPT ![w] = IF accepted THEN [@ EXCEPT !.at = "stamp"] ELSE Idle]
             /\ device' = Dropped(ToldBy(w)) /\ UNCHANGED mishaps
          \/ /\ devices # {} /\ Mishap  \* FCM fails: logged
             /\ request' = [request EXCEPT ![w] = Idle] /\ UNCHANGED device
    /\ UNCHANGED <<kind, audience, clock, worker, lock, redis, rows, dead, muted, stray>>

\* sent_at in one commit, which fails when a user has deleted one of the rows.
StampRequest(w) ==
    /\ request[w].at = "stamp"
    /\ rows' = Stamped(request[w].batch) /\ request' = [request EXCEPT ![w] = Idle]
    /\ UNCHANGED <<kind, audience, clock, worker, lock, redis, device, dead, muted, mishaps, stray>>

RequestStep(w) ==
    CheckBudgetAlert(w) \/ InsertAlert(w) \/ SendNotification(w) \/ PushRequest(w) \/ StampRequest(w)

-----------------------------------------------------------------------------
(* Faults. *)

QueryFails(w) == Ticking(w) /\ Mishap /\ TickFails(w)

\* The process is killed and started again; its lock stays until it runs out.
Crash(w) ==
    /\ Mishap /\ worker[w].at # "starting"
    /\ worker' = [worker EXCEPT ![w] = Fresh] /\ request' = [request EXCEPT ![w] = Idle]
    /\ UNCHANGED <<kind, audience, clock, lock, redis, notes, stray>>

\* _stop_schedulers: the task is cancelled and releases the lock; its thread goes on, and
\* the process waits for it.
Shutdown(w) ==
    /\ Mishap /\ worker[w].at # "starting" /\ ~worker[w].stopping /\ request[w] = Idle
    /\ lock' = Released(w)
    /\ worker' = [worker EXCEPT ![w] =
           IF Ticking(w) THEN [@ EXCEPT !.stopping = TRUE, !.until = 0] ELSE Fresh]
    /\ UNCHANGED <<kind, audience, request, clock, redis, notes, stray>>

\* A tick that takes as long as it likes: each push waits for FCM.
SlowTick(w) ==
    /\ Mishap /\ Ticking(w) /\ ~worker[w].slow
    /\ worker' = [worker EXCEPT ![w].slow = TRUE]
    /\ UNCHANGED <<kind, audience, request, clock, lock, redis, notes, stray>>

RedisFails ==
    /\ Mishap /\ redis /\ redis' = FALSE
    /\ UNCHANGED <<kind, audience, request, clock, worker, lock, notes, stray>>

RedisRecovers ==
    /\ ~redis /\ redis' = TRUE
    /\ UNCHANGED <<kind, audience, request, clock, worker, lock, notes, mishaps, stray>>

-----------------------------------------------------------------------------
(* Users and their devices. *)

DeleteNotification(u, i) ==
    /\ Mishap /\ i \in Kept(u)
    /\ rows' = [rows EXCEPT ![u][i].state = "deleted"]
    /\ UNCHANGED <<kind, audience, request, clock, worker, lock, redis, device, dead, muted, stray>>

\* Register moves the token to the user who signed in on the device.
RegisterToken(d, u) ==
    /\ Mishap /\ device[d] # u /\ d \notin dead /\ device' = [device EXCEPT ![d] = u]
    /\ UNCHANGED <<kind, audience, request, clock, worker, lock, redis, rows, dead, muted, stray>>

UnregisterToken(d) ==
    /\ Mishap /\ device[d] # NoUser /\ device' = [device EXCEPT ![d] = NoUser]
    /\ UNCHANGED <<kind, audience, request, clock, worker, lock, redis, rows, dead, muted, stray>>

Uninstall(d) ==
    /\ Mishap /\ d \notin dead /\ dead' = dead \cup {d}
    /\ UNCHANGED <<kind, audience, request, clock, worker, lock, redis, rows, device, muted, stray>>

UpdatePreferences(u) ==
    /\ Mishap
    /\ muted' = IF u \in muted THEN muted \ {u} ELSE muted \cup {u}
    /\ UNCHANGED <<kind, audience, request, clock, worker, lock, redis, rows, device, dead, stray>>

UserStep ==
    \/ \E u \in audience : UpdatePreferences(u) \/ \E i \in DOMAIN rows[u] : DeleteNotification(u, i)
    \/ \E d \in Devices : UnregisterToken(d) \/ Uninstall(d) \/ \E u \in Users : RegisterToken(d, u)

\* Half an hour passes: a tick takes less, unless it is slow, and a restart too.
HalfHour ==
    /\ clock < LastClock
    /\ \A w \in Workers : request[w] = Idle /\ ~Awake(w) /\ (Ticking(w) => worker[w].slow)
    /\ clock' = clock + 1
    /\ UNCHANGED <<kind, audience, request, worker, lock, redis, notes, mishaps, stray>>

Next ==
    \/ HalfHour \/ UserStep \/ RedisFails \/ RedisRecovers
    \/ \E w \in Workers : TickStep(w) \/ RequestStep(w) \/ QueryFails(w) \/ Crash(w) \/ Shutdown(w) \/ SlowTick(w)

Spec == Init /\ [][Next]_vars

-----------------------------------------------------------------------------
\* "Only one worker across the fleet executes it": nobody is told the same twice within
\* the dedup window, though the check and the insert are apart, as long as the lock covers
\* each tick that inserts, whatever crashes, errors and late releases precede it; nor of a
\* budget, unless two workers handle writes to it at the same moment.
ToldOnce ==
    stray \/ kind = "message" \/ \A u \in Users : \A i, j \in Kept(u) :
                i < j => rows[u][j].at >= rows[u][i].at + Dedup[kind]

\* A push that is not sent is sent before its retry window is over: no one fault loses it,
\* a crash that leaves the lock behind included.  (A lost Redis may: it ends the loop.)
\* One that takes longer is in the hands of the only worker there is.
NoPushLost ==
    mishaps <= 1 /\ (\A w \in Workers : worker[w].at # "ended") =>
        \A u \in Users : \A i \in DOMAIN rows[u] :
            rows[u][i].state = "unsent" /\ clock > rows[u][i].at + RetryWindow =>
                \/ DevicesOf(u) = {}
                \/ \E w \in Workers : Workers = {w} /\ <<u, i>> \in worker[w].batch

\* When an event is over every recipient has been told of it, in spite of one fault when
\* it was due for hours and there is another worker; a flight or an activity is due for one:
\* there a fault may cost it.
EventIsTold ==
    /\ clock > Ends
    /\ \/ mishaps = 0
       \/ mishaps = 1 /\ kind \in {"departure", "morning"} /\ \E v, w \in Workers : v # w
    /\ \A w \in Workers : worker[w].at # "ended"
    /\ kind \notin Requested
    => \A u \in audience \ muted : rows[u] # <<>>

=============================================================================
