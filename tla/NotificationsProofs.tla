------------------------- MODULE NotificationsProofs -------------------------
(***************************************************************************)
(* Proofs about Notifications, for any workers, users, devices and bounds:   *)
(* the types, the lock's mutual exclusion, that nobody is told the same twice *)
(* within the dedup window (ToldOnce), that no push is lost (NoPushLost) and  *)
(* that everyone is told (EventIsTold).                                      *)
(***************************************************************************)
EXTENDS Notifications, FiniteSetTheorems, TLAPS

Places == {"starting", "asleep", "check", "insert", "push", "stamp", "commit", "ended"}

Clients == {"unknown", "none", "redis"}

Wakes == 0..60

Untils == 0..62

Batches == SUBSET RowId

Someone == Users \cup {NoUser}

Errands == {"idle", "insert", "push", "stamp"}

Errand == [at : Errands, batch : Batches]

States == {"unsent", "sent", "deleted"}

\* The types the arguments need.
JobTyped ==
    /\ worker \in [Workers -> Worker]
    /\ \A w \in Workers : worker[w].at \in {"insert", "push", "stamp"} => worker[w].on \in Users

RowsTyped == rows \in [Users -> Seq(Row)]

FactTyped == kind \in Kinds /\ audience \subseteq Users /\ clock \in 0..LastClock

RequestTyped == request \in [Workers -> Errand]

LockRow == [by : Workers \cup {Nobody}, until : 0..(LastClock + LockTtl)]

LockTyped == lock \in LockRow /\ redis \in BOOLEAN

CountTyped == stray \in BOOLEAN /\ mishaps \in 0..Mishaps[kind]

PhoneTyped == device \in [Devices -> Someone] /\ dead \subseteq Devices /\ muted \subseteq Users

Typed == FactTyped /\ JobTyped /\ RowsTyped /\ RequestTyped /\ LockTyped /\ CountTyped /\ PhoneTyped

LEMMA WorkerIs ==
  Worker = [at : Places, wake : Wakes, client : Clients, until : Untils, todo : SUBSET Users,
            on : Someone, batch : Batches, slow : BOOLEAN, stopping : BOOLEAN]
  BY DEF Worker, Places, Wakes, Clients, Untils, Someone, Batches

LEMMA RowIs == Row = [at : Wakes, state : States]
  BY DEF Row, Wakes, States

LEMMA Named ==
  /\ "starting" \in Places /\ "asleep" \in Places /\ "check" \in Places /\ "insert" \in Places
  /\ "push" \in Places /\ "stamp" \in Places /\ "commit" \in Places /\ "ended" \in Places
  /\ "unknown" \in Clients /\ "none" \in Clients /\ "redis" \in Clients
  /\ "idle" \in Errands /\ "insert" \in Errands /\ "push" \in Errands /\ "stamp" \in Errands
  /\ "unsent" \in States /\ "sent" \in States /\ "deleted" \in States
  BY DEF Places, Clients, Errands, States

LEMMA KindIs ==
  ASSUME NEW k \in Kinds
  PROVE  k \in {"departure", "flight", "morning", "activity", "budget", "message"}
  BY NotificationConstantsOK DEF Width

LEMMA WidthIs ==
  ASSUME NEW k \in Kinds
  PROVE  Width[k] \in 1..48
  <1>1. /\ Width["departure"] = 48 /\ Width["flight"] = 2 /\ Width["morning"] = 6
        /\ Width["activity"] = 2 /\ Width["budget"] = 2 /\ Width["message"] = 1
    BY DEF Width
  <1>2. QED
    BY <1>1, KindIs

\* The clock's bound, and what is written down of it.
LEMMA Bounds ==
  ASSUME kind \in Kinds
  PROVE  /\ LastClock \in 0..54 /\ LastClock + LockTtl \in 0..56 /\ LockTtl = 2
         /\ \A c \in 0..LastClock : /\ c \in Wakes /\ c + 1 \in Wakes /\ c + LockTtl \in Untils
                                    /\ c + LockTtl \in 0..(LastClock + LockTtl)
  <1>1. Width[kind] \in 1..48
    BY WidthIs
  <1>2. LastClock \in 0..54 /\ LockTtl = 2
    BY <1>1 DEF LastClock, Ends, Starts, RetryWindow, LockTtl
  <1>3. QED
    BY <1>2 DEF Wakes, Untils

-----------------------------------------------------------------------------
(* What a step does to one worker's job. *)

Turns(w, new) ==
    /\ worker' \in [Workers -> Worker]
    /\ \A v \in Workers \ {w} : worker'[v] = worker[v]
    /\ worker'[w] = new

LEMMA TurnsIs ==
  ASSUME JobTyped, NEW w \in Workers, NEW new \in Worker, worker' = [worker EXCEPT ![w] = new]
  PROVE  Turns(w, new)
  BY DEF JobTyped, Turns

LEMMA FreshIs ==
  /\ Fresh \in Worker /\ Fresh.at = "starting" /\ Fresh.until = 0
  /\ \A wake \in Wakes, c \in Clients :
       LET new == [Fresh EXCEPT !.at = "asleep", !.wake = wake, !.client = c] IN
       new \in Worker /\ new.at = "asleep" /\ new.until = 0
  <1>1. /\ Fresh.at = "starting" /\ Fresh.until = 0
    BY DEF Fresh
  <1>2. 0 \in Wakes /\ 0 \in Untils /\ {} \in Batches /\ NoUser \in Someone
    BY DEF Wakes, Untils, Batches, Someone
  <1>3. Fresh \in Worker
    BY <1>2, WorkerIs, Named DEF Fresh
  <1>4. ASSUME NEW wake \in Wakes, NEW c \in Clients,
               NEW new, new = [Fresh EXCEPT !.at = "asleep", !.wake = wake, !.client = c]
        PROVE  new \in Worker /\ new.at = "asleep" /\ new.until = 0
    BY <1>2, <1>4, WorkerIs, Named DEF Fresh
  <1>5. QED
    BY <1>1, <1>3, <1>4

LEMMA ClientIs ==
  ASSUME JobTyped, NEW w \in Workers
  PROVE  Client(w) \in Clients /\ worker[w] \in Worker
  <1>1. worker[w] \in Worker
    BY DEF JobTyped
  <1>2. worker[w].client \in Clients
    BY <1>1, WorkerIs
  <1>3. QED
    BY <1>1, <1>2, Named DEF Client

\* The tick is over, or the process.
Rests(w) ==
    \E new \in Worker : Turns(w, new) /\ new.at \in {"starting", "asleep", "ended"} /\ new.until = 0

LEMMA SleepRests ==
  ASSUME Typed, NEW w \in Workers, Sleep(w)
  PROVE  Rests(w)
  <1>1. JobTyped /\ Client(w) \in Clients /\ clock + 1 \in Wakes
    BY ClientIs, Bounds DEF Typed, FactTyped
  <1>2. CASE worker[w].stopping
    <2>1. worker' = [worker EXCEPT ![w] = Fresh]
      BY <1>2 DEF Sleep
    <2>2. QED
      BY <1>1, <2>1, FreshIs, TurnsIs DEF Rests
  <1>3. CASE ~worker[w].stopping
    <2> DEFINE new == [Fresh EXCEPT !.at = "asleep", !.wake = clock + 1, !.client = Client(w)]
    <2>1. worker' = [worker EXCEPT ![w] = new]
      BY <1>3 DEF Sleep
    <2>2. new \in Worker /\ new.at = "asleep" /\ new.until = 0
      BY <1>1, FreshIs
    <2> HIDE DEF new
    <2>3. QED
      BY <1>1, <2>1, <2>2, TurnsIs DEF Rests
  <1>4. QED
    BY <1>2, <1>3

\* A job's fields rewritten.
AsStarted(x, client, until, todo) ==
    [[[[x EXCEPT !.at = "check"] EXCEPT !.client = client] EXCEPT !.until = until] EXCEPT !.todo = todo]

AsChecked(x, todo, at, on) == [[[x EXCEPT !.todo = todo] EXCEPT !.at = at] EXCEPT !.on = on]

AsCarrying(x, at, batch) == [[x EXCEPT !.at = at] EXCEPT !.batch = batch]

AsMovedOn(x) == [[[x EXCEPT !.at = "check"] EXCEPT !.on = NoUser] EXCEPT !.batch = {}]

AsStopped(x) == [[x EXCEPT !.stopping = TRUE] EXCEPT !.until = 0]

LEMMA StartedIs ==
  ASSUME NEW x \in Worker, NEW client \in Clients, NEW until \in Untils, NEW todo \in SUBSET Users,
         NEW y, y = AsStarted(x, client, until, todo)
  PROVE  /\ y \in Worker /\ y.at = "check" /\ y.until = until
         /\ y.todo = todo /\ y.batch = x.batch /\ y.slow = x.slow
  BY WorkerIs, Named DEF AsStarted

LEMMA CheckedIs ==
  ASSUME NEW x \in Worker, NEW todo \in SUBSET Users, NEW at \in Places, NEW on \in Someone,
         NEW y, y = AsChecked(x, todo, at, on)
  PROVE  /\ y \in Worker /\ y.at = at /\ y.until = x.until /\ y.on = on
         /\ y.todo = todo /\ y.batch = x.batch /\ y.slow = x.slow
  BY WorkerIs, Named DEF AsChecked

LEMMA CarryingIs ==
  ASSUME NEW x \in Worker, NEW at \in Places, NEW batch \in Batches, NEW y, y = AsCarrying(x, at, batch)
  PROVE  /\ y \in Worker /\ y.at = at /\ y.until = x.until /\ y.on = x.on
         /\ y.todo = x.todo /\ y.batch = batch /\ y.slow = x.slow
  BY WorkerIs, Named DEF AsCarrying

LEMMA MovedOnIs ==
  ASSUME NEW x \in Worker, NEW y, y = AsMovedOn(x)
  PROVE  /\ y \in Worker /\ y.at = "check" /\ y.until = x.until
         /\ y.todo = x.todo /\ y.batch = {} /\ y.slow = x.slow
  <1>1. NoUser \in Someone /\ {} \in Batches
    BY DEF Someone, Batches
  <1>2. QED
    BY <1>1, WorkerIs, Named DEF AsMovedOn

LEMMA StoppedIs ==
  ASSUME NEW x \in Worker, NEW y, y = AsStopped(x)
  PROVE  /\ y \in Worker /\ y.at = x.at /\ y.until = 0 /\ y.on = x.on
         /\ y.todo = x.todo /\ y.batch = x.batch /\ y.slow = x.slow /\ y.wake = x.wake
  <1>1. 0 \in Untils
    BY DEF Untils
  <1>2. QED
    BY <1>1, WorkerIs DEF AsStopped

LEMMA EndedIs ==
  ASSUME NEW x \in Worker, NEW y, y = [[x EXCEPT !.at = "ended"] EXCEPT !.client = "redis"]
  PROVE  /\ y \in Worker /\ y.at = "ended" /\ y.until = x.until /\ y.on = x.on
         /\ y.todo = x.todo /\ y.batch = x.batch /\ y.slow = x.slow
  BY WorkerIs, Named

LEMMA SlowedIs ==
  ASSUME NEW x \in Worker, NEW y, y = [x EXCEPT !.slow = TRUE]
  PROVE  /\ y \in Worker /\ y.at = x.at /\ y.until = x.until /\ y.on = x.on
         /\ y.todo = x.todo /\ y.batch = x.batch /\ y.slow = TRUE /\ y.wake = x.wake
  BY WorkerIs

\* The tick goes on: still in its lock's time if it was, and about to insert if it was.
Works(w) ==
    \E new \in Worker :
        /\ Turns(w, new) /\ new.until \in {worker[w].until, 0}
        /\ new.at \in {"insert", "push", "stamp"} => new.on \in Users
        /\ new.at = "insert" => worker[w].at = "insert" /\ new.on = worker[w].on

\* A tick begins.
Begins(w, until) ==
    \E new \in Worker : Turns(w, new) /\ new.at = "check" /\ new.until = until

\* It is about to tell u.
WillTell(w, u) ==
    /\ worker[w].at = "check"
    /\ \E new \in Worker :
         Turns(w, new) /\ new.at = "insert" /\ new.on = u /\ new.until = worker[w].until

LEMMA StartBegins ==
  ASSUME Typed, NEW w \in Workers, NEW until \in Untils, StartTick(w, until)
  PROVE  Begins(w, until)
  <1>1. JobTyped /\ worker[w] \in Worker /\ Client(w) \in Clients /\ audience \in SUBSET Users
    BY ClientIs DEF Typed, FactTyped
  <1>2. PICK todo \in SUBSET Users :
          worker' = [worker EXCEPT ![w].at = "check", ![w].client = Client(w), ![w].until = until,
                                   ![w].todo = todo]
    <2>1. PICK due \in Due :
            worker' = [worker EXCEPT ![w].at = "check", ![w].client = Client(w), ![w].until = until,
                                     ![w].todo = IF due /\ kind \notin Requested THEN audience ELSE {}]
      BY Zenon DEF StartTick
    <2>2. (IF due /\ kind \notin Requested THEN audience ELSE {}) \in SUBSET Users
      BY <1>1
    <2>3. QED
      BY <2>1, <2>2, Zenon
  <1> DEFINE new == AsStarted(worker[w], Client(w), until, todo)
  <1>3. worker' = [worker EXCEPT ![w] = new]
    BY <1>1, <1>2, Zenon DEF JobTyped, AsStarted
  <1>4. new \in Worker /\ new.at = "check" /\ new.until = until
    BY <1>1, StartedIs
  <1> HIDE DEF new
  <1>5. QED
    BY <1>1, <1>3, <1>4, TurnsIs DEF Begins

LEMMA LoopEndsWorks ==
  ASSUME Typed, NEW w \in Workers, LoopEnds(w)
  PROVE  Works(w)
  <1>1. JobTyped /\ worker[w] \in Worker
    BY ClientIs DEF Typed, FactTyped
  <1> DEFINE new == [[worker[w] EXCEPT !.at = "ended"] EXCEPT !.client = "redis"]
  <1>2. worker' = [worker EXCEPT ![w] = new]
    BY <1>1, Zenon DEF JobTyped, LoopEnds
  <1>3. new \in Worker /\ new.at = "ended" /\ new.until = worker[w].until
    BY <1>1, EndedIs
  <1> HIDE DEF new
  <1>4. Turns(w, new)
    BY <1>1, <1>2, <1>3, TurnsIs
  <1>5. QED
    BY <1>3, <1>4 DEF Works

LEMMA SlowWorks ==
  ASSUME Typed, NEW w \in Workers, SlowTick(w)
  PROVE  Works(w)
  <1>1. JobTyped /\ worker[w] \in Worker
    BY ClientIs DEF Typed, FactTyped
  <1> DEFINE new == [worker[w] EXCEPT !.slow = TRUE]
  <1>2. worker' = [worker EXCEPT ![w] = new]
    BY <1>1, Zenon DEF JobTyped, SlowTick
  <1>3. /\ new \in Worker /\ new.at = worker[w].at /\ new.until = worker[w].until
        /\ new.on = worker[w].on
    BY <1>1, SlowedIs
  <1> HIDE DEF new
  <1>4. Turns(w, new)
    BY <1>1, <1>2, <1>3, TurnsIs
  <1>5. QED
    BY <1>1, <1>3, <1>4 DEF Works, JobTyped

LEMMA StoppingWorks ==
  ASSUME Typed, NEW w \in Workers,
         worker' = [worker EXCEPT ![w] = [@ EXCEPT !.stopping = TRUE, !.until = 0]]
  PROVE  Works(w) /\ worker'[w].until = 0
  <1>1. JobTyped /\ worker[w] \in Worker
    BY ClientIs DEF Typed, FactTyped
  <1> DEFINE new == AsStopped(worker[w])
  <1>2. worker' = [worker EXCEPT ![w] = new]
    BY <1>1, Zenon DEF JobTyped, AsStopped
  <1>3. new \in Worker /\ new.at = worker[w].at /\ new.until = 0 /\ new.on = worker[w].on
    BY <1>1, StoppedIs
  <1> HIDE DEF new
  <1>4. Turns(w, new)
    BY <1>1, <1>2, <1>3, TurnsIs
  <1>5. QED
    BY <1>1, <1>3, <1>4 DEF Works, JobTyped, Turns

LEMMA FreshRests ==
  ASSUME Typed, NEW w \in Workers, worker' = [worker EXCEPT ![w] = Fresh]
  PROVE  Rests(w)
  BY FreshIs, TurnsIs DEF Typed, Rests

LEMMA TodoIs ==
  ASSUME NEW x \in Worker
  PROVE  x.todo \in SUBSET Users
  BY WorkerIs

\* The recipient was not told since, or the tick goes to the next one.
LEMMA CheckSays ==
  ASSUME Typed, NEW w \in Workers, NEW since, CheckRecipient(w, since)
  PROVE  \/ Works(w)
         \/ \E u \in Users : FALSE \in AlreadySent(u, since) /\ WillTell(w, u)
  <1>1. JobTyped /\ worker[w] \in Worker /\ worker[w].todo \in SUBSET Users
    BY ClientIs, TodoIs DEF Typed, FactTyped
  <1>2. PICK u \in worker[w].todo : \E told \in AlreadySent(u, since) :
          worker' = [worker EXCEPT ![w].todo = @ \ {u},
                                   ![w].at = IF told \/ u \in muted THEN "check" ELSE "insert",
                                   ![w].on = IF told \/ u \in muted THEN NoUser ELSE u]
    BY Zenon DEF CheckRecipient
  <1>3. PICK told \in AlreadySent(u, since) :
          worker' = [worker EXCEPT ![w].todo = @ \ {u},
                                   ![w].at = IF told \/ u \in muted THEN "check" ELSE "insert",
                                   ![w].on = IF told \/ u \in muted THEN NoUser ELSE u]
    BY <1>2
  <1>4. u \in Users /\ worker[w].todo \ {u} \in SUBSET Users /\ worker[w].at = "check"
    BY <1>1, <1>3 DEF CheckRecipient
  <1>5. CASE told \/ u \in muted
    <2> DEFINE new == AsChecked(worker[w], worker[w].todo \ {u}, "check", NoUser)
    <2>1. worker' = [worker EXCEPT ![w].todo = worker[w].todo \ {u}, ![w].at = "check",
                                   ![w].on = NoUser]
      BY <1>1, <1>3, <1>5, Zenon DEF JobTyped
    <2>2. worker' = [worker EXCEPT ![w] = new]
      BY <1>1, <2>1, Zenon DEF JobTyped, AsChecked
    <2>3. new \in Worker /\ new.at = "check" /\ new.until = worker[w].until
      BY <1>1, <1>4, CheckedIs, Named DEF Someone
    <2> HIDE DEF new
    <2>4. Turns(w, new)
      BY <1>1, <2>2, <2>3, TurnsIs
    <2>5. QED
      BY <2>3, <2>4 DEF Works
  <1>6. CASE ~(told \/ u \in muted)
    <2> DEFINE new == AsChecked(worker[w], worker[w].todo \ {u}, "insert", u)
    <2>1. worker' = [worker EXCEPT ![w].todo = worker[w].todo \ {u}, ![w].at = "insert",
                                   ![w].on = u]
      BY <1>1, <1>3, <1>6, Zenon DEF JobTyped
    <2>2. worker' = [worker EXCEPT ![w] = new]
      BY <1>1, <2>1, Zenon DEF JobTyped, AsChecked
    <2>3. new \in Worker /\ new.at = "insert" /\ new.on = u /\ new.until = worker[w].until
      BY <1>1, <1>4, CheckedIs, Named DEF Someone
    <2> HIDE DEF new
    <2>4. Turns(w, new)
      BY <1>1, <2>2, <2>3, TurnsIs
    <2>5. WillTell(w, u)
      BY <1>4, <2>3, <2>4 DEF WillTell
    <2>6. told = FALSE
      <3>1. told \in BOOLEAN
        BY <1>3 DEF AlreadySent, Silences, Before
      <3>2. QED
        BY <1>6, <3>1
    <2>7. QED
      BY <1>3, <1>4, <2>5, <2>6
  <1>7. QED
    BY <1>5, <1>6

\* w's tick is at its next place, with the rows it carries...
Carries(w, at, batch) ==
    \E new \in Worker :
        /\ Turns(w, new) /\ new.at = at /\ new.batch = batch
        /\ new.until = worker[w].until /\ new.on = worker[w].on
        /\ new.todo = worker[w].todo /\ new.slow = worker[w].slow

\* ...or it carries none and takes the next recipient.
MovesOn(w) ==
    \E new \in Worker :
        /\ Turns(w, new) /\ new.at = "check" /\ new.batch = {} /\ new.until = worker[w].until
        /\ new.todo = worker[w].todo /\ new.slow = worker[w].slow

LEMMA BatchIs ==
  ASSUME NEW x \in Worker
  PROVE  x.batch \in Batches
  BY WorkerIs

LEMMA CarriesIs ==
  ASSUME Typed, NEW w \in Workers, NEW at \in Places, NEW batch \in Batches,
         worker' = [worker EXCEPT ![w].at = at, ![w].batch = batch]
  PROVE  Carries(w, at, batch)
  <1>1. JobTyped /\ worker[w] \in Worker
    BY ClientIs DEF Typed, FactTyped
  <1> DEFINE new == AsCarrying(worker[w], at, batch)
  <1>2. worker' = [worker EXCEPT ![w] = new]
    BY <1>1, Zenon DEF JobTyped, AsCarrying
  <1>3. /\ new \in Worker /\ new.at = at /\ new.until = worker[w].until /\ new.on = worker[w].on
        /\ new.todo = worker[w].todo /\ new.batch = batch /\ new.slow = worker[w].slow
    BY <1>1, CarryingIs
  <1> HIDE DEF new
  <1>4. Turns(w, new)
    BY <1>1, <1>2, <1>3, TurnsIs
  <1>5. QED
    BY <1>3, <1>4 DEF Carries

LEMMA AcceptedIs ==
  ASSUME Typed, NEW w \in Workers, worker' = [worker EXCEPT ![w].at = "stamp"]
  PROVE  Carries(w, "stamp", worker[w].batch)
  <1>1. JobTyped /\ worker[w] \in Worker /\ worker[w].batch \in Batches
    BY ClientIs, BatchIs DEF Typed, FactTyped
  <1> DEFINE new == [worker[w] EXCEPT !.at = "stamp"]
  <1>2. worker' = [worker EXCEPT ![w] = new]
    BY <1>1, Zenon DEF JobTyped
  <1>3. /\ new \in Worker /\ new.at = "stamp" /\ new.until = worker[w].until /\ new.on = worker[w].on
        /\ new.todo = worker[w].todo /\ new.batch = worker[w].batch /\ new.slow = worker[w].slow
    BY <1>1, WorkerIs, Named
  <1> HIDE DEF new
  <1>4. Turns(w, new)
    BY <1>1, <1>2, <1>3, TurnsIs
  <1>5. QED
    BY <1>3, <1>4 DEF Carries

LEMMA MovesOnIs ==
  ASSUME Typed, NEW w \in Workers, NextRecipient(w)
  PROVE  MovesOn(w)
  <1>1. JobTyped /\ worker[w] \in Worker
    BY ClientIs DEF Typed, FactTyped
  <1> DEFINE new == AsMovedOn(worker[w])
  <1>2. worker' = [worker EXCEPT ![w] = new]
    BY <1>1, Zenon DEF JobTyped, AsMovedOn, NextRecipient
  <1>3. /\ new \in Worker /\ new.at = "check" /\ new.until = worker[w].until
        /\ new.todo = worker[w].todo /\ new.batch = {} /\ new.slow = worker[w].slow
    BY <1>1, MovedOnIs
  <1> HIDE DEF new
  <1>4. Turns(w, new)
    BY <1>1, <1>2, <1>3, TurnsIs
  <1>5. QED
    BY <1>3, <1>4 DEF MovesOn

LEMMA CarriesWorks ==
  ASSUME Typed, NEW w \in Workers, NEW batch, NEW at \in {"push", "stamp", "commit"},
         Carries(w, at, batch), at # "commit" => worker[w].on \in Users
  PROVE  Works(w) /\ worker'[w].at = at
  BY DEF Carries, Works, Turns

LEMMA MovesOnWorks ==
  ASSUME NEW w \in Workers, MovesOn(w)
  PROVE  Works(w)
  BY DEF MovesOn, Works

LEMMA NextRowsAre ==
  ASSUME Typed, NEW us \in SUBSET Users
  PROVE  NextRows(us) \in Batches
  <1>1. \A u \in us : Len(rows[u]) + 1 \in Nat
    BY DEF Typed, RowsTyped
  <1>2. QED
    BY <1>1 DEF NextRows, Batches, RowId

LEMMA InsertCarries ==
  ASSUME Typed, NEW w \in Workers, InsertRow(w)
  PROVE  Carries(w, "push", NextRows({worker[w].on})) /\ worker[w].on \in Users
  <1>1. worker[w].on \in Users
    BY DEF InsertRow, Typed, JobTyped
  <1>2. NextRows({worker[w].on}) \in Batches
    BY <1>1, NextRowsAre
  <1>3. worker' = [worker EXCEPT ![w].at = "push", ![w].batch = NextRows({worker[w].on})]
    BY Zenon DEF InsertRow
  <1>4. QED
    BY <1>1, <1>2, <1>3, CarriesIs, Named

LEMMA InsertWorks ==
  ASSUME Typed, NEW w \in Workers, InsertRow(w)
  PROVE  Works(w) /\ worker'[w].at = "push"
  BY InsertCarries, CarriesWorks

-----------------------------------------------------------------------------
(* What a step does to the rows and the devices. *)

\* The rows of a user are the same but for their state, and a deleted one stays deleted.
Alike(old, new) ==
    /\ new \in Seq(Row) /\ Len(new) = Len(old)
    /\ \A i \in 1..Len(old) :
         new[i].at = old[i].at /\ (old[i].state = "deleted" => new[i].state = "deleted")

Restated == RowsTyped' /\ \A u \in Users : Alike(rows[u], rows'[u])

LEMMA Unchanged ==
  ASSUME RowsTyped, UNCHANGED rows
  PROVE  Restated
  BY DEF RowsTyped, Restated, Alike

LEMMA StateIs ==
  ASSUME NEW row \in Row, NEW state \in States, NEW new, new = [row EXCEPT !.state = state]
  PROVE  new \in Row /\ new.at = row.at /\ new.state = state
  BY RowIs

LEMMA RowEdited ==
  ASSUME NEW old \in Seq(Row), NEW i, NEW state \in States,
         NEW new, new = [old EXCEPT ![i] = [old[i] EXCEPT !.state = state]],
         old[i].state # "deleted" \/ state = "deleted"
  PROVE  Alike(old, new)
  <1>1. CASE i \in 1..Len(old)
    <2>1. old[i] \in Row /\ \A j \in 1..Len(old) : old[j] \in Row
      BY <1>1
    <2> DEFINE row == [old[i] EXCEPT !.state = state]
    <2>2. row \in Row /\ row.at = old[i].at /\ row.state = state
      BY <2>1, StateIs
    <2>3. new = [old EXCEPT ![i] = row]
      OBVIOUS
    <2> HIDE DEF row
    <2>4. new \in Seq(Row) /\ Len(new) = Len(old)
      BY <1>1, <2>2, <2>3
    <2>5. \A j \in 1..Len(old) : new[j] = IF j = i THEN row ELSE old[j]
      BY <1>1, <2>3
    <2>6. QED
      BY <2>1, <2>2, <2>4, <2>5 DEF Alike
  <1>2. CASE i \notin 1..Len(old)
    <2>1. new = old
      BY <1>2
    <2>2. QED
      BY <2>1 DEF Alike
  <1>3. QED
    BY <1>1, <1>2

LEMMA OneRestated ==
  ASSUME RowsTyped, NEW u \in Users, NEW i, NEW state \in States,
         rows' = [rows EXCEPT ![u][i].state = state],
         rows[u][i].state # "deleted" \/ state = "deleted"
  PROVE  Restated
  <1>1. rows[u] \in Seq(Row)
    BY DEF RowsTyped
  <1> DEFINE new == [rows[u] EXCEPT ![i] = [rows[u][i] EXCEPT !.state = state]]
  <1>2. rows' = [rows EXCEPT ![u] = new]
    BY Zenon DEF RowsTyped
  <1>3. Alike(rows[u], new)
    BY <1>1, RowEdited
  <1> HIDE DEF new
  <1>4. /\ rows'[u] = new /\ \A v \in Users \ {u} : rows'[v] = rows[v]
        /\ rows' \in [Users -> Seq(Row)]
    BY <1>2, <1>3 DEF RowsTyped, Alike
  <1>5. \A v \in Users : Alike(rows[v], rows[v])
    BY DEF RowsTyped, Alike
  <1>6. QED
    BY <1>3, <1>4, <1>5 DEF Restated, RowsTyped

LEMMA RowList ==
  ASSUME NEW n \in Nat, NEW f \in [1..n -> Row]
  PROVE  f \in Seq(Row) /\ Len(f) = n
  OBVIOUS

LEMMA BatchRestated ==
  ASSUME RowsTyped, NEW batch \in Batches, rows' = Stamped(batch)
  PROVE  Restated
  <1>1. CASE Gone(batch)
    <2>1. rows' = rows
      BY <1>1 DEF Stamped
    <2>2. QED
      BY <2>1, Unchanged
  <1>2. CASE ~Gone(batch)
    <2> DEFINE One(u) == [i \in DOMAIN rows[u] |->
             IF <<u, i>> \in batch THEN [rows[u][i] EXCEPT !.state = "sent"] ELSE rows[u][i]]
    <2>1. rows' = [u \in Users |-> One(u)]
      BY <1>2 DEF Stamped
    <2>2. ASSUME NEW u \in Users PROVE Alike(rows[u], One(u))
      <3>1. rows[u] \in Seq(Row) /\ DOMAIN rows[u] = 1..Len(rows[u]) /\ Len(rows[u]) \in Nat
        BY DEF RowsTyped
      <3>2. ASSUME NEW i \in 1..Len(rows[u])
            PROVE  /\ One(u)[i] \in Row /\ One(u)[i].at = rows[u][i].at
                   /\ rows[u][i].state = "deleted" => One(u)[i].state = "deleted"
        <4>1. rows[u][i] \in Row
          BY <3>1, <3>2
        <4>2. CASE <<u, i>> \in batch
          <5>1. One(u)[i] = [rows[u][i] EXCEPT !.state = "sent"]
            BY <3>1, <3>2, <4>2
          <5>2. rows[u][i].state # "deleted"
            BY <1>2, <4>2 DEF Gone
          <5>3. QED
            BY <4>1, <5>1, <5>2, StateIs, Named
        <4>3. CASE <<u, i>> \notin batch
          BY <3>1, <3>2, <4>1, <4>3
        <4>4. QED
          BY <4>2, <4>3
      <3>3. One(u) = [i \in 1..Len(rows[u]) |-> One(u)[i]]
        BY <3>1
      <3>4. One(u) \in [1..Len(rows[u]) -> Row]
        BY <3>2, <3>3, Zenon
      <3> HIDE DEF One
      <3>5. One(u) \in Seq(Row) /\ Len(One(u)) = Len(rows[u])
        BY <3>1, <3>4, RowList
      <3>6. QED
        BY <3>2, <3>5 DEF Alike
    <2> HIDE DEF One
    <2>3. rows' \in [Users -> Seq(Row)] /\ \A u \in Users : rows'[u] = One(u)
      BY <2>1, <2>2 DEF Alike
    <2>4. QED
      BY <2>2, <2>3 DEF Restated, RowsTyped
  <1>3. QED
    BY <1>1, <1>2

-----------------------------------------------------------------------------
(* The steps, and that the types hold. *)

LEMMA JobTypes ==
  ASSUME JobTyped, NEW w \in Workers,
         \/ Works(w) \/ Rests(w)
         \/ \E until \in Untils : Begins(w, until)
         \/ \E u \in Users : WillTell(w, u)
  PROVE  JobTyped'
  <1>1. PICK new \in Worker : Turns(w, new) /\ (new.at \in {"insert", "push", "stamp"} => new.on \in Users)
    BY DEF Works, Rests, Begins, WillTell
  <1>2. QED
    BY <1>1 DEF JobTyped, Turns

LEMMA ReleasedIs ==
  ASSUME Typed, NEW w \in Workers
  PROVE  Released(w) \in LockRow
  <1>1. 0 \in 0..(LastClock + LockTtl)
    BY Bounds DEF Typed, FactTyped
  <1>2. NoLock \in LockRow
    BY <1>1 DEF NoLock, LockRow
  <1>3. QED
    BY <1>2 DEF Released, Typed, LockTyped

LEMMA MishapIs ==
  ASSUME Typed, Mishap, UNCHANGED kind
  PROVE  mishaps' \in 0..Mishaps[kind]
  <1>1. Mishaps[kind] \in Nat
    BY NotificationConstantsOK DEF Typed, FactTyped
  <1>2. QED
    BY <1>1 DEF Mishap, Typed, CountTyped

LEMMA DroppedIs ==
  ASSUME PhoneTyped, NEW us
  PROVE  Dropped(us) \in [Devices -> Someone]
  BY DEF PhoneTyped, Dropped, Someone

LEMMA PhonesAre ==
  ASSUME PhoneTyped, device' = device \/ \E us : device' = Dropped(us), UNCHANGED <<dead, muted>>
  PROVE  PhoneTyped'
  BY DroppedIs DEF PhoneTyped

\* The job of one worker, and the lock.
JobMoves ==
    \/ UNCHANGED <<worker, lock>> /\ clock' \in {clock, clock + 1}
    \/ /\ UNCHANGED clock
       /\ \E w \in Workers :
            \/ /\ FALSE \in Taken /\ lock' = [by |-> w, until |-> clock + LockTtl]
               /\ Begins(w, clock + LockTtl)
            \/ Begins(w, 0) /\ UNCHANGED lock
            \/ Rests(w) /\ lock' \in {lock, Released(w)}
            \/ Works(w) /\ (UNCHANGED lock \/ (worker'[w].until = 0 /\ lock' = Released(w)))
            \/ /\ UNCHANGED <<lock, rows, stray>> /\ kind \notin Requested
               /\ \E u \in Users : FALSE \in AlreadySent(u, Dedup[kind]) /\ WillTell(w, u)

\* The requests: at most one checks, before it inserts.
AlertMoves ==
    \A v \in Workers :
        \/ request'[v] = request[v]
        \/ request'[v] = Idle
        \/ request'[v].at # "insert" /\ (kind \in Requested \/ request[v] # Idle)
        \/ /\ kind = "budget" /\ UNCHANGED <<rows, clock, stray>>
           /\ \E u \in audience : FALSE \in AlreadySent(u, Dedup[kind])

\* The rows, and whether the lock covers what is inserted.
TickInserts(w) ==
    /\ worker[w].at = "insert" /\ worker'[w].at = "push"
    /\ \A v \in Workers \ {w} : worker'[v] = worker[v]
    /\ rows' = [rows EXCEPT ![worker[w].on] = Append(@, [at |-> clock, state |-> "unsent"])]
    /\ stray' = (stray \/ ~Covered(w))
    /\ UNCHANGED <<clock, request>>

AlertInserts(w) ==
    /\ request[w].at = "insert" /\ request'[w].at = "push"
    /\ \A v \in Workers \ {w} : request'[v] = request[v]
    /\ Inserted(audience)
    /\ stray' = (stray \/ \E v \in Workers \ {w} : request[v] # Idle)
    /\ UNCHANGED <<clock, worker>>

RowMoves ==
    \/ Restated /\ UNCHANGED stray
    \/ \E w \in Workers : TickInserts(w) \/ AlertInserts(w)
    \/ kind = "message"

Moves == JobMoves /\ AlertMoves /\ RowMoves /\ UNCHANGED <<kind, audience>>

LEMMA JobOnly ==
  ASSUME Typed, JobTyped', lock' \in LockRow, mishaps' = mishaps \/ Mishap,
         UNCHANGED <<kind, audience, request, clock, redis, notes, stray>>
  PROVE  Typed' /\ RowMoves /\ AlertMoves
  <1>1. FactTyped' /\ RequestTyped' /\ RowsTyped' /\ PhoneTyped'
    BY DEF Typed, FactTyped, RequestTyped, RowsTyped, PhoneTyped, notes, LastClock, Ends
  <1>2. LockTyped'
    BY DEF Typed, LockTyped, LockRow, LastClock, Ends
  <1>3. CountTyped'
    BY MishapIs DEF Typed, CountTyped
  <1>4. Restated
    BY Unchanged DEF Typed, notes
  <1>5. QED
    BY <1>1, <1>2, <1>3, <1>4 DEF Typed, RowMoves, AlertMoves

LEMMA LockSteps ==
  ASSUME Typed, NEW w \in Workers,
         AcquireLock(w) \/ SkipTick(w) \/ TickUnlocked(w) \/ LoopEnds(w) \/ SlowTick(w) \/ Shutdown(w)
  PROVE  Typed' /\ Moves
  <1>1. /\ clock + LockTtl \in Untils /\ clock + LockTtl \in 0..(LastClock + LockTtl)
        /\ 0 \in Untils /\ lock \in LockRow /\ JobTyped
    BY Bounds DEF Typed, FactTyped, LockTyped, Untils
  <1>2. ASSUME JobMoves, JobTyped', lock' \in LockRow, mishaps' = mishaps \/ Mishap,
               UNCHANGED <<kind, audience, request, clock, redis, notes, stray>>
        PROVE  Typed' /\ Moves
    BY <1>2, JobOnly DEF Moves
  <1>3. CASE AcquireLock(w)
    <2>1. Begins(w, clock + LockTtl)
      BY <1>1, <1>3, StartBegins DEF AcquireLock
    <2>2. lock' \in LockRow
      BY <1>1, <1>3 DEF AcquireLock, LockRow
    <2>3. JobTyped'
      BY <1>1, <2>1, JobTypes
    <2>4. JobMoves
      BY <1>3, <2>1 DEF JobMoves, AcquireLock
    <2>5. QED
      BY <1>2, <1>3, <2>2, <2>3, <2>4 DEF AcquireLock
  <1>4. CASE SkipTick(w)
    <2>1. Rests(w)
      BY <1>4, SleepRests DEF SkipTick
    <2>2. JobTyped'
      BY <1>1, <2>1, JobTypes
    <2>3. JobMoves
      BY <1>4, <2>1 DEF JobMoves, SkipTick
    <2>4. QED
      BY <1>1, <1>2, <1>4, <2>2, <2>3 DEF SkipTick
  <1>5. CASE TickUnlocked(w)
    <2>1. Begins(w, 0)
      BY <1>1, <1>5, StartBegins DEF TickUnlocked
    <2>2. JobTyped'
      BY <1>1, <2>1, JobTypes
    <2>3. JobMoves
      BY <1>5, <2>1 DEF JobMoves, TickUnlocked
    <2>4. QED
      BY <1>1, <1>2, <1>5, <2>2, <2>3 DEF TickUnlocked
  <1>6. CASE LoopEnds(w)
    <2>1. Works(w)
      BY <1>6, LoopEndsWorks
    <2>2. JobTyped'
      BY <1>1, <2>1, JobTypes
    <2>3. UNCHANGED <<kind, audience, request, clock, lock, redis, notes, mishaps, stray>>
      BY <1>6, Zenon DEF LoopEnds
    <2>4. JobMoves
      BY <2>1, <2>3 DEF JobMoves
    <2>5. QED
      BY <1>1, <1>2, <2>2, <2>3, <2>4
  <1>7. CASE SlowTick(w)
    <2>1. Works(w)
      BY <1>7, SlowWorks
    <2>2. JobTyped'
      BY <1>1, <2>1, JobTypes
    <2>3. Mishap /\ UNCHANGED <<kind, audience, request, clock, lock, redis, notes, stray>>
      BY <1>7, Zenon DEF SlowTick
    <2>4. JobMoves
      BY <2>1, <2>3 DEF JobMoves
    <2>5. QED
      BY <1>1, <1>2, <2>2, <2>3, <2>4
  <1>8. CASE Shutdown(w)
    <2>1. /\ Mishap /\ lock' = Released(w)
          /\ UNCHANGED <<kind, audience, request, clock, redis, notes, stray>>
      BY <1>8, Zenon DEF Shutdown
    <2>2. lock' \in LockRow
      BY <2>1, ReleasedIs
    <2>3. CASE Ticking(w)
      <3>1. worker' = [worker EXCEPT ![w] = [@ EXCEPT !.stopping = TRUE, !.until = 0]]
        BY <1>8, <2>3, Zenon DEF Shutdown
      <3>2. Works(w) /\ worker'[w].until = 0
        BY <3>1, StoppingWorks
      <3>3. JobTyped'
        BY <1>1, <3>2, JobTypes
      <3>4. JobMoves
        BY <2>1, <3>2 DEF JobMoves
      <3>5. QED
        BY <1>2, <2>1, <2>2, <3>3, <3>4
    <2>4. CASE ~Ticking(w)
      <3>1. worker' = [worker EXCEPT ![w] = Fresh]
        BY <1>8, <2>4, Zenon DEF Shutdown
      <3>2. Rests(w)
        BY <3>1, FreshRests
      <3>3. JobTyped'
        BY <1>1, <3>2, JobTypes
      <3>4. JobMoves
        BY <2>1, <3>2 DEF JobMoves
      <3>5. QED
        BY <1>2, <2>1, <2>2, <3>3, <3>4
    <2>5. QED
      BY <2>3, <2>4
  <1>9. QED
    BY <1>3, <1>4, <1>5, <1>6, <1>7, <1>8

LEMMA CheckSteps ==
  ASSUME Typed, NEW w \in Workers,
         \/ CheckDepartureReminders(w) \/ CheckFlightAlerts(w) \/ CheckMorningSummary(w)
         \/ CheckActivityReminders(w)
  PROVE  Typed' /\ Moves
  <1>1. kind \notin Requested /\ CheckRecipient(w, Dedup[kind])
    BY DEF CheckDepartureReminders, CheckFlightAlerts, CheckMorningSummary, CheckActivityReminders,
           Requested
  <1>2. /\ UNCHANGED <<kind, audience, request, clock, lock, redis, notes, mishaps, stray>>
        /\ UNCHANGED rows
    BY <1>1, Zenon DEF CheckRecipient, notes
  <1>3. \/ Works(w)
        \/ \E u \in Users : FALSE \in AlreadySent(u, Dedup[kind]) /\ WillTell(w, u)
    BY <1>1, CheckSays
  <1>4. JobTyped'
    BY <1>3, JobTypes DEF Typed
  <1>5. JobMoves
    BY <1>1, <1>2, <1>3 DEF JobMoves
  <1>6. lock' \in LockRow
    BY <1>2 DEF Typed, LockTyped
  <1>7. QED
    BY <1>2, <1>4, <1>5, <1>6, JobOnly DEF Moves

LEMMA InsertStep ==
  ASSUME Typed, NEW w \in Workers, InsertRow(w)
  PROVE  Typed' /\ Moves
  <1>1. /\ worker[w].at = "insert"
        /\ rows' = [rows EXCEPT ![worker[w].on] = Append(@, [at |-> clock, state |-> "unsent"])]
        /\ stray' = (stray \/ ~Covered(w))
        /\ UNCHANGED <<kind, audience, request, clock, lock, redis, device, dead, muted, mishaps>>
    BY Zenon DEF InsertRow
  <1>2. Works(w) /\ worker'[w].at = "push"
    BY InsertWorks
  <1>3. JobTyped' /\ \A v \in Workers \ {w} : worker'[v] = worker[v]
    BY <1>2, JobTypes DEF Typed, Works, Turns
  <1>4. JobMoves
    BY <1>1, <1>2 DEF JobMoves
  <1>5. AlertMoves
    BY <1>1 DEF AlertMoves
  <1>6. RowMoves
    BY <1>1, <1>2, <1>3, Zenon DEF RowMoves, TickInserts
  <1>7. RowsTyped'
    <2>1. clock \in Wakes /\ worker[w].on \in Users
      BY <1>1, Bounds DEF Typed, FactTyped, JobTyped
    <2> DEFINE row == [at |-> clock, state |-> "unsent"]
    <2>2. row \in Row
      BY <2>1, RowIs, Named
    <2> HIDE DEF row
    <2>3. rows' = [rows EXCEPT ![worker[w].on] = Append(rows[worker[w].on], row)]
      BY <1>1, Zenon DEF row, Typed, RowsTyped
    <2>4. QED
      BY <2>1, <2>2, <2>3 DEF Typed, RowsTyped
  <1>8. stray' \in BOOLEAN
    BY <1>1
  <1>9. FactTyped' /\ RequestTyped' /\ PhoneTyped' /\ LockTyped'
    BY <1>1 DEF Typed, FactTyped, RequestTyped, PhoneTyped, LockTyped, LockRow, LastClock, Ends
  <1>10. CountTyped'
    BY <1>1, <1>8 DEF Typed, CountTyped
  <1>11. QED
    BY <1>1, <1>3, <1>4, <1>5, <1>6, <1>7, <1>9, <1>10 DEF Moves, Typed

\* A step of the job that may push.
LEMMA PushOnly ==
  ASSUME Typed, NEW w \in Workers, Works(w), device' = device \/ \E us : device' = Dropped(us),
         mishaps' = mishaps \/ Mishap,
         UNCHANGED <<kind, audience, request, clock, lock, redis, rows, dead, muted, stray>>
  PROVE  Typed' /\ Moves
  <1>1. FactTyped' /\ RequestTyped' /\ RowsTyped' /\ LockTyped'
    BY DEF Typed, FactTyped, RequestTyped, RowsTyped, LockTyped, LockRow, LastClock, Ends
  <1>2. PhoneTyped'
    BY PhonesAre DEF Typed
  <1>3. CountTyped'
    BY MishapIs DEF Typed, CountTyped
  <1>4. JobTyped'
    BY JobTypes DEF Typed
  <1>5. Restated
    BY Unchanged DEF Typed
  <1>6. JobMoves /\ AlertMoves /\ RowMoves
    BY <1>5 DEF JobMoves, AlertMoves, RowMoves
  <1>7. QED
    BY <1>1, <1>2, <1>3, <1>4, <1>6 DEF Typed, Moves

\* What the push of a tick does.
LEMMA PushSays ==
  ASSUME Typed, NEW w \in Workers, Push(w)
  PROVE  /\ worker[w].at = "push" /\ worker[w].on \in Users
         /\ \/ DevicesOf(worker[w].on) = {} /\ MovesOn(w) /\ device' = device /\ mishaps' = mishaps
            \/ /\ device' = Dropped({worker[w].on}) /\ mishaps' = mishaps
               /\ \/ Carries(w, "stamp", worker[w].batch)
                  \/ ~Accepted(worker[w].on) /\ MovesOn(w)
            \/ Mishap /\ MovesOn(w) /\ device' = device
         /\ UNCHANGED <<kind, audience, request, clock, lock, redis, rows, dead, muted, stray>>
  <1> DEFINE u == worker[w].on
  <1>1. worker[w].at = "push" /\ u \in Users
    BY DEF Push, Typed, JobTyped
  <1>2. /\ \/ DevicesOf(u) = {} /\ NextRecipient(w) /\ UNCHANGED <<device, mishaps>>
           \/ /\ DevicesOf(u) # {} /\ device' = Dropped({u}) /\ UNCHANGED mishaps
              /\ IF Accepted(u) THEN worker' = [worker EXCEPT ![w].at = "stamp"] ELSE NextRecipient(w)
           \/ DevicesOf(u) # {} /\ Mishap /\ NextRecipient(w) /\ UNCHANGED device
        /\ UNCHANGED <<kind, audience, request, clock, lock, redis, rows, dead, muted, stray>>
    BY Zenon DEF Push
  <1> HIDE DEF u
  <1>3. NextRecipient(w) => MovesOn(w)
    BY MovesOnIs
  <1>4. worker' = [worker EXCEPT ![w].at = "stamp"] => Carries(w, "stamp", worker[w].batch)
    BY AcceptedIs
  <1>5. QED
    BY <1>1, <1>2, <1>3, <1>4 DEF u

LEMMA PushStep ==
  ASSUME Typed, NEW w \in Workers, Push(w)
  PROVE  Typed' /\ Moves
  <1>1. Works(w)
    BY PushSays, CarriesWorks, MovesOnWorks
  <1>2. device' = device \/ \E us : device' = Dropped(us)
    BY PushSays
  <1>3. mishaps' = mishaps \/ Mishap
    BY PushSays
  <1>4. UNCHANGED <<kind, audience, request, clock, lock, redis, rows, dead, muted, stray>>
    BY PushSays
  <1>5. QED
    BY <1>1, <1>2, <1>3, <1>4, PushOnly

LEMMA RetryStep ==
  ASSUME Typed, NEW w \in Workers, RetryUnsent(w)
  PROVE  Typed' /\ Moves
  <1>1. \A u \in Users : DOMAIN rows[u] \subseteq Nat
    BY DEF Typed, RowsTyped
  <1>2. Written \subseteq RowId
    BY <1>1 DEF Written, RowId
  <1>3. PICK batch \in SUBSET Written :
          /\ worker' = [worker EXCEPT ![w].at = "commit", ![w].batch = batch]
          /\ device' = device \/ \E us : device' = Dropped(us)
          /\ mishaps' = mishaps \/ Mishap
    <2>1. PICK picked \in SUBSET {r \in Written : TRUE \in Pending(r[1], r[2])} :
            LET reached == {r \in picked : DevicesOf(r[1]) # {} /\ Accepted(r[1])} IN
            \/ /\ worker' = [worker EXCEPT ![w].at = "commit", ![w].batch = reached]
               /\ device' = Dropped({r[1] : r \in picked}) /\ UNCHANGED mishaps
            \/ /\ reached # {} /\ Mishap
               /\ \E refused \in SUBSET reached \ {{}} :
                     worker' = [worker EXCEPT ![w].at = "commit", ![w].batch = reached \ refused]
               /\ UNCHANGED device
      BY Zenon DEF RetryUnsent
    <2> DEFINE reached == {r \in picked : DevicesOf(r[1]) # {} /\ Accepted(r[1])}
    <2>2. \A some \in SUBSET reached : some \in SUBSET Written
      OBVIOUS
    <2>3. \A refused : reached \ refused \in SUBSET reached
      OBVIOUS
    <2>4. reached \in SUBSET reached
      OBVIOUS
    <2>5. \E batch \in SUBSET reached :
            /\ worker' = [worker EXCEPT ![w].at = "commit", ![w].batch = batch]
            /\ device' = device \/ \E us : device' = Dropped(us)
            /\ mishaps' = mishaps \/ Mishap
      BY <2>1, <2>3, <2>4, Zenon
    <2> HIDE DEF reached
    <2>6. QED
      BY <2>2, <2>5, Zenon
  <1>4. batch \in Batches
    BY <1>2 DEF Batches
  <1>5. Works(w)
    BY <1>3, <1>4, CarriesIs, CarriesWorks, Named
  <1>6. UNCHANGED <<kind, audience, request, clock, lock, redis, rows, dead, muted, stray>>
    BY Zenon DEF RetryUnsent
  <1>7. QED
    BY <1>3, <1>5, <1>6, PushOnly

LEMMA FailStep ==
  ASSUME Typed, NEW w \in Workers, TickFails(w), mishaps' = mishaps \/ Mishap
  PROVE  Typed' /\ Moves
  <1>1. lock' = Released(w) /\ UNCHANGED <<kind, audience, request, clock, redis, notes, stray>>
    BY DEF TickFails
  <1>2. Rests(w)
    BY SleepRests DEF TickFails
  <1>3. JobTyped'
    BY <1>2, JobTypes DEF Typed
  <1>4. lock' \in LockRow
    BY <1>1, ReleasedIs
  <1>5. JobMoves
    BY <1>1, <1>2 DEF JobMoves
  <1>6. QED
    BY <1>1, <1>3, <1>4, <1>5, JobOnly DEF Moves

LEMMA StampStep ==
  ASSUME Typed, NEW w \in Workers, Stamp(w)
  PROVE  Typed' /\ Moves
  <1>1. CASE Gone(worker[w].batch)
    <2>1. TickFails(w) /\ UNCHANGED mishaps
      BY <1>1, Zenon DEF Stamp
    <2>2. QED
      BY <2>1, FailStep
  <1>2. CASE ~Gone(worker[w].batch)
    <2>1. /\ rows' = Stamped(worker[w].batch) /\ NextRecipient(w)
          /\ UNCHANGED <<kind, audience, request, clock, lock, redis, device, dead, muted, mishaps, stray>>
      BY <1>2, Zenon DEF Stamp
    <2>2. Restated
      BY <2>1, ClientIs, BatchIs, BatchRestated DEF Typed
    <2>3. Works(w)
      BY <2>1, MovesOnIs, MovesOnWorks
    <2>4. FactTyped' /\ RequestTyped' /\ LockTyped' /\ PhoneTyped' /\ CountTyped'
      BY <2>1 DEF Typed, FactTyped, RequestTyped, LockTyped, LockRow, PhoneTyped, CountTyped, LastClock,
                  Ends
    <2>5. JobTyped' /\ RowsTyped'
      BY <2>2, <2>3, JobTypes DEF Typed, Restated
    <2>6. JobMoves /\ AlertMoves /\ RowMoves
      BY <2>1, <2>2, <2>3 DEF JobMoves, AlertMoves, RowMoves
    <2>7. QED
      BY <2>1, <2>4, <2>5, <2>6 DEF Typed, Moves
  <1>3. QED
    BY <1>1, <1>2

LEMMA CommitStep ==
  ASSUME Typed, NEW w \in Workers, CommitRetries(w)
  PROVE  Typed' /\ Moves
  <1>1. /\ rows' = Stamped(worker[w].batch) /\ lock' = Released(w)
        /\ UNCHANGED <<kind, audience, request, clock, redis, device, dead, muted, mishaps, stray>>
    BY DEF CommitRetries
  <1>2. Restated
    BY <1>1, ClientIs, BatchIs, BatchRestated DEF Typed
  <1>3. Rests(w)
    BY SleepRests DEF CommitRetries
  <1>4. JobTyped' /\ RowsTyped' /\ lock' \in LockRow
    BY <1>1, <1>2, <1>3, JobTypes, ReleasedIs DEF Typed, Restated
  <1>5. FactTyped' /\ RequestTyped' /\ LockTyped' /\ PhoneTyped' /\ CountTyped'
    BY <1>1, <1>4 DEF Typed, FactTyped, RequestTyped, LockTyped, LockRow, PhoneTyped, CountTyped,
                      LastClock, Ends
  <1>6. JobMoves /\ AlertMoves /\ RowMoves
    BY <1>1, <1>2, <1>3 DEF JobMoves, AlertMoves, RowMoves
  <1>7. QED
    BY <1>1, <1>4, <1>5, <1>6 DEF Typed, Moves

LEMMA CrashStep ==
  ASSUME Typed, NEW w \in Workers, Crash(w)
  PROVE  Typed' /\ Moves
  <1>1. /\ Mishap /\ worker' = [worker EXCEPT ![w] = Fresh]
        /\ request' = [request EXCEPT ![w] = Idle]
        /\ UNCHANGED <<kind, audience, clock, lock, redis, notes, stray>>
    BY DEF Crash
  <1>2. Rests(w)
    BY <1>1, FreshRests
  <1>3. Idle \in Errand
    BY Named DEF Idle, Errand, Batches
  <1>4. RequestTyped' /\ AlertMoves
    BY <1>1, <1>3 DEF Typed, RequestTyped, AlertMoves
  <1>5. JobTyped' /\ Restated
    BY <1>1, <1>2, JobTypes, Unchanged DEF Typed, notes
  <1>6. FactTyped' /\ RowsTyped' /\ LockTyped' /\ PhoneTyped'
    BY <1>1 DEF Typed, FactTyped, RowsTyped, LockTyped, LockRow, PhoneTyped, notes, LastClock, Ends
  <1>7. CountTyped'
    BY <1>1, MishapIs DEF Typed, CountTyped
  <1>8. JobMoves /\ RowMoves
    BY <1>1, <1>2, <1>5 DEF JobMoves, RowMoves
  <1>9. QED
    BY <1>1, <1>4, <1>5, <1>6, <1>7, <1>8 DEF Typed, Moves

LEMMA ErrandIs ==
  ASSUME Typed, NEW us \in SUBSET Users, NEW at \in Errands
  PROVE  [at |-> at, batch |-> NextRows(us)] \in Errand
  BY NextRowsAre DEF Errand

LEMMA InsertedTyped ==
  ASSUME Typed, NEW us \in SUBSET Users, Inserted(us)
  PROVE  RowsTyped'
  <1> DEFINE row == [at |-> clock, state |-> "unsent"]
  <1>1. clock \in Wakes
    BY Bounds DEF Typed, FactTyped
  <1>2. row \in Row
    BY <1>1, RowIs, Named
  <1>3. rows' = [u \in Users |-> IF u \in us THEN Append(rows[u], row) ELSE rows[u]]
    BY DEF Inserted
  <1> HIDE DEF row
  <1>4. \A u \in Users : Append(rows[u], row) \in Seq(Row) /\ rows[u] \in Seq(Row)
    BY <1>2 DEF Typed, RowsTyped
  <1>5. QED
    BY <1>3, <1>4 DEF RowsTyped

\* A step of one worker's request.
Replies(w, new) ==
    /\ request' \in [Workers -> Errand] /\ request'[w] = new
    /\ \A v \in Workers \ {w} : request'[v] = request[v]

LEMMA RepliesIs ==
  ASSUME RequestTyped, NEW w \in Workers, NEW new \in Errand, request' = [request EXCEPT ![w] = new]
  PROVE  Replies(w, new)
  BY DEF RequestTyped, Replies

LEMMA RequestOnly ==
  ASSUME Typed, NEW w \in Workers, NEW new \in Errand, Replies(w, new),
         RowsTyped', PhoneTyped', stray' \in BOOLEAN, mishaps' = mishaps \/ Mishap,
         UNCHANGED <<kind, audience, clock, worker, lock, redis>>
  PROVE  Typed' /\ JobMoves
  <1>1. FactTyped' /\ LockTyped' /\ JobTyped' /\ RequestTyped'
    BY DEF Typed, FactTyped, LockTyped, LockRow, JobTyped, RequestTyped, Replies, LastClock, Ends
  <1>2. CountTyped'
    BY MishapIs DEF Typed, CountTyped
  <1>3. QED
    BY <1>1, <1>2 DEF Typed, JobMoves

LEMMA IdleIs == Idle \in Errand /\ Idle.at = "idle"
  BY Named DEF Idle, Errand, Batches

LEMMA CheckAlertStep ==
  ASSUME Typed, NEW w \in Workers, CheckBudgetAlert(w)
  PROVE  Typed' /\ Moves
  <1>1. UNCHANGED <<kind, audience, clock, worker, lock, redis, notes, mishaps, stray>> /\ kind = "budget"
    BY Zenon DEF CheckBudgetAlert
  <1>2. PICK u \in audience : /\ FALSE \in AlreadySent(u, Dedup.budget)
                              /\ request' = [request EXCEPT ![w] = [at |-> "insert", batch |-> NextRows({u})]]
    BY Zenon DEF CheckBudgetAlert
  <1> DEFINE new == [at |-> "insert", batch |-> NextRows({u})]
  <1>3. new \in Errand
    BY ErrandIs, Named DEF Typed, FactTyped
  <1> HIDE DEF new
  <1>4. Replies(w, new)
    BY <1>2, <1>3, RepliesIs DEF new, Typed
  <1>5. RowsTyped' /\ PhoneTyped' /\ stray' \in BOOLEAN /\ Restated
    BY <1>1, Unchanged DEF Typed, notes, RowsTyped, PhoneTyped, CountTyped
  <1>6. Typed' /\ JobMoves
    BY <1>1, <1>3, <1>4, <1>5, RequestOnly
  <1>7. AlertMoves
    BY <1>1, <1>2, <1>4 DEF AlertMoves, Replies, notes
  <1>8. RowMoves
    BY <1>1, <1>5 DEF RowMoves
  <1>9. QED
    BY <1>1, <1>6, <1>7, <1>8 DEF Moves

LEMMA InsertAlertStep ==
  ASSUME Typed, NEW w \in Workers, InsertAlert(w)
  PROVE  Typed' /\ Moves
  <1>1. /\ request[w].at = "insert" /\ Inserted(audience)
        /\ request' = [request EXCEPT ![w] = [at |-> "push", batch |-> NextRows(audience)]]
        /\ stray' = (stray \/ \E v \in Workers \ {w} : request[v] # Idle)
        /\ UNCHANGED <<kind, audience, clock, worker, lock, redis, device, dead, muted, mishaps>>
    BY Zenon DEF InsertAlert
  <1> DEFINE new == [at |-> "push", batch |-> NextRows(audience)]
  <1>2. new \in Errand /\ new.at = "push"
    BY ErrandIs, Named DEF Typed, FactTyped
  <1> HIDE DEF new
  <1>3. Replies(w, new)
    BY <1>1, <1>2, RepliesIs DEF new, Typed
  <1>4. RowsTyped'
    BY <1>1, InsertedTyped DEF Typed, FactTyped
  <1>5. PhoneTyped'
    BY <1>1 DEF Typed, PhoneTyped
  <1>6. stray' \in BOOLEAN
    BY <1>1
  <1>7. Typed' /\ JobMoves
    BY <1>1, <1>2, <1>3, <1>4, <1>5, <1>6, RequestOnly
  <1>8. request[w] # Idle
    BY <1>1, IdleIs
  <1>9. AlertMoves
    BY <1>2, <1>3, <1>8 DEF AlertMoves, Replies
  <1>10. AlertInserts(w)
    BY <1>1, <1>2, <1>3, Zenon DEF AlertInserts, Replies
  <1>11. QED
    BY <1>1, <1>7, <1>9, <1>10 DEF Moves, RowMoves

LEMMA SendStep ==
  ASSUME Typed, NEW w \in Workers, SendNotification(w)
  PROVE  Typed' /\ Moves
  <1>1. /\ kind = "message" /\ Inserted(audience)
        /\ request' = [request EXCEPT ![w] = [at |-> "push", batch |-> NextRows(audience)]]
        /\ UNCHANGED <<kind, audience, clock, worker, lock, redis, device, dead, muted, mishaps, stray>>
    BY Zenon DEF SendNotification
  <1> DEFINE new == [at |-> "push", batch |-> NextRows(audience)]
  <1>2. new \in Errand /\ new.at = "push"
    BY ErrandIs, Named DEF Typed, FactTyped
  <1> HIDE DEF new
  <1>3. Replies(w, new)
    BY <1>1, <1>2, RepliesIs DEF new, Typed
  <1>4. RowsTyped'
    BY <1>1, InsertedTyped DEF Typed, FactTyped
  <1>5. PhoneTyped' /\ stray' \in BOOLEAN
    BY <1>1 DEF Typed, PhoneTyped, CountTyped
  <1>6. Typed' /\ JobMoves
    BY <1>1, <1>2, <1>3, <1>4, <1>5, RequestOnly
  <1>7. AlertMoves
    BY <1>1, <1>2, <1>3 DEF AlertMoves, Replies, Requested
  <1>8. QED
    BY <1>1, <1>6, <1>7 DEF Moves, RowMoves

\* The push and the stamp of a request.
LEMMA RequestEnds ==
  ASSUME Typed, NEW w \in Workers, NEW new \in Errand, Replies(w, new), new.at # "insert",
         request[w] # Idle, Restated, PhoneTyped', mishaps' = mishaps \/ Mishap,
         UNCHANGED <<kind, audience, clock, worker, lock, redis, stray>>
  PROVE  Typed' /\ Moves
  <1>1. RowsTyped' /\ stray' \in BOOLEAN
    BY DEF Restated, Typed, CountTyped
  <1>2. Typed' /\ JobMoves
    BY <1>1, RequestOnly
  <1>3. AlertMoves /\ RowMoves
    BY DEF AlertMoves, RowMoves, Replies
  <1>4. QED
    BY <1>2, <1>3 DEF Moves

LEMMA PushRequestStep ==
  ASSUME Typed, NEW w \in Workers, PushRequest(w)
  PROVE  Typed' /\ Moves
  <1>1. /\ request[w].at = "push"
        /\ UNCHANGED <<kind, audience, clock, worker, lock, redis, rows, dead, muted, stray>>
    BY Zenon DEF PushRequest
  <1>2. request[w] # Idle /\ request[w] \in Errand
    BY <1>1, IdleIs DEF Typed, RequestTyped
  <1>3. PICK accepted \in BOOLEAN :
          /\ request' = [request EXCEPT ![w] = IF accepted THEN [@ EXCEPT !.at = "stamp"] ELSE Idle]
          /\ device' = device \/ \E us : device' = Dropped(us)
          /\ mishaps' = mishaps \/ Mishap
    <2> DEFINE devices == UNION {DevicesOf(u) : u \in ToldBy(w)}
               taken == Cardinality(devices) > 1 \/ devices \ dead # {}
    <2>1. \/ /\ request' = [request EXCEPT ![w] = IF taken THEN [@ EXCEPT !.at = "stamp"] ELSE Idle]
             /\ device' = Dropped(ToldBy(w)) /\ UNCHANGED mishaps
          \/ /\ devices # {} /\ Mishap
             /\ request' = [request EXCEPT ![w] = Idle] /\ UNCHANGED device
      BY Zenon DEF PushRequest
    <2>2. taken \in BOOLEAN
      OBVIOUS
    <2> HIDE DEF taken, devices
    <2>3. CASE /\ request' = [request EXCEPT ![w] = IF taken THEN [@ EXCEPT !.at = "stamp"] ELSE Idle]
               /\ device' = Dropped(ToldBy(w)) /\ UNCHANGED mishaps
      BY <2>2, <2>3, Zenon
    <2>4. CASE Mishap /\ request' = [request EXCEPT ![w] = Idle] /\ UNCHANGED device
      <3>1. FALSE \in BOOLEAN
        OBVIOUS
      <3>2. request' = [request EXCEPT ![w] = IF FALSE THEN [@ EXCEPT !.at = "stamp"] ELSE Idle]
        BY <2>4, Zenon
      <3>3. QED
        BY <2>4, <3>1, <3>2, Zenon
    <2>5. QED
      BY <2>1, <2>3, <2>4
  <1>4. Restated /\ PhoneTyped'
    BY <1>1, <1>3, Unchanged, PhonesAre DEF Typed
  <1>5. CASE accepted
    <2> DEFINE new == [request[w] EXCEPT !.at = "stamp"]
    <2>1. new \in Errand /\ new.at = "stamp"
      BY <1>2, Named DEF Errand
    <2>2. request' = [request EXCEPT ![w] = new]
      BY <1>3, <1>5, Zenon DEF Typed, RequestTyped
    <2> HIDE DEF new
    <2>3. Replies(w, new)
      BY <2>1, <2>2, RepliesIs DEF Typed
    <2>4. QED
      BY <1>1, <1>2, <1>3, <1>4, <2>1, <2>3, RequestEnds
  <1>6. CASE ~accepted
    <2>1. request' = [request EXCEPT ![w] = Idle]
      BY <1>3, <1>6, Zenon
    <2>2. Replies(w, Idle)
      BY <2>1, IdleIs, RepliesIs DEF Typed
    <2>3. QED
      BY <1>1, <1>2, <1>3, <1>4, <2>2, IdleIs, RequestEnds
  <1>7. QED
    BY <1>5, <1>6

LEMMA StampRequestStep ==
  ASSUME Typed, NEW w \in Workers, StampRequest(w)
  PROVE  Typed' /\ Moves
  <1>1. /\ request[w].at = "stamp" /\ rows' = Stamped(request[w].batch)
        /\ request' = [request EXCEPT ![w] = Idle]
        /\ UNCHANGED <<kind, audience, clock, worker, lock, redis, device, dead, muted, mishaps, stray>>
    BY Zenon DEF StampRequest
  <1>2. request[w] # Idle /\ request[w].batch \in Batches
    BY <1>1, IdleIs DEF Typed, RequestTyped, Errand
  <1>3. Restated /\ PhoneTyped'
    BY <1>1, <1>2, BatchRestated DEF Typed, PhoneTyped
  <1>4. Replies(w, Idle)
    BY <1>1, IdleIs, RepliesIs DEF Typed
  <1>5. QED
    BY <1>1, <1>2, <1>3, <1>4, IdleIs, RequestEnds

\* The rest leaves the jobs, the requests and the lock alone.
LEMMA Elsewhere ==
  ASSUME Typed, Restated, PhoneTyped', clock' \in {clock, clock + 1}, clock' \in 0..LastClock,
         redis' \in BOOLEAN, mishaps' = mishaps \/ Mishap,
         UNCHANGED <<kind, audience, worker, request, lock, stray>>
  PROVE  Typed' /\ Moves
  <1>1. FactTyped' /\ JobTyped' /\ RequestTyped' /\ LockTyped' /\ RowsTyped'
    BY DEF Typed, FactTyped, JobTyped, RequestTyped, LockTyped, LockRow, Restated, LastClock, Ends
  <1>2. CountTyped'
    BY MishapIs DEF Typed, CountTyped
  <1>3. JobMoves /\ AlertMoves /\ RowMoves
    BY DEF JobMoves, AlertMoves, RowMoves
  <1>4. QED
    BY <1>1, <1>2, <1>3 DEF Typed, Moves

LEMMA UserSteps ==
  ASSUME Typed, UserStep
  PROVE  Typed' /\ Moves
  <1>1. /\ clock' = clock /\ redis' = redis /\ Mishap
        /\ UNCHANGED <<kind, audience, worker, request, lock, stray>>
    BY Zenon DEF UserStep, UpdatePreferences, DeleteNotification, UnregisterToken, Uninstall, RegisterToken
  <1>2. clock' \in 0..LastClock /\ redis' \in BOOLEAN
    BY <1>1 DEF Typed, FactTyped, LockTyped
  <1>3. Restated
    <2>1. ASSUME NEW u \in audience, NEW i \in DOMAIN rows[u], DeleteNotification(u, i)
          PROVE  Restated
      <3>1. rows' = [rows EXCEPT ![u][i].state = "deleted"]
        BY <2>1, Zenon DEF DeleteNotification
      <3>2. QED
        BY <3>1, OneRestated, Named DEF Typed, FactTyped
    <2>2. \/ UNCHANGED rows
          \/ \E u \in audience : \E i \in DOMAIN rows[u] : DeleteNotification(u, i)
      BY Zenon DEF UserStep, UpdatePreferences, UnregisterToken, Uninstall, RegisterToken
    <2>3. QED
      BY <2>1, <2>2, Unchanged DEF Typed
  <1>4. PhoneTyped'
    <2>1. PhoneTyped /\ audience \subseteq Users
      BY DEF Typed, FactTyped
    <2>2. ASSUME NEW u \in audience, UpdatePreferences(u) PROVE PhoneTyped'
      BY <2>1, <2>2 DEF UpdatePreferences, PhoneTyped
    <2>3. ASSUME NEW u \in audience, NEW i \in DOMAIN rows[u], DeleteNotification(u, i) PROVE PhoneTyped'
      BY <2>1, <2>3 DEF DeleteNotification, PhoneTyped
    <2>4. ASSUME NEW d \in Devices, UnregisterToken(d) PROVE PhoneTyped'
      BY <2>1, <2>4 DEF UnregisterToken, PhoneTyped, Someone
    <2>5. ASSUME NEW d \in Devices, Uninstall(d) PROVE PhoneTyped'
      BY <2>1, <2>5 DEF Uninstall, PhoneTyped
    <2>6. ASSUME NEW d \in Devices, NEW u \in Users, RegisterToken(d, u) PROVE PhoneTyped'
      BY <2>1, <2>6 DEF RegisterToken, PhoneTyped, Someone
    <2>7. QED
      BY <2>2, <2>3, <2>4, <2>5, <2>6 DEF UserStep
  <1>5. QED
    BY <1>1, <1>2, <1>3, <1>4, Elsewhere

LEMMA EveryMove ==
  ASSUME Typed, [Next]_vars
  PROVE  Typed' /\ Moves
  <1>1. clock \in 0..LastClock /\ redis \in BOOLEAN /\ PhoneTyped /\ RowsTyped /\ LastClock \in Nat
    BY Bounds DEF Typed, FactTyped, LockTyped
  <1>2. ASSUME RedisFails \/ RedisRecovers PROVE Typed' /\ Moves
    <2>1. /\ redis' \in BOOLEAN /\ (mishaps' = mishaps \/ Mishap)
          /\ UNCHANGED <<kind, audience, request, clock, worker, lock, notes, stray>>
      BY <1>2 DEF RedisFails, RedisRecovers
    <2>2. Restated /\ PhoneTyped'
      BY <1>1, <2>1, Unchanged DEF notes, PhoneTyped
    <2>3. /\ clock' = clock /\ clock' \in 0..LastClock
          /\ UNCHANGED <<kind, audience, worker, request, lock, stray>>
      BY <1>1, <2>1
    <2>4. QED
      BY <2>1, <2>2, <2>3, Elsewhere
  <1>3. ASSUME HalfHour PROVE Typed' /\ Moves
    <2>1. clock' = clock + 1 /\ clock < LastClock
          /\ UNCHANGED <<kind, audience, request, worker, lock, redis, notes, mishaps, stray>>
      BY <1>3, Zenon DEF HalfHour
    <2>2. Restated /\ PhoneTyped'
      BY <1>1, <2>1, Unchanged DEF notes, PhoneTyped
    <2>3. clock' \in 0..LastClock
      BY <1>1, <2>1
    <2>4. QED
      BY <1>1, <2>1, <2>2, <2>3, Elsewhere
  <1>4. ASSUME UNCHANGED vars PROVE Typed' /\ Moves
    <2>1. UNCHANGED <<kind, audience, clock, worker, request, lock, redis, notes, mishaps, stray>>
      BY <1>4 DEF vars
    <2>2. Restated /\ PhoneTyped'
      BY <1>1, <2>1, Unchanged DEF notes, PhoneTyped
    <2>3. /\ clock' = clock /\ clock' \in 0..LastClock /\ redis' \in BOOLEAN /\ mishaps' = mishaps
          /\ UNCHANGED <<kind, audience, worker, request, lock, stray>>
      BY <1>1, <2>1
    <2>4. QED
      BY <2>2, <2>3, Elsewhere
  <1>5. ASSUME NEW w \in Workers, TickStep(w) PROVE Typed' /\ Moves
    BY <1>5, LockSteps, CheckSteps, InsertStep, PushStep, StampStep, RetryStep, CommitStep DEF TickStep
  <1>6. ASSUME NEW w \in Workers, RequestStep(w) PROVE Typed' /\ Moves
    BY <1>6, CheckAlertStep, InsertAlertStep, SendStep, PushRequestStep, StampRequestStep DEF RequestStep
  <1>7. ASSUME NEW w \in Workers, QueryFails(w) PROVE Typed' /\ Moves
    BY <1>7, FailStep DEF QueryFails
  <1>8. QED
    BY <1>2, <1>3, <1>4, <1>5, <1>6, <1>7, UserSteps, CrashStep, LockSteps DEF Next

LEMMA InitTyped ==
  ASSUME Init
  PROVE  Typed
  <1>1. kind \in Kinds /\ audience \subseteq Users /\ clock = 0 /\ lock = NoLock /\ redis = TRUE
        /\ dead = {} /\ muted = {} /\ mishaps = 0 /\ stray = FALSE
    BY DEF Init
  <1>2. FactTyped
    BY <1>1, Bounds DEF FactTyped
  <1>3. JobTyped
    BY FreshIs DEF Init, JobTyped
  <1>4. RowsTyped /\ RequestTyped
    BY IdleIs DEF Init, RowsTyped, RequestTyped
  <1>5. 0 \in 0..(LastClock + LockTtl) /\ Mishaps[kind] \in Nat
    BY <1>1, Bounds, NotificationConstantsOK
  <1>6. NoLock \in LockRow
    BY <1>5 DEF NoLock, LockRow
  <1>7. LockTyped /\ CountTyped
    <2>1. redis \in BOOLEAN /\ stray \in BOOLEAN
      BY <1>1
    <2>2. mishaps \in 0..Mishaps[kind] /\ lock \in LockRow
      BY <1>1, <1>5, <1>6
    <2>3. QED
      BY <2>1, <2>2 DEF LockTyped, CountTyped
  <1>8. device \in [Devices -> Users]
    BY DEF Init
  <1>9. PhoneTyped
    BY <1>1, <1>8 DEF PhoneTyped, Someone
  <1>10. QED
    BY <1>2, <1>3, <1>4, <1>7, <1>9 DEF Typed

LEMMA TypesHold == Spec => []Typed
  <1>1. Init => Typed
    BY InitTyped
  <1>2. Typed /\ [Next]_vars => Typed'
    BY EveryMove
  <1>3. QED
    BY <1>1, <1>2, PTL DEF Spec

\* Every variable keeps its type.
THEOREM TypeCorrect == Spec => []TypeOK
  <1>1. ASSUME Typed PROVE TypeOK
    <2>1. kind \in Kinds /\ audience \subseteq Users /\ clock \in 0..LastClock
      BY <1>1 DEF Typed, FactTyped
    <2>2. /\ worker \in [Workers -> Worker]
          /\ \A w \in Workers : worker[w].at \in {"insert", "push", "stamp"} => worker[w].on \in Users
      BY <1>1 DEF Typed, JobTyped
    <2>3. request \in [Workers -> [at : {"idle", "insert", "push", "stamp"}, batch : SUBSET RowId]]
      BY <1>1 DEF Typed, RequestTyped, Errand, Errands, Batches
    <2>4. lock.by \in Workers \cup {Nobody} /\ lock.until \in 0..LastClock + LockTtl
      BY <1>1 DEF Typed, LockTyped, LockRow
    <2>5. redis \in BOOLEAN /\ stray \in BOOLEAN /\ mishaps \in 0..Mishaps[kind]
      BY <1>1 DEF Typed, LockTyped, CountTyped
    <2>6. \A u \in Users : \A i \in DOMAIN rows[u] : rows[u][i] \in Row
      BY <1>1 DEF Typed, RowsTyped
    <2>7. device \in [Devices -> Users \cup {NoUser}] /\ dead \subseteq Devices /\ muted \subseteq Users
      BY <1>1 DEF Typed, PhoneTyped, Someone
    <2>8. QED
      BY <2>1, <2>2, <2>3, <2>4, <2>5, <2>6, <2>7 DEF TypeOK
  <1>2. QED
    BY <1>1, TypesHold, PTL

-----------------------------------------------------------------------------
(* Nobody is told twice.                                                     *)
(*                                                                         *)
(* The dedup check and the insert are apart, so ToldOnce alone is not        *)
(* inductive: between them, what was read must stay true.  A tick within its *)
(* lock's time holds the lock (Fenced), hence is the only one, hence the      *)
(* check it made still stands when it inserts (Ready).  A request has no      *)
(* lock, but an overlap with another's insert is what stray records.         *)

\* u was told so long ago that a notification is due.
Clear(u) == \A i \in Kept(u) : clock >= rows[u][i].at + Dedup[kind]

Once(u) == \A i, j \in Kept(u) : i < j => rows[u][j].at >= rows[u][i].at + Dedup[kind]

\* Mutual exclusion: a tick that the lock covers has it.
Fenced == \A w \in Workers : Covered(w) => lock = [by |-> w, until |-> worker[w].until]

\* The job inserts the kinds that no request tells; a check precedes the insert of an alert only.
ByKind ==
    \A w \in Workers :
        /\ worker[w].at = "insert" => kind \notin Requested
        /\ request[w] # Idle => kind \in Requested
        /\ request[w].at = "insert" => kind = "budget"

\* An alert is for the trip's owner alone.
Owned == kind = "budget" => \E u \in Users : audience = {u}

Ready == ~stray => \A w \in Workers : worker[w].at = "insert" /\ Covered(w) => Clear(worker[w].on)

ReadyToAlert == ~stray => \A w \in Workers : request[w].at = "insert" => \A u \in audience : Clear(u)

Told == Fenced /\ ByKind /\ Owned /\ Ready /\ ReadyToAlert /\ ToldOnce

LEMMA DedupIs ==
  ASSUME kind \in Kinds, kind # "message"
  PROVE  Dedup[kind] \in Nat
  <1>1. /\ Dedup["departure"] = 40 /\ Dedup["flight"] = 10 /\ Dedup["morning"] = 40
        /\ Dedup["activity"] = 4 /\ Dedup["budget"] = 2
    BY DEF Dedup
  <1>2. QED
    BY <1>1, KindIs

LEMMA ListIs ==
  ASSUME NEW list \in Seq(Row)
  PROVE  /\ DOMAIN list = 1..Len(list) /\ Len(list) \in Nat
         /\ \A i \in 1..Len(list) : list[i].at \in Nat
  <1>1. \A i \in 1..Len(list) : list[i] \in Row
    OBVIOUS
  <1>2. \A row \in Row : row.at \in Wakes
    BY RowIs
  <1>3. \A i \in 1..Len(list) : list[i].at \in Nat
    <2> TAKE i \in 1..Len(list)
    <2>1. list[i].at \in Wakes
      BY <1>1, <1>2
    <2>2. \A n \in Wakes : n \in Nat
      BY DEF Wakes
    <2>3. QED
      BY <2>1, <2>2, Zenon
  <1>4. DOMAIN list = 1..Len(list) /\ Len(list) \in Nat
    OBVIOUS
  <1>5. QED
    BY <1>3, <1>4

LEMMA RowNumbers ==
  ASSUME Typed, NEW u \in Users
  PROVE  /\ rows[u] \in Seq(Row) /\ DOMAIN rows[u] = 1..Len(rows[u]) /\ Len(rows[u]) \in Nat
         /\ \A i \in 1..Len(rows[u]) : rows[u][i].at \in Nat
         /\ Kept(u) \subseteq 1..Len(rows[u]) /\ clock \in Nat
  <1>1. rows[u] \in Seq(Row) /\ clock \in Nat
    BY Bounds DEF Typed, RowsTyped, FactTyped
  <1>2. QED
    BY <1>1, ListIs DEF Kept

\* The rows that are kept after the step.
LEMMA KeptNext ==
  ASSUME Typed', NEW u \in Users, NEW i \in Kept(u)'
  PROVE  i \in 1..Len(rows'[u]) /\ rows'[u][i].state # "deleted" /\ rows'[u] \in Seq(Row)
  <1>1. rows'[u] \in Seq(Row)
    BY DEF Typed, RowsTyped
  <1>2. QED
    BY <1>1, ListIs DEF Kept

\* The clock goes on, and kinds and recipients stay.
LEMMA Onward ==
  ASSUME Typed, Typed', Moves
  PROVE  /\ clock \in Nat /\ clock' \in Nat /\ clock' >= clock /\ kind' = kind /\ audience' = audience
  <1>1. clock \in Nat /\ clock' \in Nat
    BY Bounds DEF Typed, FactTyped
  <1>2. clock' \in {clock, clock + 1}
    BY DEF Moves, JobMoves
  <1>3. QED
    BY <1>1, <1>2 DEF Moves

LEMMA StillClear ==
  ASSUME Typed, Typed', Moves, kind # "message", NEW u \in Users, Alike(rows[u], rows'[u]), Clear(u)
  PROVE  Clear(u)'
  <1>1. ASSUME NEW i \in Kept(u)' PROVE clock' >= rows'[u][i].at + Dedup[kind]'
    <2>1. i \in 1..Len(rows'[u]) /\ rows'[u][i].state # "deleted"
      BY KeptNext
    <2>2. i \in Kept(u) /\ rows'[u][i].at = rows[u][i].at
      BY <2>1, RowNumbers DEF Alike, Kept
    <2>3. clock >= rows[u][i].at + Dedup[kind] /\ rows[u][i].at \in Nat /\ Dedup[kind] \in Nat
      BY <2>2, RowNumbers, DedupIs DEF Clear, Typed, FactTyped
    <2>4. QED
      BY <2>2, <2>3, Onward
  <1>2. QED
    BY <1>1 DEF Clear

LEMMA StillOnce ==
  ASSUME Typed, Typed', Moves, NEW u \in Users, Alike(rows[u], rows'[u]), Once(u)
  PROVE  Once(u)'
  <1>1. \A i \in Kept(u)' : i \in Kept(u) /\ rows'[u][i].at = rows[u][i].at
    <2>1. \A i \in Kept(u)' : i \in 1..Len(rows'[u]) /\ rows'[u][i].state # "deleted"
      BY KeptNext
    <2>2. QED
      BY <2>1, RowNumbers DEF Alike, Kept
  <1>2. QED
    BY <1>1, Onward DEF Once

\* What the dedup check answers when it lets a notification through.
LEMMA CheckedClear ==
  ASSUME Typed, kind # "message", NEW u \in Users, FALSE \in AlreadySent(u, Dedup[kind])
  PROVE  Clear(u)
  <1> DEFINE found == {Silences(u, i, Dedup[kind]) : i \in Kept(u)}
  <1>1. {TRUE} \notin found
    BY DEF AlreadySent
  <1>2. ASSUME NEW i \in Kept(u) PROVE clock >= rows[u][i].at + Dedup[kind]
    <2>1. rows[u][i].at \in Nat /\ Dedup[kind] \in Nat /\ clock \in Nat
      BY RowNumbers, DedupIs DEF Typed, FactTyped
    <2>2. Before(clock, rows[u][i].at + Dedup[kind]) # {TRUE}
      BY <1>1 DEF Silences
    <2>3. ~(clock < rows[u][i].at + Dedup[kind])
      BY <2>2 DEF Before
    <2>4. QED
      BY <2>1, <2>3
  <1>3. QED
    BY <1>2 DEF Clear

\* A row that is appended when all the others are old keeps them apart.
LEMMA AppendedOnce ==
  ASSUME Typed, Typed', Moves, kind # "message", NEW u \in Users, Clear(u), Once(u), clock' = clock,
         rows'[u] = Append(rows[u], [at |-> clock, state |-> "unsent"])
  PROVE  Once(u)'
  <1> DEFINE n == Len(rows[u])
  <1>1. rows[u] \in Seq(Row) /\ n \in Nat
    BY RowNumbers
  <1> DEFINE row == [at |-> clock, state |-> "unsent"]
  <1>2. row.at = clock
    OBVIOUS
  <1>3. /\ Len(rows'[u]) = n + 1 /\ rows'[u][n + 1].at = clock
        /\ \A i \in 1..n : rows'[u][i] = rows[u][i]
    <2> HIDE DEF row
    <2>1. rows'[u] = Append(rows[u], row)
      BY DEF row
    <2>2. QED
      BY <1>1, <1>2, <2>1
  <1> HIDE DEF row
  <1>4. ASSUME NEW i \in Kept(u)'
        PROVE  i \in 1..(n + 1) /\ (i # n + 1 => i \in Kept(u) /\ i \in 1..n)
    <2>1. i \in 1..(n + 1) /\ rows'[u][i].state # "deleted"
      BY <1>3, KeptNext
    <2>2. i # n + 1 => i \in 1..n
      BY <1>1, <2>1
    <2>3. QED
      BY <1>3, <2>1, <2>2, RowNumbers DEF Kept
  <1>5. ASSUME NEW i \in Kept(u)', NEW j \in Kept(u)', i < j
        PROVE  rows'[u][j].at >= rows'[u][i].at + Dedup[kind]
    <2>1. i \in Kept(u) /\ i \in 1..n /\ rows'[u][i] = rows[u][i]
      BY <1>1, <1>3, <1>4, <1>5
    <2>2. CASE j = n + 1
      BY <1>3, <2>1, <2>2 DEF Clear
    <2>3. CASE j # n + 1
      BY <1>3, <1>4, <1>5, <2>1, <2>3 DEF Once
    <2>4. QED
      BY <2>2, <2>3
  <1>6. QED
    BY <1>5, Onward DEF Once

\* What a step leaves of the job and of a request that are about to insert.
LEMMA AboutToInsert ==
  ASSUME Typed, Typed', Moves, NEW v \in Workers, worker'[v].at = "insert"
  PROVE  \/ /\ worker[v].at = "insert" /\ worker'[v].on = worker[v].on
            /\ worker'[v].until \in {worker[v].until, 0}
         \/ /\ kind \notin Requested /\ UNCHANGED <<rows, clock, stray>>
            /\ FALSE \in AlreadySent(worker'[v].on, Dedup[kind])
            /\ worker'[v].on \in Users
  <1>1. CASE worker'[v] = worker[v]
    BY <1>1
  <1>2. CASE worker'[v] # worker[v]
    <2>1. PICK w \in Workers :
            \/ Begins(w, clock + LockTtl) \/ Begins(w, 0) \/ Rests(w) \/ Works(w)
            \/ /\ UNCHANGED <<lock, rows, stray>> /\ kind \notin Requested /\ UNCHANGED clock
               /\ \E u \in Users : FALSE \in AlreadySent(u, Dedup[kind]) /\ WillTell(w, u)
      BY <1>2 DEF Moves, JobMoves
    <2>2. w = v
      BY <1>2, <2>1 DEF Begins, Rests, Works, WillTell, Turns
    <2>3. ~Begins(w, clock + LockTtl) /\ ~Begins(w, 0) /\ ~Rests(w)
      BY <2>2 DEF Begins, Rests, Turns
    <2>4. QED
      BY <2>1, <2>2, <2>3 DEF Works, WillTell, Turns
  <1>3. QED
    BY <1>1, <1>2

\* The job's tick inserts when it is time to tell the user.
LEMMA TickClear ==
  ASSUME Typed, Told, NEW w \in Workers, TickInserts(w), ~stray'
  PROVE  /\ ~stray /\ Covered(w) /\ Clear(worker[w].on) /\ kind \notin Requested /\ worker[w].on \in Users
  BY DEF TickInserts, Told, Ready, ByKind, Typed, JobTyped

LEMMA AlertClear ==
  ASSUME Typed, Told, NEW w \in Workers, AlertInserts(w), ~stray'
  PROVE  /\ ~stray /\ kind = "budget" /\ \A u \in audience : Clear(u)
         /\ \A v \in Workers \ {w} : request[v] = Idle
  BY DEF AlertInserts, Told, ReadyToAlert, ByKind

LEMMA TickAppends ==
  ASSUME Typed, NEW w \in Workers, TickInserts(w)
  PROVE  /\ rows'[worker[w].on] = Append(rows[worker[w].on], [at |-> clock, state |-> "unsent"])
         /\ \A u \in Users \ {worker[w].on} : rows'[u] = rows[u]
  <1>1. worker[w].on \in Users /\ rows \in [Users -> Seq(Row)]
    BY DEF Typed, JobTyped, RowsTyped, TickInserts
  <1> DEFINE row == [at |-> clock, state |-> "unsent"]
  <1>2. rows' = [rows EXCEPT ![worker[w].on] = Append(rows[worker[w].on], row)]
    BY <1>1, Zenon DEF TickInserts
  <1> HIDE DEF row
  <1>3. QED
    BY <1>1, <1>2 DEF row

LEMMA SameRows ==
  ASSUME Typed, NEW u \in Users, rows'[u] = rows[u]
  PROVE  Alike(rows[u], rows'[u])
  BY DEF Typed, RowsTyped, Alike

LEMMA ByKindStays ==
  ASSUME Typed, Typed', Told, Moves
  PROVE  ByKind' /\ Owned'
  <1>1. kind' = kind /\ audience' = audience
    BY DEF Moves
  <1>2. Owned'
    BY <1>1 DEF Told, Owned
  <1>3. ASSUME NEW v \in Workers
        PROVE  /\ worker'[v].at = "insert" => kind \notin Requested
               /\ request'[v] # Idle => kind \in Requested
               /\ request'[v].at = "insert" => kind = "budget"
    <2>1. worker'[v].at = "insert" => kind \notin Requested
      BY AboutToInsert DEF Told, ByKind
    <2>2. request'[v] # Idle => kind \in Requested
      BY DEF Told, ByKind, Moves, AlertMoves, Requested
    <2>3. request'[v].at = "insert" => kind = "budget"
      BY IdleIs DEF Told, ByKind, Moves, AlertMoves
    <2>4. QED
      BY <2>1, <2>2, <2>3
  <1>4. QED
    BY <1>1, <1>2, <1>3 DEF ByKind

\* The tick that takes the lock finds nobody within its time, and only its holder frees it.
LEMMA FencedStays ==
  ASSUME Typed, Typed', Told, Moves
  PROVE  Fenced'
  <1> SUFFICES ASSUME NEW v \in Workers, Covered(v)'
               PROVE  lock' = [by |-> v, until |-> worker'[v].until]
    BY DEF Fenced
  <1>1. clock \in Nat /\ clock' \in Nat /\ clock' >= clock /\ clock' < worker'[v].until
    BY Onward DEF Covered
  <1>2. worker \in [Workers -> Worker] /\ worker' \in [Workers -> Worker]
    BY DEF Typed, JobTyped
  <1>3. worker[v].until \in Untils /\ worker'[v].until \in Untils /\ Untils \subseteq Nat
    BY <1>2, WorkerIs DEF Untils
  <1>4. worker'[v].until # 0
    BY <1>1, <1>3
  <1>5. worker'[v].until = worker[v].until => Covered(v) /\ lock = [by |-> v, until |-> worker[v].until]
    <2> SUFFICES ASSUME worker'[v].until = worker[v].until
                 PROVE  Covered(v) /\ lock = [by |-> v, until |-> worker[v].until]
      OBVIOUS
    <2>1. clock < worker[v].until
      <3>1. worker[v].until \in Nat
        BY <1>3
      <3>2. QED
        BY <1>1, <3>1
    <2>2. QED
      BY <2>1 DEF Covered, Told, Fenced
  <1>6. CASE UNCHANGED <<worker, lock>>
    BY <1>5, <1>6
  <1>7. ASSUME NEW w \in Workers, FALSE \in Taken, lock' = [by |-> w, until |-> clock + LockTtl],
               Begins(w, clock + LockTtl), UNCHANGED clock
        PROVE  lock' = [by |-> v, until |-> worker'[v].until]
    <2>1. CASE w = v
      BY <1>7, <2>1 DEF Begins, Turns
    <2>2. CASE w # v
      <3>1. worker'[v] = worker[v]
        BY <1>7, <2>2 DEF Begins, Turns
      <3>2. lock = [by |-> v, until |-> worker[v].until] /\ clock < lock.until
        BY <1>5, <3>1 DEF Covered
      <3>3. lock.by # Nobody /\ Before(clock, lock.until) = {TRUE}
        BY <3>2, NotificationConstantsOK DEF Before
      <3>4. QED
        BY <1>7, <3>3 DEF Taken
    <2>3. QED
      BY <2>1, <2>2
  <1>8. ASSUME NEW w \in Workers, worker'[v] = worker[v], w # v, lock' \in {lock, Released(w)}
        PROVE  lock' = [by |-> v, until |-> worker'[v].until]
    <2>1. lock = [by |-> v, until |-> worker[v].until]
      BY <1>5, <1>8
    <2>2. lock.by = v
      BY <2>1
    <2>3. ~Mine(w)
      BY <1>8, <2>2 DEF Mine
    <2>4. QED
      BY <1>8, <2>1, <2>3 DEF Released
  <1>9. ASSUME NEW w \in Workers, Rests(w) \/ Works(w) \/ Begins(w, 0), lock' \in {lock, Released(w)},
               Rests(w) \/ Begins(w, 0) \/ lock' = lock \/ worker'[w].until = 0
        PROVE  lock' = [by |-> v, until |-> worker'[v].until]
    <2>1. CASE w # v
      <3>1. worker'[v] = worker[v]
        BY <1>9, <2>1 DEF Rests, Works, Begins, Turns
      <3>2. QED
        BY <1>8, <1>9, <2>1, <3>1
    <2>2. CASE w = v
      <3>1. ~Rests(w) /\ ~Begins(w, 0)
        BY <1>4, <2>2 DEF Rests, Begins, Turns
      <3>2. lock' = lock /\ worker'[v].until = worker[v].until
        BY <1>4, <1>9, <2>2, <3>1 DEF Works, Turns
      <3>3. QED
        BY <1>5, <3>2
    <2>3. QED
      BY <2>1, <2>2
  <1>10. ASSUME NEW w \in Workers, NEW u \in Users, UNCHANGED lock, WillTell(w, u)
         PROVE  lock' = [by |-> v, until |-> worker'[v].until]
    <2>1. worker'[v].until = worker[v].until
      BY <1>10 DEF WillTell, Turns
    <2>2. QED
      BY <1>5, <1>10, <2>1
  <1>11. QED
    BY <1>6, <1>7, <1>9, <1>10 DEF Moves, JobMoves

\* What the check of a covered tick found still stands when it inserts.
LEMMA ReadyStays ==
  ASSUME Typed, Typed', Told, Moves
  PROVE  Ready'
  <1> SUFFICES ASSUME ~stray', NEW v \in Workers, worker'[v].at = "insert", Covered(v)',
                      NEW u \in Users, u = worker'[v].on
               PROVE  Clear(u)'
    <2>1. \A v \in Workers : worker'[v].at = "insert" => worker'[v].on \in Users
      BY DEF Typed, JobTyped
    <2>2. QED
      BY <2>1, Zenon DEF Ready
  <1>1. kind \notin Requested /\ kind' = kind /\ kind # "message" /\ kind # "budget"
    BY ByKindStays DEF ByKind, Moves, Requested
  <1>2. ASSUME Clear(u), Alike(rows[u], rows'[u]) PROVE Clear(u)'
    BY <1>1, <1>2, StillClear
  <1>3. ASSUME worker[v].at = "insert", worker'[v].on = worker[v].on,
               worker'[v].until \in {worker[v].until, 0}
        PROVE  Clear(u)'
    <2>1. clock \in Nat /\ clock' \in Nat /\ clock' >= clock /\ clock' < worker'[v].until
      BY Onward DEF Covered
    <2>2. worker[v] \in Worker
      BY DEF Typed, JobTyped
    <2>3. worker[v].until \in Untils
      BY <2>2, WorkerIs
    <2>4. worker[v].until \in Nat
      BY <2>3 DEF Untils
    <2>5. worker'[v].until # 0
      BY <2>1
    <2>6. clock' < worker[v].until
      BY <1>3, <2>1, <2>5
    <2>7. Covered(v)
      <3>1. clock < worker[v].until
        BY <2>1, <2>4, <2>6
      <3>2. QED
        BY <3>1 DEF Covered
    <2>8. ~stray => Clear(u)
      BY <1>3, <2>7 DEF Told, Ready
    <2>9. CASE Restated /\ UNCHANGED stray
      BY <1>2, <2>8, <2>9 DEF Restated
    <2>10. ASSUME NEW w \in Workers, TickInserts(w) PROVE FALSE
      <3>1. Covered(w) /\ w # v
        BY <2>10, TickClear, Named DEF TickInserts
      <3>2. [by |-> w, until |-> worker[w].until] = [by |-> v, until |-> worker[v].until]
        BY <2>7, <3>1 DEF Told, Fenced
      <3>3. [by |-> w, until |-> worker[w].until].by = [by |-> v, until |-> worker[v].until].by
        BY <3>2
      <3>4. QED
        BY <3>1, <3>3
    <2>11. ASSUME NEW w \in Workers, AlertInserts(w) PROVE FALSE
      BY <1>1, <2>11, AlertClear
    <2>12. QED
      BY <1>1, <2>9, <2>10, <2>11 DEF Moves, RowMoves
  <1>4. ASSUME UNCHANGED <<rows, clock, stray>>, FALSE \in AlreadySent(u, Dedup[kind])
        PROVE  Clear(u)'
    <2>1. Clear(u)
      BY <1>1, <1>4, CheckedClear
    <2>2. Alike(rows[u], rows'[u])
      BY <1>4, SameRows
    <2>3. QED
      BY <1>2, <2>1, <2>2
  <1>5. QED
    BY <1>3, <1>4, AboutToInsert

\* So does what a request found, unless another inserts: which is stray.
LEMMA ReadyToAlertStays ==
  ASSUME Typed, Typed', Told, Moves
  PROVE  ReadyToAlert'
  <1> SUFFICES ASSUME ~stray', NEW v \in Workers, request'[v].at = "insert", NEW u \in audience
               PROVE  Clear(u)'
    BY DEF ReadyToAlert, Moves
  <1>1. kind = "budget" /\ kind' = kind /\ kind # "message" /\ "budget" \in Requested
    BY ByKindStays DEF ByKind, Moves, Requested
  <1>2. u \in Users
    BY DEF Typed, FactTyped
  <1>3. ASSUME Clear(u), Alike(rows[u], rows'[u]) PROVE Clear(u)'
    BY <1>1, <1>2, <1>3, StillClear
  <1>4. ASSUME request'[v] = request[v] PROVE Clear(u)'
    <2>1. request[v].at = "insert" /\ request[v] # Idle
      BY <1>4, IdleIs
    <2>2. ~stray => Clear(u)
      BY <2>1 DEF Told, ReadyToAlert
    <2>3. CASE Restated /\ UNCHANGED stray
      BY <1>2, <1>3, <2>2, <2>3 DEF Restated
    <2>4. ASSUME NEW w \in Workers, TickInserts(w) PROVE FALSE
      BY <1>1, <2>4, TickClear
    <2>5. ASSUME NEW w \in Workers, AlertInserts(w) PROVE FALSE
      <3>1. w # v
        BY <1>4, <2>1, <2>5 DEF AlertInserts
      <3>2. QED
        BY <2>1, <2>5, <3>1, AlertClear
    <2>6. QED
      BY <1>1, <2>3, <2>4, <2>5 DEF Moves, RowMoves
  <1>5. ASSUME UNCHANGED <<rows, clock, stray>>, \E t \in audience : FALSE \in AlreadySent(t, Dedup[kind])
        PROVE  Clear(u)'
    <2>1. FALSE \in AlreadySent(u, Dedup[kind])
      <3>1. PICK t \in audience : FALSE \in AlreadySent(t, Dedup[kind])
        BY <1>5
      <3>2. t = u
        BY <1>1, <3>1 DEF Told, Owned
      <3>3. QED
        BY <3>1, <3>2
    <2>2. Clear(u)
      BY <1>1, <1>2, <2>1, CheckedClear
    <2>3. Alike(rows[u], rows'[u])
      BY <1>2, <1>5, SameRows
    <2>4. QED
      BY <1>3, <2>2, <2>3
  <1>6. QED
    BY <1>4, <1>5, IdleIs DEF Moves, AlertMoves

LEMMA OnceIs ==
  ToldOnce <=> (~stray /\ kind # "message" => \A u \in Users : Once(u))
  BY DEF ToldOnce, Once

LEMMA ToldOnceStays ==
  ASSUME Typed, Typed', Told, Moves
  PROVE  ToldOnce'
  <1> SUFFICES ASSUME ~stray', kind # "message", NEW u \in Users
               PROVE  Once(u)'
    BY OnceIs DEF Moves, ToldOnce, Once
  <1>1. ~stray => Once(u)
    BY OnceIs DEF Told
  <1>2. CASE Restated /\ UNCHANGED stray
    BY <1>1, <1>2, StillOnce DEF Restated
  <1>3. ASSUME NEW w \in Workers, TickInserts(w) PROVE Once(u)'
    <2>1. ~stray /\ Clear(worker[w].on) /\ worker[w].on \in Users
      BY <1>3, TickClear
    <2>2. CASE u = worker[w].on
      <3>1. /\ rows'[u] = Append(rows[u], [at |-> clock, state |-> "unsent"])
            /\ Clear(u) /\ Once(u) /\ clock' = clock
        BY <1>1, <1>3, <2>1, <2>2, TickAppends DEF TickInserts
      <3>2. QED
        BY <3>1, AppendedOnce
    <2>3. CASE u # worker[w].on
      <3>1. rows'[u] = rows[u] /\ Once(u)
        BY <1>1, <1>3, <2>1, <2>3, TickAppends
      <3>2. QED
        BY <3>1, SameRows, StillOnce
    <2>4. QED
      BY <2>2, <2>3
  <1>4. ASSUME NEW w \in Workers, AlertInserts(w) PROVE Once(u)'
    <2>1. ~stray /\ (u \in audience => Clear(u)) /\ Once(u) /\ clock' = clock
      BY <1>1, <1>4, AlertClear DEF AlertInserts
    <2>2. CASE u \in audience
      <3>1. rows'[u] = Append(rows[u], [at |-> clock, state |-> "unsent"])
        BY <1>4, <2>2, Zenon DEF AlertInserts, Inserted
      <3>2. QED
        BY <2>1, <2>2, <3>1, AppendedOnce
    <2>3. CASE u \notin audience
      <3>1. rows'[u] = rows[u]
        BY <1>4, <2>3, Zenon DEF AlertInserts, Inserted
      <3>2. QED
        BY <2>1, <3>1, SameRows, StillOnce
    <2>4. QED
      BY <2>2, <2>3
  <1>5. QED
    BY <1>2, <1>3, <1>4 DEF Moves, RowMoves

\* Nobody is told the same twice within the dedup window, as long as the lock covers the
\* ticks that insert and no two workers handle an alert at once: for any number of workers,
\* users, devices and faults.
THEOREM NobodyToldTwice == Spec => []ToldOnce
  <1>1. Init => Typed /\ Told
    <2> SUFFICES ASSUME Init PROVE Typed /\ Told
      OBVIOUS
    <2>1. Typed
      BY InitTyped
    <2>2. /\ clock = 0 /\ \A w \in Workers : worker[w] = Fresh /\ request[w] = Idle
      BY DEF Init
    <2>3. Fenced
      <3>1. \A w \in Workers : worker[w].until = 0
        BY <2>2, FreshIs
      <3>2. QED
        BY <2>2, <3>1 DEF Fenced, Covered
    <2>4. ByKind /\ Ready /\ ReadyToAlert
      BY <2>2, FreshIs, IdleIs DEF ByKind, Ready, ReadyToAlert
    <2>5. Owned
      <3> SUFFICES ASSUME kind = "budget" PROVE \E u \in Users : audience = {u}
        BY DEF Owned
      <3>1. kind \in Kinds /\ audience \subseteq Users /\ Cardinality(audience) = Audience[kind]
        BY DEF Init
      <3>2. Cardinality(audience) = 1 /\ IsFiniteSet(audience)
        BY <3>1, NotificationConstantsOK, FS_Subset
      <3>3. PICK u : audience = {u}
        BY <3>2, FS_Singleton
      <3>4. QED
        BY <3>1, <3>3
    <2>6. ToldOnce
      <3>1. \A u \in Users : rows[u] = <<>>
        BY DEF Init
      <3>2. \A u \in Users : Kept(u) = {}
        BY <3>1 DEF Kept
      <3>3. QED
        BY <3>2 DEF ToldOnce
    <2>7. QED
      BY <2>1, <2>3, <2>4, <2>5, <2>6 DEF Told
  <1>2. Typed /\ Told /\ [Next]_vars => (Typed /\ Told)'
    <2> SUFFICES ASSUME Typed, Told, [Next]_vars PROVE Typed' /\ Told'
      OBVIOUS
    <2>1. Typed' /\ Moves
      BY EveryMove
    <2>2. QED
      BY <2>1, FencedStays, ByKindStays, ReadyStays, ReadyToAlertStays, ToldOnceStays DEF Told
  <1>3. Typed /\ Told => ToldOnce
    BY DEF Told
  <1>4. QED
    BY <1>1, <1>2, <1>3, PTL DEF Spec

-----------------------------------------------------------------------------
(* No push is lost, and everyone is told.                                    *)
(*                                                                         *)
(* Both are about what a tick leaves to the next one.  The arguments need a   *)
(* finer account of the steps than Moves: what the job of a worker carries,   *)
(* whom it still has to tell, when it wakes, and that a step is either calm   *)
(* (nothing goes wrong in it) or one of the mishaps.                         *)

\* The rows that a tick or a request of w has yet to stamp.
Carried(w) ==
    worker[w].batch \cup (IF request[w].at \in {"push", "stamp"} THEN request[w].batch ELSE {})

\* A push is due to u.
Owed(u, i) == i \in 1..Len(rows[u]) /\ rows[u][i].state = "unsent" /\ DevicesOf(u) # {}

\* Devices are dropped, none is added.
Fewer ==
    /\ \A u \in Users : DevicesOf(u)' \subseteq DevicesOf(u)
    /\ dead = {} => device' = device

Sleeps(w) ==
    \E new \in Worker :
        /\ Turns(w, new) /\ new.at \in {"starting", "asleep"} /\ new.wake \in 0..(clock + 1)
        /\ new.batch = {} /\ new.todo = {} /\ new.slow = FALSE

Opens(w) ==
    /\ Awake(w) /\ UNCHANGED <<rows, device>>
    /\ \E new \in Worker :
         /\ Turns(w, new) /\ new.at = "check"
         /\ new.batch = worker[w].batch /\ new.slow = worker[w].slow
         /\ new.todo \in {{}, audience} /\ (Due = {TRUE} /\ kind \notin Requested => new.todo = audience)
         /\ \/ UNCHANGED lock
            \/ FALSE \in Taken /\ new.until = clock + LockTtl /\ lock' = [by |-> w, until |-> new.until]

Skips(w) == Awake(w) /\ TRUE \in Taken /\ Sleeps(w) /\ UNCHANGED <<lock, rows, device>>

LoopStops(w) ==
    /\ Awake(w) /\ ~redis /\ UNCHANGED <<lock, rows, device>>
    /\ \E new \in Worker :
         /\ Turns(w, new) /\ new.at = "ended" /\ new.batch = worker[w].batch
         /\ new.todo = worker[w].todo /\ new.slow = worker[w].slow

Checks(w) ==
    /\ worker[w].at = "check" /\ UNCHANGED <<lock, rows, device>>
    /\ \E new \in Worker : \E u \in worker[w].todo :
         /\ Turns(w, new) /\ new.at \in {"check", "insert"} /\ new.todo = worker[w].todo \ {u}
         /\ new.batch = worker[w].batch /\ new.slow = worker[w].slow /\ new.until = worker[w].until
         /\ new.at = "insert" => new.on = u
         /\ u \notin muted /\ rows[u] = <<>> => new.at = "insert"

Inserts(w) ==
    /\ worker[w].at = "insert" /\ worker[w].on \in Users /\ UNCHANGED <<lock, device>>
    /\ Carries(w, "push", NextRows({worker[w].on})) /\ Inserted({worker[w].on})

Pushes(w) ==
    /\ worker[w].at = "push" /\ Fewer /\ UNCHANGED <<lock, rows>>
    /\ \/ Carries(w, "stamp", worker[w].batch)
       \/ MovesOn(w) /\ \E u \in Users : worker[w].on = u /\ DevicesOf(u)' = {}

Stamps(w) ==
    /\ worker[w].at = "stamp" /\ ~Gone(worker[w].batch) /\ UNCHANGED <<lock, device>>
    /\ rows' = Stamped(worker[w].batch) /\ MovesOn(w)

Finishes(w) ==
    /\ worker[w].at = "commit" \/ (worker[w].at = "stamp" /\ Gone(worker[w].batch))
    /\ rows' = Stamped(worker[w].batch) /\ lock' = Released(w) /\ Sleeps(w) /\ UNCHANGED device

Retries(w) ==
    /\ worker[w].at = "check" /\ worker[w].todo = {} /\ Fewer /\ UNCHANGED <<lock, rows>>
    /\ \E batch \in SUBSET Written :
         /\ Carries(w, "commit", batch)
         /\ \A r \in batch : rows[r[1]][r[2]].state = "unsent"
         /\ \A u \in Users : \A i \in 1..Len(rows[u]) :
              rows[u][i].state = "unsent" /\ clock < rows[u][i].at + RetryWindow =>
                  <<u, i>> \in batch \/ DevicesOf(u)' = {}

JobActs(w) ==
    /\ UNCHANGED request
    /\ \/ Opens(w) \/ Skips(w) \/ LoopStops(w) \/ Checks(w) \/ Inserts(w) \/ Pushes(w) \/ Stamps(w)
       \/ Finishes(w) \/ Retries(w)

Asks(w) ==
    /\ request[w] = Idle /\ UNCHANGED <<rows, device>>
    /\ \E new \in Errand : Replies(w, new) /\ new.at = "insert"

RequestInserts(w) ==
    /\ request[w].at \in {"idle", "insert"} /\ Inserted(audience) /\ UNCHANGED device
    /\ \E new \in Errand : Replies(w, new) /\ new.at = "push" /\ new.batch = NextRows(audience)

RequestPushes(w) ==
    /\ request[w].at = "push" /\ Fewer /\ UNCHANGED rows
    /\ \/ \E new \in Errand : Replies(w, new) /\ new.at = "stamp" /\ new.batch = request[w].batch
       \/ Replies(w, Idle) /\ \A u \in Users : \A i : <<u, i>> \in request[w].batch => DevicesOf(u)' = {}

RequestStamps(w) ==
    /\ request[w].at = "stamp" /\ rows' = Stamped(request[w].batch) /\ Replies(w, Idle) /\ UNCHANGED device

RequestActs(w) ==
    /\ UNCHANGED <<worker, lock>>
    /\ Asks(w) \/ RequestInserts(w) \/ RequestPushes(w) \/ RequestStamps(w)

\* Nothing goes wrong.
CalmActs ==
    /\ UNCHANGED <<clock, dead, muted, mishaps>>
    /\ \/ UNCHANGED <<worker, request, lock, rows, device>> /\ redis' \in {redis, TRUE}
       \/ UNCHANGED redis /\ \E w \in Workers : JobActs(w) \/ RequestActs(w)

Slows(w) ==
    /\ mishaps' = mishaps + 1 /\ Ticking(w)
    /\ UNCHANGED <<clock, request, lock, rows, device, dead, muted>>
    /\ \E new \in Worker :
         /\ Turns(w, new) /\ new.at = worker[w].at /\ new.batch = worker[w].batch
         /\ new.on = worker[w].on /\ new.todo = worker[w].todo /\ new.wake = worker[w].wake
         /\ new.slow = TRUE

\* What a mishap may leave of the job of v.
Upset(v, new) ==
    \/ /\ new.at = worker[v].at /\ new.batch = worker[v].batch /\ new.on = worker[v].on
       /\ new.todo = worker[v].todo /\ new.wake = worker[v].wake /\ new.slow = worker[v].slow
    \/ /\ new.at \in {"starting", "asleep"} /\ new.wake \in 0..(clock + 1)
       /\ new.batch = {} /\ new.todo = {} /\ new.slow = FALSE
    \/ /\ worker[v].at = "push" /\ new.at = "check" /\ new.batch = {}
       /\ new.todo = worker[v].todo /\ new.slow = worker[v].slow
    \/ /\ worker[v].at = "check" /\ worker[v].todo = {} /\ new.at = "commit" /\ new.todo = {}
       /\ new.batch \subseteq Written /\ new.slow = worker[v].slow

Disturbs ==
    /\ mishaps' = mishaps + 1 /\ UNCHANGED clock /\ lock' \in {lock, NoLock}
    /\ \A v \in Workers : Upset(v, worker'[v]) /\ request'[v] \in {request[v], Idle}
    /\ \A u \in Users :
         /\ Len(rows'[u]) = Len(rows[u])
         /\ \A i \in 1..Len(rows[u]) :
              rows'[u][i].at = rows[u][i].at /\ rows'[u][i].state \in {rows[u][i].state, "deleted"}

Acts ==
    /\ UNCHANGED <<kind, audience>>
    /\ HalfHour \/ CalmActs \/ Disturbs \/ \E w \in Workers : Slows(w)

LEMMA FreshFields ==
  /\ Fresh \in Worker /\ Fresh.at = "starting" /\ Fresh.wake = 0 /\ Fresh.batch = {} /\ Fresh.todo = {}
  /\ Fresh.slow = FALSE
  <1>1. Fresh.at = "starting" /\ Fresh.wake = 0 /\ Fresh.batch = {} /\ Fresh.todo = {} /\ Fresh.slow = FALSE
    BY DEF Fresh
  <1>2. QED
    BY <1>1, FreshIs

AsAsleep(wake, c) == [Fresh EXCEPT !.at = "asleep", !.wake = wake, !.client = c]

LEMMA AsleepFields ==
  ASSUME NEW wake \in Wakes, NEW c \in Clients, NEW new, new = AsAsleep(wake, c)
  PROVE  /\ new \in Worker /\ new.at = "asleep" /\ new.wake = wake /\ new.batch = {}
         /\ new.todo = {} /\ new.slow = FALSE
  <1>1. new \in Worker /\ new.at = "asleep"
    BY FreshIs DEF AsAsleep
  <1>2. Fresh \in Worker /\ Fresh.batch = {} /\ Fresh.todo = {} /\ Fresh.slow = FALSE
    BY FreshFields
  <1>3. new.wake = wake
    BY <1>2, WorkerIs DEF AsAsleep
  <1>4. new.batch = {} /\ new.todo = {}
    BY <1>2, WorkerIs DEF AsAsleep
  <1>5. new.slow = FALSE
    BY <1>2, WorkerIs DEF AsAsleep
  <1>6. QED
    BY <1>1, <1>3, <1>4, <1>5

LEMMA FreshSleeps ==
  ASSUME Typed, NEW w \in Workers, worker' = [worker EXCEPT ![w] = Fresh]
  PROVE  Sleeps(w)
  <1>1. clock \in Nat /\ 0 \in 0..(clock + 1)
    BY Bounds DEF Typed, FactTyped
  <1>2. Turns(w, Fresh)
    BY FreshIs, TurnsIs DEF Typed
  <1>3. QED
    BY <1>1, <1>2, FreshFields DEF Sleeps

LEMMA SleepIs ==
  ASSUME Typed, NEW w \in Workers, Sleep(w)
  PROVE  Sleeps(w)
  <1>1. JobTyped /\ Client(w) \in Clients /\ clock + 1 \in Wakes /\ clock \in Nat
    BY ClientIs, Bounds DEF Typed, FactTyped
  <1>2. CASE worker[w].stopping
    <2>1. worker' = [worker EXCEPT ![w] = Fresh]
      BY <1>2 DEF Sleep
    <2>2. QED
      BY <2>1, FreshSleeps
  <1>3. CASE ~worker[w].stopping
    <2>1. PICK wake \in Wakes, c \in Clients : wake = clock + 1 /\ c = Client(w)
      BY <1>1
    <2> DEFINE new == AsAsleep(wake, c)
    <2>2. worker' = [worker EXCEPT ![w] = new]
      BY <1>3, <2>1 DEF Sleep, AsAsleep
    <2>3. /\ new \in Worker /\ new.at = "asleep" /\ new.wake = wake /\ new.batch = {}
          /\ new.todo = {} /\ new.slow = FALSE
      BY <2>1, AsleepFields, Zenon
    <2> HIDE DEF new
    <2>4. Turns(w, new)
      BY <1>1, <2>2, <2>3, TurnsIs
    <2>5. new.wake \in 0..(clock + 1)
      BY <1>1, <2>1, <2>3
    <2>6. QED
      BY <2>3, <2>4, <2>5 DEF Sleeps
  <1>4. QED
    BY <1>2, <1>3

LEMMA OpensIs ==
  ASSUME Typed, NEW w \in Workers, Awake(w), NEW until \in Untils, StartTick(w, until),
         UNCHANGED <<rows, device>>,
         \/ UNCHANGED lock
         \/ FALSE \in Taken /\ until = clock + LockTtl /\ lock' = [by |-> w, until |-> until]
  PROVE  Opens(w)
  <1>1. JobTyped /\ worker[w] \in Worker /\ Client(w) \in Clients /\ audience \in SUBSET Users
    BY ClientIs DEF Typed, FactTyped
  <1>2. PICK todo \in SUBSET Users :
          /\ todo \in {{}, audience} /\ (Due = {TRUE} /\ kind \notin Requested => todo = audience)
          /\ worker' = [worker EXCEPT ![w].at = "check", ![w].client = Client(w), ![w].until = until,
                                      ![w].todo = todo]
    <2>1. PICK due \in Due :
            worker' = [worker EXCEPT ![w].at = "check", ![w].client = Client(w), ![w].until = until,
                                     ![w].todo = IF due /\ kind \notin Requested THEN audience ELSE {}]
      BY Zenon DEF StartTick
    <2> DEFINE todo == IF due /\ kind \notin Requested THEN audience ELSE {}
    <2>2. todo \in SUBSET Users /\ todo \in {{}, audience}
      BY <1>1
    <2>3. Due = {TRUE} /\ kind \notin Requested => todo = audience
      BY <2>1
    <2>4. QED
      BY <2>1, <2>2, <2>3, Zenon
  <1> DEFINE new == AsStarted(worker[w], Client(w), until, todo)
  <1>3. worker' = [worker EXCEPT ![w] = new]
    BY <1>1, <1>2, Zenon DEF JobTyped, AsStarted
  <1>4. /\ new \in Worker /\ new.at = "check" /\ new.until = until
        /\ new.todo = todo /\ new.batch = worker[w].batch /\ new.slow = worker[w].slow
    BY <1>1, StartedIs
  <1> HIDE DEF new
  <1>5. Turns(w, new)
    BY <1>1, <1>3, <1>4, TurnsIs
  <1>6. new.todo \in {{}, audience} /\ (Due = {TRUE} /\ kind \notin Requested => new.todo = audience)
    BY <1>2, <1>4
  <1>7. \/ UNCHANGED lock
        \/ FALSE \in Taken /\ new.until = clock + LockTtl /\ lock' = [by |-> w, until |-> new.until]
    BY <1>4
  <1>8. QED
    BY <1>4, <1>5, <1>6, <1>7 DEF Opens

LEMMA ChecksIs ==
  ASSUME Typed, NEW w \in Workers, NEW since, CheckRecipient(w, since)
  PROVE  Checks(w)
  <1>1. JobTyped /\ worker[w] \in Worker /\ worker[w].todo \in SUBSET Users
    BY ClientIs, TodoIs DEF Typed, FactTyped
  <1>2. PICK u \in worker[w].todo : \E told \in AlreadySent(u, since) :
          worker' = [worker EXCEPT ![w].todo = @ \ {u},
                                   ![w].at = IF told \/ u \in muted THEN "check" ELSE "insert",
                                   ![w].on = IF told \/ u \in muted THEN NoUser ELSE u]
    BY Zenon DEF CheckRecipient
  <1>3. PICK told \in AlreadySent(u, since) :
          worker' = [worker EXCEPT ![w].todo = @ \ {u},
                                   ![w].at = IF told \/ u \in muted THEN "check" ELSE "insert",
                                   ![w].on = IF told \/ u \in muted THEN NoUser ELSE u]
    BY <1>2
  <1> DEFINE at == IF told \/ u \in muted THEN "check" ELSE "insert"
             on == IF told \/ u \in muted THEN NoUser ELSE u
             todo == worker[w].todo \ {u}
             new == AsChecked(worker[w], todo, at, on)
  <1>4. /\ worker[w].at = "check" /\ UNCHANGED <<lock, notes>>
    BY Zenon DEF CheckRecipient
  <1>5. at \in Places /\ on \in Someone /\ todo \in SUBSET Users /\ at \in {"check", "insert"}
    BY <1>1, Named DEF Someone
  <1>6. at = "insert" => on = u
    OBVIOUS
  <1>7. u \notin muted /\ rows[u] = <<>> => at = "insert"
    <2> SUFFICES ASSUME u \notin muted, rows[u] = <<>> PROVE ~told
      OBVIOUS
    <2>1. Kept(u) = {}
      BY DEF Kept
    <2>2. AlreadySent(u, since) = {FALSE}
      BY <2>1 DEF AlreadySent
    <2>3. QED
      BY <1>3, <2>2
  <1>8. worker' = [worker EXCEPT ![w] = new]
    BY <1>1, <1>3, Zenon DEF JobTyped, AsChecked
  <1> HIDE DEF at, on
  <1>9. /\ new \in Worker /\ new.at = at /\ new.until = worker[w].until /\ new.on = on
        /\ new.todo = todo /\ new.batch = worker[w].batch /\ new.slow = worker[w].slow
    BY <1>1, <1>5, CheckedIs
  <1> HIDE DEF new
  <1>10. Turns(w, new)
    BY <1>1, <1>8, <1>9, TurnsIs
  <1>11. UNCHANGED <<lock, rows, device>>
    BY <1>4 DEF notes
  <1>12. QED
    BY <1>4, <1>5, <1>6, <1>7, <1>9, <1>10, <1>11 DEF Checks

LEMMA MishapCounts ==
  ASSUME Typed
  PROVE  mishaps \in Nat /\ (Mishap => mishaps' = mishaps + 1 /\ mishaps' # mishaps)
  <1>1. mishaps \in Nat
    <2>1. Mishaps[kind] \in Nat
      BY NotificationConstantsOK DEF Typed, FactTyped
    <2>2. QED
      BY <2>1 DEF Typed, CountTyped
  <1>2. QED
    BY <1>1 DEF Mishap

LEMMA LoopStopsIs ==
  ASSUME Typed, NEW w \in Workers, LoopEnds(w)
  PROVE  LoopStops(w)
  <1>1. JobTyped /\ worker[w] \in Worker
    BY ClientIs DEF Typed, FactTyped
  <1> DEFINE new == [[worker[w] EXCEPT !.at = "ended"] EXCEPT !.client = "redis"]
  <1>2. worker' = [worker EXCEPT ![w] = new]
    BY <1>1, Zenon DEF JobTyped, LoopEnds
  <1>3. /\ new \in Worker /\ new.at = "ended" /\ new.todo = worker[w].todo
        /\ new.batch = worker[w].batch /\ new.slow = worker[w].slow
    BY <1>1, EndedIs
  <1> HIDE DEF new
  <1>4. Turns(w, new)
    BY <1>1, <1>2, <1>3, TurnsIs
  <1>5. Awake(w) /\ ~redis /\ UNCHANGED <<lock, rows, device>>
    BY Zenon DEF LoopEnds, notes
  <1>6. QED
    BY <1>3, <1>4, <1>5 DEF LoopStops

LEMMA SlowsIs ==
  ASSUME Typed, NEW w \in Workers, SlowTick(w)
  PROVE  Slows(w)
  <1>1. JobTyped /\ worker[w] \in Worker
    BY ClientIs DEF Typed, FactTyped
  <1> DEFINE new == [worker[w] EXCEPT !.slow = TRUE]
  <1>2. worker' = [worker EXCEPT ![w] = new]
    BY <1>1, Zenon DEF JobTyped, SlowTick
  <1>3. /\ new \in Worker /\ new.at = worker[w].at /\ new.on = worker[w].on
        /\ new.todo = worker[w].todo /\ new.batch = worker[w].batch /\ new.slow = TRUE
        /\ new.wake = worker[w].wake
    BY <1>1, SlowedIs
  <1> HIDE DEF new
  <1>4. Turns(w, new)
    BY <1>1, <1>2, <1>3, TurnsIs
  <1>5. /\ mishaps' = mishaps + 1 /\ Ticking(w)
        /\ UNCHANGED <<clock, request, lock, rows, device, dead, muted>>
    BY Zenon DEF SlowTick, Mishap, notes
  <1>6. QED
    BY <1>3, <1>4, <1>5 DEF Slows

\* What dropping tokens leaves.
LEMMA DropsFewer ==
  ASSUME Typed, NEW us \in SUBSET Users, device' = Dropped(us)
  PROVE  Fewer /\ \A u \in us : DevicesOf(u) \subseteq dead => DevicesOf(u)' = {}
  <1>1. device \in [Devices -> Someone] /\ NoUser \notin Users
    BY NotificationConstantsOK DEF Typed, PhoneTyped
  <1>2. \A d \in Devices : device'[d] = IF d \in dead /\ device[d] \in us THEN NoUser ELSE device[d]
    BY DEF Dropped
  <1>3. \A u \in Users : DevicesOf(u)' \subseteq DevicesOf(u)
    BY <1>1, <1>2 DEF DevicesOf
  <1>4. dead = {} => device' = device
    <2> SUFFICES ASSUME dead = {} PROVE device' = device
      OBVIOUS
    <2>1. device' = [d \in Devices |-> device'[d]] /\ \A d \in Devices : device'[d] = device[d]
      BY <1>2 DEF Dropped
    <2>2. QED
      BY <1>1, <2>1
  <1>5. \A u \in us : DevicesOf(u) \subseteq dead => DevicesOf(u)' = {}
    BY <1>1, <1>2 DEF DevicesOf
  <1>6. QED
    BY <1>3, <1>4, <1>5 DEF Fewer

LEMMA SameFewer ==
  ASSUME device' = device
  PROVE  Fewer
  BY DEF Fewer, DevicesOf

LEMMA PushesIs ==
  ASSUME Typed, NEW w \in Workers, Push(w), mishaps' = mishaps
  PROVE  Pushes(w)
  <1>1. PICK u \in Users : u = worker[w].on /\ worker[w].at = "push" /\ UNCHANGED <<lock, rows>>
    BY PushSays
  <1>2. ~Mishap
    BY MishapCounts
  <1>3. CASE DevicesOf(u) = {} /\ MovesOn(w) /\ device' = device
    <2>1. DevicesOf(u)' = {}
      BY <1>3 DEF DevicesOf
    <2>2. QED
      BY <1>1, <1>3, <2>1, SameFewer DEF Pushes
  <1>4. CASE device' = Dropped({u}) /\ Carries(w, "stamp", worker[w].batch)
    <2>1. Fewer
      BY <1>1, <1>4, DropsFewer
    <2>2. QED
      BY <1>1, <1>4, <2>1 DEF Pushes
  <1>5. CASE device' = Dropped({u}) /\ ~Accepted(u) /\ MovesOn(w)
    <2>1. DevicesOf(u) \subseteq dead
      BY <1>5 DEF Accepted
    <2>2. Fewer /\ DevicesOf(u)' = {}
      BY <1>1, <1>5, <2>1, DropsFewer
    <2>3. QED
      BY <1>1, <1>5, <2>2 DEF Pushes
  <1>6. \/ DevicesOf(u) = {} /\ MovesOn(w) /\ device' = device
        \/ device' = Dropped({u}) /\ Carries(w, "stamp", worker[w].batch)
        \/ device' = Dropped({u}) /\ ~Accepted(u) /\ MovesOn(w)
        \/ Mishap
    BY <1>1, PushSays, Zenon
  <1>7. QED
    BY <1>2, <1>3, <1>4, <1>5, <1>6

\* What the retries of a tick do.
LEMMA RetrySays ==
  ASSUME Typed, NEW w \in Workers, RetryUnsent(w)
  PROVE  /\ worker[w].at = "check" /\ worker[w].todo = {}
         /\ UNCHANGED <<clock, request, lock, rows, dead, muted>>
         /\ \/ Retries(w) /\ mishaps' = mishaps
            \/ /\ Mishap /\ device' = device
               /\ \E batch \in SUBSET Written : Carries(w, "commit", batch)
  <1>1. \A u \in Users : DOMAIN rows[u] = 1..Len(rows[u]) /\ DOMAIN rows[u] \subseteq Nat
    BY DEF Typed, RowsTyped
  <1>2. Written \subseteq RowId
    BY <1>1 DEF Written, RowId
  <1>3. /\ worker[w].at = "check" /\ worker[w].todo = {}
        /\ UNCHANGED <<clock, request, lock, rows, dead, muted>>
    BY Zenon DEF RetryUnsent
  <1>4. PICK picked \in SUBSET {r \in Written : TRUE \in Pending(r[1], r[2])} :
          /\ \A u \in Users : \A i \in DOMAIN rows[u] : Pending(u, i) = {TRUE} => <<u, i>> \in picked
          /\ LET reached == {r \in picked : DevicesOf(r[1]) # {} /\ Accepted(r[1])} IN
             \/ /\ worker' = [worker EXCEPT ![w].at = "commit", ![w].batch = reached]
                /\ device' = Dropped({r[1] : r \in picked}) /\ UNCHANGED mishaps
             \/ /\ reached # {} /\ Mishap
                /\ \E refused \in SUBSET reached \ {{}} :
                      worker' = [worker EXCEPT ![w].at = "commit", ![w].batch = reached \ refused]
                /\ UNCHANGED device
    BY Zenon DEF RetryUnsent
  <1> DEFINE reached == {r \in picked : DevicesOf(r[1]) # {} /\ Accepted(r[1])}
             us == {r[1] : r \in picked}
  <1>5. reached \in SUBSET Written
    OBVIOUS
  <1>6. \A batch \in SUBSET Written : batch \in Batches
    BY <1>2 DEF Batches
  <1>7. CASE /\ worker' = [worker EXCEPT ![w].at = "commit", ![w].batch = reached]
             /\ device' = Dropped(us) /\ UNCHANGED mishaps
    <2>1. Carries(w, "commit", reached)
      BY <1>5, <1>6, <1>7, CarriesIs, Named
    <2>2. us \in SUBSET Users
      <3>1. \A r \in Written : r[1] \in Users
        BY DEF Written
      <3>2. QED
        BY <3>1
    <2>3. Fewer /\ \A u \in us : DevicesOf(u) \subseteq dead => DevicesOf(u)' = {}
      BY <1>7, <2>2, DropsFewer
    <2>4. \A r \in reached : rows[r[1]][r[2]].state = "unsent"
      BY DEF Pending
    <2>5. ASSUME NEW u \in Users, NEW i \in 1..Len(rows[u]),
                 rows[u][i].state = "unsent", clock < rows[u][i].at + RetryWindow
          PROVE  <<u, i>> \in reached \/ DevicesOf(u)' = {}
      <3>1. Pending(u, i) = {TRUE}
        BY <2>5 DEF Pending, Before
      <3>2. <<u, i>> \in picked
        BY <1>1, <1>4, <3>1
      <3>3. u \in us
        BY <3>2
      <3>4. <<u, i>> \notin reached => DevicesOf(u) = {} \/ DevicesOf(u) \subseteq dead
        BY <3>2 DEF Accepted
      <3>5. QED
        BY <2>3, <3>3, <3>4
    <2> HIDE DEF reached
    <2>6. Retries(w)
      BY <1>3, <1>5, <2>1, <2>3, <2>4, <2>5 DEF Retries
    <2>7. QED
      BY <1>3, <1>7, <2>6
  <1>8. CASE /\ Mishap /\ UNCHANGED device
             /\ \E refused \in SUBSET reached \ {{}} :
                  worker' = [worker EXCEPT ![w].at = "commit", ![w].batch = reached \ refused]
    <2>1. PICK refused : worker' = [worker EXCEPT ![w].at = "commit", ![w].batch = reached \ refused]
      BY <1>8
    <2>2. reached \ refused \in SUBSET Written
      BY <1>5
    <2>3. Carries(w, "commit", reached \ refused)
      BY <1>6, <2>1, <2>2, CarriesIs, Named
    <2>4. QED
      BY <1>3, <1>8, <2>2, <2>3
  <1>9. QED
    BY <1>4, <1>7, <1>8, Zenon

LEMMA RowsAppended ==
  ASSUME Typed, NEW w \in Workers, NEW u \in Users,
         rows' = [rows EXCEPT ![u] = Append(@, [at |-> clock, state |-> "unsent"])]
  PROVE  Inserted({u})
  <1> DEFINE row == [at |-> clock, state |-> "unsent"]
  <1>1. rows \in [Users -> Seq(Row)]
    BY DEF Typed, RowsTyped
  <1> HIDE DEF row
  <1>2. rows' = [rows EXCEPT ![u] = Append(rows[u], row)]
    BY <1>1, Zenon DEF row
  <1>3. rows' = [v \in Users |-> IF v \in {u} THEN Append(rows[v], row) ELSE rows[v]]
    BY <1>1, <1>2
  <1>4. QED
    BY <1>3 DEF Inserted, row

LEMMA InsertsIs ==
  ASSUME Typed, NEW w \in Workers, InsertRow(w)
  PROVE  Inserts(w)
  <1>1. worker[w].at = "insert" /\ UNCHANGED <<lock, device>>
        /\ rows' = [rows EXCEPT ![worker[w].on] = Append(@, [at |-> clock, state |-> "unsent"])]
    BY Zenon DEF InsertRow
  <1>2. QED
    BY <1>1, InsertCarries, RowsAppended DEF Inserts

LEMMA StampsIs ==
  ASSUME Typed, NEW w \in Workers, Stamp(w)
  PROVE  /\ Stamps(w) \/ Finishes(w)
         /\ UNCHANGED <<kind, audience, request, clock, redis, dead, muted, mishaps>>
  <1>1. CASE Gone(worker[w].batch)
    <2>1. /\ worker[w].at = "stamp" /\ lock' = Released(w) /\ Sleep(w) /\ UNCHANGED mishaps
          /\ UNCHANGED <<kind, audience, request, clock, redis, notes>>
      BY <1>1, Zenon DEF Stamp, TickFails
    <2>2. rows' = Stamped(worker[w].batch) /\ UNCHANGED <<device, dead, muted>>
      BY <1>1, <2>1 DEF Stamped, notes
    <2>3. QED
      BY <1>1, <2>1, <2>2, SleepIs DEF Finishes
  <1>2. CASE ~Gone(worker[w].batch)
    <2>1. /\ worker[w].at = "stamp" /\ rows' = Stamped(worker[w].batch) /\ NextRecipient(w)
          /\ UNCHANGED <<kind, audience, request, clock, lock, redis, device, dead, muted, mishaps>>
      BY <1>2, Zenon DEF Stamp
    <2>2. QED
      BY <1>2, <2>1, MovesOnIs DEF Stamps
  <1>3. QED
    BY <1>1, <1>2

LEMMA CommitIs ==
  ASSUME Typed, NEW w \in Workers, CommitRetries(w)
  PROVE  /\ Finishes(w)
         /\ UNCHANGED <<kind, audience, request, clock, redis, dead, muted, mishaps>>
  <1>1. /\ worker[w].at = "commit" /\ rows' = Stamped(worker[w].batch) /\ lock' = Released(w) /\ Sleep(w)
        /\ UNCHANGED <<kind, audience, request, clock, redis, device, dead, muted, mishaps>>
    BY Zenon DEF CommitRetries
  <1>2. QED
    BY <1>1, SleepIs DEF Finishes

LEMMA JobCalm ==
  ASSUME NEW w \in Workers, JobActs(w), UNCHANGED <<kind, audience, clock, redis, dead, muted, mishaps>>
  PROVE  Acts
  BY DEF Acts, CalmActs

LEMMA RequestCalm ==
  ASSUME NEW w \in Workers, RequestActs(w), UNCHANGED <<kind, audience, clock, redis, dead, muted, mishaps>>
  PROVE  Acts
  BY DEF Acts, CalmActs

\* The rows as they were, or with some of them deleted.
SameButDeleted ==
    \A u \in Users :
         /\ Len(rows'[u]) = Len(rows[u])
         /\ \A i \in 1..Len(rows[u]) :
              rows'[u][i].at = rows[u][i].at /\ rows'[u][i].state \in {rows[u][i].state, "deleted"}

LEMMA OneDisturbed ==
  ASSUME Typed, Mishap, UNCHANGED <<kind, audience, clock>>, lock' \in {lock, NoLock}, SameButDeleted,
         \A v \in Workers : request'[v] \in {request[v], Idle},
         NEW w \in Workers, NEW new, Turns(w, new), Upset(w, new)
  PROVE  Acts
  <1>1. \A v \in Workers : Upset(v, worker'[v])
    <2>1. \A v \in Workers : Upset(v, worker[v])
      BY DEF Upset
    <2>2. QED
      BY <2>1 DEF Turns
  <1>2. mishaps' = mishaps + 1
    BY DEF Mishap
  <1>3. Disturbs
    BY <1>1, <1>2 DEF Disturbs, SameButDeleted
  <1>4. QED
    BY <1>3 DEF Acts

LEMMA NoneDisturbed ==
  ASSUME Typed, Mishap, UNCHANGED <<kind, audience, clock, worker>>, lock' \in {lock, NoLock},
         SameButDeleted, \A v \in Workers : request'[v] \in {request[v], Idle}
  PROVE  Acts
  <1>1. \A v \in Workers : Upset(v, worker'[v])
    BY DEF Upset
  <1>2. mishaps' = mishaps + 1
    BY DEF Mishap
  <1>3. Disturbs
    BY <1>1, <1>2 DEF Disturbs, SameButDeleted
  <1>4. QED
    BY <1>3 DEF Acts

LEMMA SameRowsKept ==
  ASSUME rows' = rows
  PROVE  SameButDeleted
  BY DEF SameButDeleted

LEMMA ReleasesOrNot ==
  ASSUME NEW w \in Workers
  PROVE  Released(w) \in {lock, NoLock}
  BY DEF Released

LEMMA SleepsUpset ==
  ASSUME NEW w \in Workers, Sleeps(w)
  PROVE  \E new : Turns(w, new) /\ Upset(w, new)
  BY DEF Sleeps, Upset

LEMMA JobSteps ==
  ASSUME Typed, NEW w \in Workers, TickStep(w)
  PROVE  Acts
  <1>1. clock + LockTtl \in Untils /\ 0 \in Untils
    BY Bounds DEF Typed, FactTyped, Untils
  <1>2. ASSUME AcquireLock(w) PROVE Acts
    <2>1. /\ Awake(w) /\ FALSE \in Taken /\ StartTick(w, clock + LockTtl)
          /\ lock' = [by |-> w, until |-> clock + LockTtl]
          /\ UNCHANGED <<kind, audience, request, clock, redis, notes, mishaps>>
      BY <1>2, Zenon DEF AcquireLock
    <2>2. UNCHANGED <<rows, device, dead, muted>>
      BY <2>1 DEF notes
    <2>3. Opens(w)
      BY <1>1, <2>1, <2>2, OpensIs
    <2>4. QED
      BY <2>1, <2>2, <2>3, JobCalm DEF JobActs
  <1>3. ASSUME SkipTick(w) PROVE Acts
    <2>1. /\ Awake(w) /\ TRUE \in Taken /\ Sleep(w)
          /\ UNCHANGED <<kind, audience, request, clock, lock, redis, notes, mishaps>>
      BY <1>3, Zenon DEF SkipTick
    <2>2. UNCHANGED <<rows, device, dead, muted>>
      BY <2>1 DEF notes
    <2>3. Skips(w)
      BY <2>1, <2>2, SleepIs DEF Skips
    <2>4. QED
      BY <2>1, <2>2, <2>3, JobCalm DEF JobActs
  <1>4. ASSUME TickUnlocked(w) PROVE Acts
    <2>1. /\ Awake(w) /\ StartTick(w, 0)
          /\ UNCHANGED <<kind, audience, request, clock, lock, redis, notes, mishaps>>
      BY <1>4, Zenon DEF TickUnlocked
    <2>2. UNCHANGED <<rows, device, dead, muted>>
      BY <2>1 DEF notes
    <2>3. Opens(w)
      BY <1>1, <2>1, <2>2, OpensIs
    <2>4. QED
      BY <2>1, <2>2, <2>3, JobCalm DEF JobActs
  <1>5. ASSUME LoopEnds(w) PROVE Acts
    <2>1. UNCHANGED <<kind, audience, request, clock, redis, notes, mishaps>>
      BY <1>5, Zenon DEF LoopEnds
    <2>2. UNCHANGED <<rows, device, dead, muted>>
      BY <2>1 DEF notes
    <2>3. QED
      BY <1>5, <2>1, <2>2, LoopStopsIs, JobCalm DEF JobActs
  <1>6. ASSUME \/ CheckDepartureReminders(w) \/ CheckFlightAlerts(w) \/ CheckMorningSummary(w)
               \/ CheckActivityReminders(w)
        PROVE  Acts
    <2>1. PICK since : CheckRecipient(w, since)
      BY <1>6, Zenon DEF CheckDepartureReminders, CheckFlightAlerts, CheckMorningSummary,
                         CheckActivityReminders
    <2>2. UNCHANGED <<kind, audience, request, clock, redis, notes, mishaps>>
      BY <2>1, Zenon DEF CheckRecipient
    <2>3. UNCHANGED <<rows, device, dead, muted>>
      BY <2>2 DEF notes
    <2>4. Checks(w)
      BY <2>1, ChecksIs
    <2>5. QED
      BY <2>2, <2>3, <2>4, JobCalm DEF JobActs
  <1>7. ASSUME InsertRow(w) PROVE Acts
    <2>1. UNCHANGED <<kind, audience, request, clock, redis, dead, muted, mishaps>>
      BY <1>7, Zenon DEF InsertRow
    <2>2. QED
      BY <1>7, <2>1, InsertsIs, JobCalm DEF JobActs
  <1>8. ASSUME Push(w) PROVE Acts
    <2>1. UNCHANGED <<kind, audience, request, clock, lock, redis, rows, dead, muted>> /\ worker[w].at = "push"
      BY <1>8, PushSays
    <2>2. CASE mishaps' = mishaps
      BY <1>8, <2>1, <2>2, PushesIs, JobCalm DEF JobActs
    <2>3. CASE Mishap /\ MovesOn(w)
      <3>1. \E new : Turns(w, new) /\ Upset(w, new)
        BY <2>1, <2>3 DEF MovesOn, Upset
      <3>2. QED
        BY <2>1, <2>3, <3>1, OneDisturbed, SameRowsKept
    <2>4. QED
      BY <1>8, <2>2, <2>3, PushSays
  <1>9. ASSUME Stamp(w) PROVE Acts
    BY <1>9, StampsIs, JobCalm DEF JobActs
  <1>10. ASSUME RetryUnsent(w) PROVE Acts
    <2>1. UNCHANGED <<kind, audience, redis>>
      BY <1>10, Zenon DEF RetryUnsent
    <2>2. CASE Retries(w) /\ mishaps' = mishaps
      BY <1>10, <2>1, <2>2, RetrySays, JobCalm DEF JobActs
    <2>3. CASE Mishap /\ \E batch \in SUBSET Written : Carries(w, "commit", batch)
      <3>1. worker[w].at = "check" /\ worker[w].todo = {}
        BY <1>10, RetrySays
      <3>2. \E new : Turns(w, new) /\ Upset(w, new)
        BY <2>3, <3>1 DEF Carries, Upset
      <3>3. QED
        BY <1>10, <2>1, <2>3, <3>2, RetrySays, OneDisturbed, SameRowsKept
    <2>4. QED
      BY <1>10, <2>2, <2>3, RetrySays
  <1>11. ASSUME CommitRetries(w) PROVE Acts
    BY <1>11, CommitIs, JobCalm DEF JobActs
  <1>12. QED
    BY <1>2, <1>3, <1>4, <1>5, <1>6, <1>7, <1>8, <1>9, <1>10, <1>11 DEF TickStep

LEMMA RequestSteps ==
  ASSUME Typed, audience # {}, NEW w \in Workers, RequestStep(w)
  PROVE  Acts
  <1>1. audience \in SUBSET Users
    BY DEF Typed, FactTyped
  <1>2. ASSUME CheckBudgetAlert(w) PROVE Acts
    <2>1. PICK u \in audience :
            /\ request[w] = Idle
            /\ request' = [request EXCEPT ![w] = [at |-> "insert", batch |-> NextRows({u})]]
      BY <1>2, Zenon DEF CheckBudgetAlert, MayTell
    <2>2. UNCHANGED <<kind, audience, clock, worker, lock, redis, notes, mishaps>>
      BY <1>2, Zenon DEF CheckBudgetAlert
    <2>3. UNCHANGED <<rows, device, dead, muted>>
      BY <2>2 DEF notes
    <2> DEFINE new == [at |-> "insert", batch |-> NextRows({u})]
    <2>4. new \in Errand /\ new.at = "insert"
      BY <1>1, ErrandIs, Named
    <2> HIDE DEF new
    <2>5. Replies(w, new)
      BY <2>1, <2>4, RepliesIs DEF new, Typed
    <2>6. Asks(w)
      BY <2>1, <2>3, <2>4, <2>5 DEF Asks
    <2>7. QED
      BY <2>2, <2>3, <2>6, RequestCalm DEF RequestActs
  <1>3. ASSUME InsertAlert(w) \/ SendNotification(w) PROVE Acts
    <2>1. /\ request[w].at \in {"idle", "insert"} /\ Inserted(audience)
          /\ request' = [request EXCEPT ![w] = [at |-> "push", batch |-> NextRows(audience)]]
          /\ UNCHANGED <<kind, audience, clock, worker, lock, redis, device, dead, muted, mishaps>>
      <3>1. CASE InsertAlert(w)
        BY <3>1, Zenon DEF InsertAlert
      <3>2. CASE SendNotification(w)
        <4>1. /\ \A u \in audience : MayTell(w, u)
              /\ Inserted(audience)
              /\ request' = [request EXCEPT ![w] = [at |-> "push", batch |-> NextRows(audience)]]
              /\ UNCHANGED <<kind, audience, clock, worker, lock, redis, device, dead, muted, mishaps>>
              /\ kind = "message"
          BY <3>2, Zenon DEF SendNotification
        <4>2. request[w] = Idle
          BY <4>1 DEF MayTell
        <4>3. QED
          BY <4>1, <4>2, IdleIs
      <3>3. QED
        BY <1>3, <3>1, <3>2
    <2> DEFINE new == [at |-> "push", batch |-> NextRows(audience)]
    <2>2. new \in Errand /\ new.at = "push" /\ new.batch = NextRows(audience)
      BY <1>1, ErrandIs, Named
    <2> HIDE DEF new
    <2>3. Replies(w, new)
      BY <2>1, <2>2, RepliesIs DEF new, Typed
    <2>4. RequestInserts(w)
      BY <2>1, <2>2, <2>3 DEF RequestInserts
    <2>5. QED
      BY <2>1, <2>4, RequestCalm DEF RequestActs
  <1>4. ASSUME PushRequest(w) PROVE Acts
    <2> DEFINE devices == UNION {DevicesOf(u) : u \in ToldBy(w)}
               accepted == Cardinality(devices) > 1 \/ devices \ dead # {}
    <2>1. /\ request[w].at = "push"
          /\ \/ /\ request' = [request EXCEPT ![w] = IF accepted THEN [@ EXCEPT !.at = "stamp"] ELSE Idle]
                /\ device' = Dropped(ToldBy(w)) /\ UNCHANGED mishaps
             \/ /\ devices # {} /\ Mishap
                /\ request' = [request EXCEPT ![w] = Idle] /\ UNCHANGED device
          /\ UNCHANGED <<kind, audience, clock, worker, lock, redis, rows, dead, muted>>
      BY <1>4, Zenon DEF PushRequest
    <2>2. request[w] \in Errand /\ Idle \in Errand
      BY IdleIs DEF Typed, RequestTyped
    <2>3. CASE Mishap /\ request' = [request EXCEPT ![w] = Idle] /\ UNCHANGED device
      <3>1. \A v \in Workers : request'[v] \in {request[v], Idle}
        BY <2>2, <2>3, RepliesIs DEF Replies, Typed
      <3>2. QED
        BY <2>1, <2>3, <3>1, NoneDisturbed, SameRowsKept
    <2>4. CASE /\ request' = [request EXCEPT ![w] = IF accepted THEN [@ EXCEPT !.at = "stamp"] ELSE Idle]
               /\ device' = Dropped(ToldBy(w)) /\ UNCHANGED mishaps
      <3>1. ToldBy(w) \in SUBSET Users
        BY <2>2 DEF ToldBy, Errand, Batches, RowId
      <3>2. Fewer /\ \A u \in ToldBy(w) : DevicesOf(u) \subseteq dead => DevicesOf(u)' = {}
        BY <2>4, <3>1, DropsFewer
      <3>3. CASE accepted
        <4> DEFINE new == [request[w] EXCEPT !.at = "stamp"]
        <4>1. new \in Errand /\ new.at = "stamp" /\ new.batch = request[w].batch
          BY <2>2, Named DEF Errand
        <4>2. request' = [request EXCEPT ![w] = new]
          BY <2>4, <3>3, Zenon DEF Typed, RequestTyped
        <4> HIDE DEF new
        <4>3. Replies(w, new)
          BY <4>1, <4>2, RepliesIs DEF Typed
        <4>4. RequestPushes(w)
          BY <2>1, <3>2, <4>1, <4>3 DEF RequestPushes
        <4>5. QED
          BY <2>1, <2>4, <4>4, RequestCalm DEF RequestActs
      <3>4. CASE ~accepted
        <4>1. request' = [request EXCEPT ![w] = Idle]
          BY <2>4, <3>4, Zenon
        <4>2. Replies(w, Idle)
          BY <2>2, <4>1, RepliesIs DEF Typed
        <4>3. \A u \in ToldBy(w) : DevicesOf(u) \subseteq dead
          <5>1. devices \subseteq dead
            BY <3>4
          <5>2. \A u \in ToldBy(w) : DevicesOf(u) \subseteq devices
            OBVIOUS
          <5>3. QED
            BY <5>1, <5>2
        <4>4. \A u \in Users : \A i : <<u, i>> \in request[w].batch => u \in ToldBy(w)
          <5>1. \A u, i : <<u, i>>[1] = u
            OBVIOUS
          <5>2. QED
            BY <5>1 DEF ToldBy
        <4>5. \A u \in Users : \A i : <<u, i>> \in request[w].batch => DevicesOf(u)' = {}
          BY <3>2, <4>3, <4>4
        <4>6. RequestPushes(w)
          BY <2>1, <3>2, <4>2, <4>5 DEF RequestPushes
        <4>7. QED
          BY <2>1, <2>4, <4>6, RequestCalm DEF RequestActs
      <3>5. QED
        BY <3>3, <3>4
    <2>5. QED
      BY <2>1, <2>3, <2>4
  <1>5. ASSUME StampRequest(w) PROVE Acts
    <2>1. /\ request[w].at = "stamp" /\ rows' = Stamped(request[w].batch)
          /\ request' = [request EXCEPT ![w] = Idle]
          /\ UNCHANGED <<kind, audience, clock, worker, lock, redis, device, dead, muted, mishaps>>
      BY <1>5, Zenon DEF StampRequest
    <2>2. RequestStamps(w)
      BY <2>1, IdleIs, RepliesIs DEF RequestStamps, Typed
    <2>3. QED
      BY <2>1, <2>2, RequestCalm DEF RequestActs
  <1>6. QED
    BY <1>2, <1>3, <1>4, <1>5 DEF RequestStep

LEMMA UserDisturbs ==
  ASSUME Typed, UserStep
  PROVE  Acts
  <1>1. Mishap /\ UNCHANGED <<kind, audience, clock, worker, request, lock>>
    BY Zenon DEF UserStep, UpdatePreferences, DeleteNotification, UnregisterToken, Uninstall, RegisterToken
  <1>2. SameButDeleted
    <2>1. ASSUME NEW u \in audience, NEW i \in DOMAIN rows[u], DeleteNotification(u, i)
          PROVE  SameButDeleted
      <3>1. rows' = [rows EXCEPT ![u][i].state = "deleted"]
        BY <2>1, Zenon DEF DeleteNotification
      <3>2. u \in Users /\ rows \in [Users -> Seq(Row)]
        BY DEF Typed, FactTyped, RowsTyped
      <3>3. rows[u] \in Seq(Row) /\ i \in 1..Len(rows[u]) /\ rows[u][i] \in Row
        BY <3>2
      <3> DEFINE row == [rows[u][i] EXCEPT !.state = "deleted"]
      <3>4. row.at = rows[u][i].at /\ row.state = "deleted"
        BY <3>3, StateIs, Named
      <3>5. rows' = [rows EXCEPT ![u] = [rows[u] EXCEPT ![i] = row]]
        BY <3>1, <3>2, Zenon
      <3> HIDE DEF row
      <3>6. /\ \A v \in Users \ {u} : rows'[v] = rows[v]
            /\ Len(rows'[u]) = Len(rows[u]) /\ \A j \in 1..Len(rows[u]) : rows'[u][j] = IF j = i THEN row ELSE rows[u][j]
        BY <3>2, <3>3, <3>5
      <3>7. QED
        BY <3>4, <3>6 DEF SameButDeleted
    <2>2. \/ UNCHANGED rows
          \/ \E u \in audience : \E i \in DOMAIN rows[u] : DeleteNotification(u, i)
      BY Zenon DEF UserStep, UpdatePreferences, UnregisterToken, Uninstall, RegisterToken
    <2>3. QED
      BY <2>1, <2>2, SameRowsKept
  <1>3. QED
    BY <1>1, <1>2, NoneDisturbed

LEMMA EveryAct ==
  ASSUME Typed, audience # {}, [Next]_vars
  PROVE  Acts
  <1>1. ASSUME HalfHour PROVE Acts
    <2>1. UNCHANGED <<kind, audience>>
      BY <1>1, Zenon DEF HalfHour
    <2>2. QED
      BY <1>1, <2>1 DEF Acts
  <1>2. ASSUME RedisRecovers \/ UNCHANGED vars PROVE Acts
    <2>1. /\ UNCHANGED <<kind, audience, request, clock, worker, lock, notes, mishaps>>
          /\ redis' \in {redis, TRUE}
      BY <1>2 DEF RedisRecovers, vars
    <2>2. UNCHANGED <<rows, device, dead, muted>>
      BY <2>1 DEF notes
    <2>3. QED
      BY <2>1, <2>2 DEF Acts, CalmActs
  <1>3. ASSUME RedisFails PROVE Acts
    <2>1. Mishap /\ UNCHANGED <<kind, audience, request, clock, worker, lock, notes>>
      BY <1>3, Zenon DEF RedisFails
    <2>2. rows' = rows
      BY <2>1 DEF notes
    <2>3. QED
      BY <2>1, <2>2, NoneDisturbed, SameRowsKept
  <1>4. ASSUME NEW w \in Workers, QueryFails(w) PROVE Acts
    <2>1. /\ Mishap /\ lock' = Released(w) /\ Sleep(w)
          /\ UNCHANGED <<kind, audience, request, clock, notes>>
      BY <1>4, Zenon DEF QueryFails, TickFails
    <2>2. rows' = rows /\ \E new : Turns(w, new) /\ Upset(w, new)
      BY <2>1, SleepIs, SleepsUpset DEF notes
    <2>3. QED
      BY <2>1, <2>2, OneDisturbed, SameRowsKept, ReleasesOrNot
  <1>5. ASSUME NEW w \in Workers, Crash(w) PROVE Acts
    <2>1. /\ Mishap /\ worker' = [worker EXCEPT ![w] = Fresh] /\ request' = [request EXCEPT ![w] = Idle]
          /\ UNCHANGED <<kind, audience, clock, lock, notes>>
      BY <1>5, Zenon DEF Crash
    <2>2. rows' = rows /\ \E new : Turns(w, new) /\ Upset(w, new)
      BY <2>1, FreshSleeps, SleepsUpset DEF notes
    <2>3. \A v \in Workers : request'[v] \in {request[v], Idle}
      BY <2>1, IdleIs, RepliesIs DEF Replies, Typed
    <2>4. QED
      BY <2>1, <2>2, <2>3, OneDisturbed, SameRowsKept
  <1>6. ASSUME NEW w \in Workers, Shutdown(w) PROVE Acts
    <2>1. /\ Mishap /\ lock' = Released(w)
          /\ worker' = [worker EXCEPT ![w] =
                 IF Ticking(w) THEN [@ EXCEPT !.stopping = TRUE, !.until = 0] ELSE Fresh]
          /\ UNCHANGED <<kind, audience, request, clock, notes>>
      BY <1>6, Zenon DEF Shutdown
    <2>2. \E new : Turns(w, new) /\ Upset(w, new)
      <3>1. CASE ~Ticking(w)
        BY <2>1, <3>1, FreshSleeps, SleepsUpset
      <3>2. CASE Ticking(w)
        <4>1. JobTyped /\ worker[w] \in Worker
          BY ClientIs DEF Typed
        <4> DEFINE new == AsStopped(worker[w])
        <4>2. worker' = [worker EXCEPT ![w] = new]
          BY <2>1, <3>2, <4>1, Zenon DEF JobTyped, AsStopped
        <4>3. /\ new \in Worker /\ new.at = worker[w].at /\ new.on = worker[w].on
              /\ new.todo = worker[w].todo /\ new.batch = worker[w].batch
              /\ new.slow = worker[w].slow /\ new.wake = worker[w].wake
          BY <4>1, StoppedIs
        <4> HIDE DEF new
        <4>4. Turns(w, new)
          BY <4>1, <4>2, <4>3, TurnsIs
        <4>5. QED
          BY <4>3, <4>4 DEF Upset
      <3>3. QED
        BY <3>1, <3>2
    <2>3. rows' = rows
      BY <2>1 DEF notes
    <2>4. QED
      BY <2>1, <2>2, <2>3, OneDisturbed, SameRowsKept, ReleasesOrNot
  <1>7. ASSUME NEW w \in Workers, SlowTick(w) PROVE Acts
    <2>1. UNCHANGED <<kind, audience>>
      BY <1>7, Zenon DEF SlowTick
    <2>2. QED
      BY <1>7, <2>1, SlowsIs DEF Acts
  <1>8. QED
    BY <1>1, <1>2, <1>3, <1>4, <1>5, <1>6, <1>7, JobSteps, RequestSteps, UserDisturbs DEF Next

(* The rows through a calm step. *)

Progress ==
    \A u \in Users :
        /\ Len(rows[u]) <= Len(rows'[u])
        /\ \A i \in 1..Len(rows'[u]) :
             \/ /\ i \in 1..Len(rows[u]) /\ rows'[u][i].at = rows[u][i].at
                /\ \/ rows'[u][i].state = rows[u][i].state
                   \/ rows'[u][i].state = "sent" /\ rows[u][i].state # "deleted"
             \/ i \notin 1..Len(rows[u]) /\ rows'[u][i].at = clock /\ rows'[u][i].state = "unsent"

NoneDeleted == \A u \in Users : \A i \in 1..Len(rows[u]) : rows[u][i].state # "deleted"

LEMMA WrittenIs ==
  ASSUME Typed
  PROVE  /\ \A u \in Users : \A i : <<u, i>> \in Written <=> i \in 1..Len(rows[u])
         /\ \A r \in Written : r[1] \in Users /\ r[2] \in 1..Len(rows[r[1]]) /\ r = <<r[1], r[2]>>
  <1>1. \A u \in Users : DOMAIN rows[u] = 1..Len(rows[u])
    BY RowNumbers
  <1>2. \A u \in Users : \A i : <<u, i>> \in Written <=> i \in 1..Len(rows[u])
    BY <1>1 DEF Written
  <1>3. ASSUME NEW r \in Written
        PROVE  r[1] \in Users /\ r[2] \in 1..Len(rows[r[1]]) /\ r = <<r[1], r[2]>>
    <2>1. PICK u \in Users : r \in {u} \X DOMAIN rows[u]
      BY DEF Written
    <2>2. r[1] = u /\ r[2] \in DOMAIN rows[u] /\ r = <<r[1], r[2]>>
      BY <2>1
    <2>3. QED
      BY <1>1, <2>2
  <1>4. QED
    BY <1>2, <1>3

\* What inserting does to the rows of a user.
LEMMA InsertedAre ==
  ASSUME Typed, NEW us \in SUBSET Users, Inserted(us), NEW u \in Users
  PROVE  /\ u \notin us => rows'[u] = rows[u]
         /\ u \in us =>
              /\ Len(rows'[u]) = Len(rows[u]) + 1
              /\ rows'[u][Len(rows[u]) + 1].at = clock /\ rows'[u][Len(rows[u]) + 1].state = "unsent"
              /\ \A i \in 1..Len(rows[u]) : rows'[u][i] = rows[u][i]
  <1> DEFINE row == [at |-> clock, state |-> "unsent"]
  <1>1. rows'[u] = IF u \in us THEN Append(rows[u], row) ELSE rows[u]
    BY DEF Inserted
  <1>2. row.at = clock /\ row.state = "unsent"
    OBVIOUS
  <1>3. rows[u] \in Seq(Row) /\ Len(rows[u]) \in Nat
    BY RowNumbers
  <1> HIDE DEF row
  <1>4. QED
    BY <1>1, <1>2, <1>3

\* What a commit does to the rows of a user.
LEMMA StampedAre ==
  ASSUME Typed, NEW batch, rows' = Stamped(batch), NEW u \in Users
  PROVE  /\ Gone(batch) => rows'[u] = rows[u]
         /\ ~Gone(batch) =>
              /\ Len(rows'[u]) = Len(rows[u])
              /\ \A i \in 1..Len(rows[u]) :
                   IF <<u, i>> \in batch
                     THEN rows'[u][i].at = rows[u][i].at /\ rows'[u][i].state = "sent" /\ rows[u][i].state # "deleted"
                     ELSE rows'[u][i] = rows[u][i]
  <1>1. Gone(batch) => rows'[u] = rows[u]
    BY DEF Stamped
  <1>2. ASSUME ~Gone(batch)
        PROVE  /\ Len(rows'[u]) = Len(rows[u])
               /\ \A i \in 1..Len(rows[u]) :
                    IF <<u, i>> \in batch
                      THEN rows'[u][i].at = rows[u][i].at /\ rows'[u][i].state = "sent" /\ rows[u][i].state # "deleted"
                      ELSE rows'[u][i] = rows[u][i]
    <2>1. rows[u] \in Seq(Row) /\ DOMAIN rows[u] = 1..Len(rows[u]) /\ Len(rows[u]) \in Nat
      BY RowNumbers
    <2> DEFINE One == [i \in 1..Len(rows[u]) |->
             IF <<u, i>> \in batch THEN [rows[u][i] EXCEPT !.state = "sent"] ELSE rows[u][i]]
    <2>2. rows'[u] = One
      BY <1>2, <2>1 DEF Stamped
    <2>3. Len(rows'[u]) = Len(rows[u])
      BY <2>1, <2>2
    <2>4. ASSUME NEW i \in 1..Len(rows[u])
          PROVE  IF <<u, i>> \in batch
                   THEN rows'[u][i].at = rows[u][i].at /\ rows'[u][i].state = "sent" /\ rows[u][i].state # "deleted"
                   ELSE rows'[u][i] = rows[u][i]
      <3>1. rows[u][i] \in Row
        BY <2>1
      <3>2. CASE <<u, i>> \in batch
        <4>1. rows'[u][i] = [rows[u][i] EXCEPT !.state = "sent"]
          BY <2>2, <3>2
        <4>2. <<u, i>>[1] = u /\ <<u, i>>[2] = i
          OBVIOUS
        <4>3. rows[u][i].state # "deleted"
          BY <1>2, <3>2, <4>2 DEF Gone
        <4>4. QED
          BY <3>1, <3>2, <4>1, <4>3, StateIs, Named
      <3>3. CASE <<u, i>> \notin batch
        BY <2>2, <3>3
      <3>4. QED
        BY <3>2, <3>3
    <2>5. QED
      BY <2>3, <2>4
  <1>3. QED
    BY <1>1, <1>2

LEMMA SameProgress ==
  ASSUME Typed, rows' = rows
  PROVE  Progress
  BY RowNumbers DEF Progress

LEMMA InsertProgress ==
  ASSUME Typed, NEW us \in SUBSET Users, Inserted(us)
  PROVE  Progress
  <1> SUFFICES ASSUME NEW u \in Users
               PROVE  /\ Len(rows[u]) <= Len(rows'[u])
                      /\ \A i \in 1..Len(rows'[u]) :
                           \/ /\ i \in 1..Len(rows[u]) /\ rows'[u][i].at = rows[u][i].at
                              /\ rows'[u][i].state = rows[u][i].state
                           \/ /\ i \notin 1..Len(rows[u]) /\ rows'[u][i].at = clock
                              /\ rows'[u][i].state = "unsent"
    BY Zenon DEF Progress
  <1>1. Len(rows[u]) \in Nat
    BY RowNumbers
  <1>2. QED
    BY <1>1, InsertedAre

LEMMA StampProgress ==
  ASSUME Typed, NEW batch, rows' = Stamped(batch)
  PROVE  Progress
  <1> SUFFICES ASSUME NEW u \in Users
               PROVE  /\ Len(rows[u]) <= Len(rows'[u])
                      /\ \A i \in 1..Len(rows'[u]) :
                           /\ i \in 1..Len(rows[u]) /\ rows'[u][i].at = rows[u][i].at
                           /\ \/ rows'[u][i].state = rows[u][i].state
                              \/ rows'[u][i].state = "sent" /\ rows[u][i].state # "deleted"
    BY Zenon DEF Progress
  <1>1. Len(rows[u]) \in Nat
    BY RowNumbers
  <1>2. CASE Gone(batch)
    BY <1>1, <1>2, StampedAre
  <1>3. CASE ~Gone(batch)
    <2>1. Len(rows'[u]) = Len(rows[u])
      BY <1>3, StampedAre
    <2>2. ASSUME NEW i \in 1..Len(rows[u])
          PROVE  /\ rows'[u][i].at = rows[u][i].at
                 /\ \/ rows'[u][i].state = rows[u][i].state
                    \/ rows'[u][i].state = "sent" /\ rows[u][i].state # "deleted"
      <3>1. CASE <<u, i>> \in batch
        BY <1>3, <3>1, StampedAre
      <3>2. CASE <<u, i>> \notin batch
        BY <1>3, <3>2, StampedAre
      <3>3. QED
        BY <3>1, <3>2
    <2>3. QED
      BY <1>1, <2>1, <2>2
  <1>4. QED
    BY <1>2, <1>3

LEMMA CalmProgress ==
  ASSUME Typed, HalfHour \/ CalmActs
  PROVE  /\ Progress /\ Fewer /\ UNCHANGED <<dead, muted, mishaps>> /\ redis' \in {redis, TRUE}
  <1>1. UNCHANGED <<dead, muted, mishaps>> /\ redis' \in {redis, TRUE}
    <2>1. CASE HalfHour
      <3>1. UNCHANGED <<redis, notes, mishaps>>
        BY <2>1, Zenon DEF HalfHour
      <3>2. QED
        BY <3>1 DEF notes
    <2>2. CASE CalmActs
      BY <2>2 DEF CalmActs
    <2>3. QED
      BY <2>1, <2>2
  <1>2. CASE UNCHANGED <<rows, device>>
    BY <1>1, <1>2, SameProgress, SameFewer
  <1>3. ASSUME NEW w \in Workers, JobActs(w) PROVE Progress /\ Fewer
    <2>1. CASE UNCHANGED <<rows, device>>
      BY <2>1, SameProgress, SameFewer
    <2>2. CASE Inserts(w)
      BY <2>2, InsertProgress, SameFewer DEF Inserts
    <2>3. CASE Pushes(w) \/ Retries(w)
      BY <2>3, SameProgress DEF Pushes, Retries
    <2>4. CASE Stamps(w) \/ Finishes(w)
      BY <2>4, StampProgress, SameFewer DEF Stamps, Finishes
    <2>5. QED
      BY <1>3, <2>1, <2>2, <2>3, <2>4 DEF JobActs, Opens, Skips, LoopStops, Checks
  <1>4. ASSUME NEW w \in Workers, RequestActs(w) PROVE Progress /\ Fewer
    <2>1. CASE Asks(w)
      BY <2>1, SameProgress, SameFewer DEF Asks
    <2>2. CASE RequestInserts(w)
      BY <2>2, InsertProgress, SameFewer DEF RequestInserts, Typed, FactTyped
    <2>3. CASE RequestPushes(w)
      BY <2>3, SameProgress DEF RequestPushes
    <2>4. CASE RequestStamps(w)
      BY <2>4, StampProgress, SameFewer DEF RequestStamps
    <2>5. QED
      BY <1>4, <2>1, <2>2, <2>3, <2>4 DEF RequestActs
  <1>5. HalfHour => UNCHANGED <<rows, device>>
    <2>1. HalfHour => UNCHANGED notes
      BY Zenon DEF HalfHour
    <2>2. QED
      BY <2>1 DEF notes
  <1>6. QED
    BY <1>1, <1>2, <1>3, <1>4, <1>5 DEF CalmActs

\* A push that is due was due before, or is of this moment.
LEMMA OwedBefore ==
  ASSUME Typed, Typed', Progress, Fewer, NEW u \in Users, NEW i, Owed(u, i)'
  PROVE  \/ Owed(u, i) /\ rows'[u][i].at = rows[u][i].at
         \/ i \notin 1..Len(rows[u]) /\ rows'[u][i].at = clock
  <1>1. i \in 1..Len(rows'[u]) /\ rows'[u][i].state = "unsent" /\ DevicesOf(u) # {}
    BY DEF Owed, Fewer
  <1>2. \/ /\ i \in 1..Len(rows[u]) /\ rows'[u][i].at = rows[u][i].at
           /\ \/ rows'[u][i].state = rows[u][i].state
              \/ rows'[u][i].state = "sent"
        \/ i \notin 1..Len(rows[u]) /\ rows'[u][i].at = clock
    BY <1>1 DEF Progress
  <1>3. QED
    BY <1>1, <1>2 DEF Owed

LEMMA GoneBefore ==
  ASSUME Typed, Progress, NEW batch \in SUBSET Written, ~Gone(batch)
  PROVE  \A r \in batch : rows'[r[1]][r[2]].state # "deleted"
  <1> TAKE r \in batch
  <1>1. r[1] \in Users /\ r[2] \in 1..Len(rows[r[1]])
    BY WrittenIs
  <1>2. rows[r[1]][r[2]].state # "deleted"
    BY DEF Gone
  <1>3. r[2] \in 1..Len(rows'[r[1]])
    <2>1. Len(rows[r[1]]) <= Len(rows'[r[1]]) /\ Len(rows[r[1]]) \in Nat
      BY <1>1, RowNumbers DEF Progress
    <2>2. QED
      BY <1>1, <2>1
  <1>4. QED
    BY <1>1, <1>2, <1>3 DEF Progress

LEMMA NoneDeletedStays ==
  ASSUME Progress, NoneDeleted
  PROVE  NoneDeleted'
  <1> SUFFICES ASSUME NEW u \in Users, NEW i \in 1..Len(rows'[u]) PROVE rows'[u][i].state # "deleted"
    BY DEF NoneDeleted
  <1>1. QED
    BY DEF NoneDeleted, Progress

\* While no row is deleted, every commit succeeds.
LEMMA NoneGone ==
  ASSUME Typed, NoneDeleted, NEW batch \in SUBSET Written
  PROVE  ~Gone(batch)
  BY WrittenIs DEF Gone, NoneDeleted

LEMMA Longer ==
  ASSUME Typed, Typed', Acts, NEW u \in Users
  PROVE  /\ Len(rows[u]) <= Len(rows'[u]) /\ (rows'[u] = <<>> => rows[u] = <<>>)
  <1>1. Len(rows[u]) \in Nat /\ rows[u] \in Seq(Row) /\ rows'[u] \in Seq(Row)
    BY RowNumbers DEF Typed, RowsTyped
  <1>2. Len(rows[u]) <= Len(rows'[u])
    <2>1. CASE HalfHour \/ CalmActs
      BY <2>1, CalmProgress DEF Progress
    <2>2. CASE Disturbs
      BY <1>1, <2>2 DEF Disturbs
    <2>3. CASE \E w \in Workers : Slows(w)
      BY <1>1, <2>3 DEF Slows
    <2>4. QED
      BY <2>1, <2>2, <2>3 DEF Acts
  <1>3. rows'[u] = <<>> => rows[u] = <<>>
    <2>1. Len(<<>>) = 0
      OBVIOUS
    <2>2. QED
      BY <1>1, <1>2, <2>1
  <1>4. QED
    BY <1>2, <1>3

LEMMA WrittenGrows ==
  ASSUME Typed, Typed', Acts
  PROVE  Written \subseteq Written'
  <1> SUFFICES ASSUME NEW r \in Written PROVE r \in Written'
    OBVIOUS
  <1>1. PICK u \in Users : r \in {u} \X DOMAIN rows[u]
    BY DEF Written
  <1>2. DOMAIN rows[u] = 1..Len(rows[u]) /\ Len(rows[u]) \in Nat
    BY RowNumbers
  <1>3. DOMAIN rows'[u] = 1..Len(rows'[u]) /\ Len(rows'[u]) \in Nat
    <2>1. rows'[u] \in Seq(Row)
      BY DEF Typed, RowsTyped
    <2>2. QED
      BY <2>1, ListIs
  <1>4. DOMAIN rows[u] \subseteq DOMAIN rows'[u]
    BY <1>2, <1>3, Longer
  <1>5. r \in {u} \X DOMAIN rows'[u]
    BY <1>1, <1>4
  <1>6. QED
    BY <1>5 DEF Written

-----------------------------------------------------------------------------
(* What holds of the jobs at any time. *)

Slow(w) == worker[w].slow = TRUE

LEMMA SlowIs ==
  ASSUME Typed, NEW w \in Workers
  PROVE  worker[w].slow <=> Slow(w)
  <1>1. worker[w] \in Worker
    BY ClientIs DEF Typed
  <1>2. worker[w].slow \in BOOLEAN
    BY <1>1, WorkerIs
  <1>3. QED
    BY <1>2 DEF Slow

\* A job carries rows only from their insert, or from the selection of the retries, to the stamp.
JobCarrying(w) ==
    /\ worker[w].batch \subseteq Written
    /\ worker[w].batch # {} => worker[w].at \in {"push", "stamp", "commit"}
    /\ worker[w].at \in {"push", "stamp"} =>
           \A u \in Users : \A i : <<u, i>> \in worker[w].batch => u = worker[w].on
    /\ Slow(w) => Ticking(w)

RequestCarrying(w) == request[w].at \in {"push", "stamp"} => request[w].batch \subseteq Written

Carrying == \A w \in Workers : JobCarrying(w) /\ RequestCarrying(w)

\* Only those whom the event is for are told, and the retries come last.
JobInvited(w) ==
    /\ worker[w].todo \subseteq audience
    /\ worker[w].at = "insert" => worker[w].on \in audience
    /\ worker[w].at = "commit" => worker[w].todo = {}

Invited ==
    /\ audience # {} /\ \A w \in Workers : JobInvited(w)
    /\ \A u \in Users : rows[u] # <<>> => u \in audience

\* A lock is for a tick, and a job wakes every half hour.
JobTimed(w) == worker[w].at = "asleep" => worker[w].wake <= clock + 1

Timed == lock.until <= clock + LockTtl /\ \A w \in Workers : JobTimed(w)

LEMMA AwakeIs ==
  ASSUME Typed, Carrying, NEW w \in Workers, Awake(w)
  PROVE  /\ worker[w].at \in {"starting", "asleep"} /\ ~Ticking(w) /\ ~Slow(w) /\ worker[w].batch = {}
  <1>1. worker[w].at \in {"starting", "asleep"}
    BY DEF Awake
  <1>2. ~Ticking(w)
    BY <1>1 DEF Ticking
  <1>3. QED
    BY <1>1, <1>2 DEF Carrying, JobCarrying

\* Of one job's step, and of what a mishap leaves of it.
LEMMA JobCarryingStays ==
  ASSUME Typed, Typed', Acts, Carrying, NEW w \in Workers, JobActs(w)
  PROVE  JobCarrying(w)'
  <1>1. JobCarrying(w) /\ Written \subseteq Written' /\ worker[w].batch \subseteq Written'
    BY WrittenGrows DEF Carrying, JobCarrying
  <1>2. CASE Opens(w)
    BY <1>1, <1>2, AwakeIs DEF Opens, Turns, JobCarrying, Slow, Ticking
  <1>3. CASE Skips(w) \/ Finishes(w)
    BY <1>1, <1>3 DEF Skips, Finishes, Sleeps, Turns, JobCarrying, Slow, Ticking
  <1>4. CASE LoopStops(w)
    BY <1>1, <1>4, AwakeIs DEF LoopStops, Turns, JobCarrying, Slow, Ticking
  <1>5. CASE Checks(w)
    BY <1>1, <1>5 DEF Checks, Turns, JobCarrying, Slow, Ticking
  <1>6. CASE Inserts(w)
    <2>1. PICK u \in Users : u = worker[w].on /\ worker[w].at = "insert" /\ Inserted({u})
      BY <1>6 DEF Inserts
    <2>2. <<u, Len(rows[u]) + 1>> \in Written'
      <3>1. rows'[u] \in Seq(Row) /\ Len(rows[u]) \in Nat /\ Len(rows'[u]) = Len(rows[u]) + 1
        BY <2>1, InsertedAre, RowNumbers DEF Typed, RowsTyped
      <3>2. Len(rows[u]) + 1 \in DOMAIN rows'[u]
        BY <3>1
      <3>3. QED
        BY <3>2 DEF Written
    <2>3. NextRows({u}) = {<<u, Len(rows[u]) + 1>>}
      BY DEF NextRows
    <2> DEFINE batch == NextRows({u})
    <2>4. batch \subseteq Written' /\ \A v \in Users : \A i : <<v, i>> \in batch => v = u
      BY <2>2, <2>3
    <2> HIDE DEF batch
    <2>5. Carries(w, "push", batch)
      BY <1>6, <2>1 DEF Inserts, batch
    <2>6. QED
      BY <1>1, <2>1, <2>4, <2>5 DEF Carries, Turns, JobCarrying, Slow, Ticking
  <1>7. CASE Pushes(w)
    <2>1. CASE Carries(w, "stamp", worker[w].batch)
      BY <1>1, <1>7, <2>1 DEF Pushes, Carries, Turns, JobCarrying, Slow, Ticking
    <2>2. CASE MovesOn(w)
      BY <1>1, <1>7, <2>2 DEF MovesOn, Turns, JobCarrying, Slow, Ticking
    <2>3. QED
      BY <1>7, <2>1, <2>2 DEF Pushes
  <1>8. CASE Stamps(w)
    BY <1>1, <1>8 DEF Stamps, MovesOn, Turns, JobCarrying, Slow, Ticking
  <1>9. CASE Retries(w)
    BY <1>1, <1>9 DEF Retries, Carries, Turns, JobCarrying, Slow, Ticking
  <1>10. QED
    BY <1>2, <1>3, <1>4, <1>5, <1>6, <1>7, <1>8, <1>9 DEF JobActs

LEMMA CalmClock ==
  ASSUME CalmActs \/ Disturbs \/ \E w \in Workers : Slows(w)
  PROVE  clock' = clock
  BY DEF CalmActs, Disturbs, Slows

LEMMA HalfHourIs ==
  ASSUME HalfHour
  PROVE  /\ UNCHANGED <<kind, audience, request, worker, lock, redis, rows, device, dead, muted, mishaps>>
         /\ clock' = clock + 1
         /\ \A w \in Workers : request[w] = Idle /\ ~Awake(w) /\ (Ticking(w) => worker[w].slow)
  <1>1. /\ UNCHANGED <<kind, audience, request, worker, lock, redis, notes, mishaps>> /\ clock' = clock + 1
        /\ \A w \in Workers : request[w] = Idle /\ ~Awake(w) /\ (Ticking(w) => worker[w].slow)
    BY Zenon DEF HalfHour
  <1>2. QED
    BY <1>1 DEF notes

LEMMA OthersWait ==
  ASSUME NEW v \in Workers, JobActs(v)
  PROVE  \A w \in Workers \ {v} : worker'[w] = worker[w]
  <1>1. \E new : Turns(v, new)
    BY Zenon DEF JobActs, Opens, Skips, LoopStops, Checks, Inserts, Pushes, Stamps, Finishes, Retries,
             Sleeps, Carries, MovesOn
  <1>2. QED
    BY <1>1 DEF Turns

\* In every step a job is as it was, or takes a step of its own.
LEMMA JobCases ==
  ASSUME Typed, Acts, NEW w \in Workers
  PROVE  \/ worker'[w] = worker[w]
         \/ CalmActs /\ JobActs(w)
         \/ Disturbs /\ Upset(w, worker'[w])
         \/ Slows(w)
  <1>1. CASE HalfHour
    BY <1>1, HalfHourIs
  <1>2. CASE CalmActs
    <2>1. ASSUME NEW v \in Workers, JobActs(v), v # w PROVE worker'[w] = worker[w]
      BY <2>1, OthersWait
    <2>2. QED
      BY <1>2, <2>1 DEF CalmActs, RequestActs
  <1>3. CASE Disturbs
    BY <1>3 DEF Disturbs
  <1>4. ASSUME NEW v \in Workers, Slows(v) PROVE worker'[w] = worker[w] \/ Slows(w)
    BY <1>4 DEF Slows, Turns
  <1>5. QED
    BY <1>1, <1>2, <1>3, <1>4 DEF Acts

\* And a request.
LEMMA RequestCases ==
  ASSUME Typed, Acts, NEW w \in Workers
  PROVE  \/ request'[w] = request[w]
         \/ CalmActs /\ RequestActs(w)
         \/ Disturbs /\ request'[w] = Idle
  <1>1. CASE HalfHour
    BY <1>1, HalfHourIs
  <1>2. CASE CalmActs
    <2>1. ASSUME NEW v \in Workers, RequestActs(v), v # w PROVE request'[w] = request[w]
      <3>1. \E new : Replies(v, new)
        BY <2>1, Zenon DEF RequestActs, Asks, RequestInserts, RequestPushes, RequestStamps
      <3>2. QED
        BY <2>1, <3>1 DEF Replies
    <2>2. QED
      BY <1>2, <2>1 DEF CalmActs, JobActs
  <1>3. CASE Disturbs
    BY <1>3 DEF Disturbs
  <1>4. ASSUME NEW v \in Workers, Slows(v) PROVE request'[w] = request[w]
    BY <1>4 DEF Slows
  <1>5. QED
    BY <1>1, <1>2, <1>3, <1>4 DEF Acts

LEMMA UpsetCarrying ==
  ASSUME Typed, Typed', Acts, Carrying, NEW w \in Workers, Upset(w, worker'[w])
  PROVE  JobCarrying(w)'
  <1>1. JobCarrying(w) /\ Written \subseteq Written' /\ worker[w].batch \subseteq Written'
    BY WrittenGrows DEF Carrying, JobCarrying
  <1> DEFINE new == worker'[w]
  <1>2. CASE new.at = worker[w].at /\ new.batch = worker[w].batch /\ new.on = worker[w].on /\ new.slow = worker[w].slow
    BY <1>1, <1>2 DEF JobCarrying, Slow, Ticking
  <1>3. CASE new.at \in {"starting", "asleep"} /\ new.batch = {} /\ new.slow = FALSE
    BY <1>1, <1>3 DEF JobCarrying, Slow, Ticking
  <1>4. CASE worker[w].at = "push" /\ new.at = "check" /\ new.batch = {} /\ new.slow = worker[w].slow
    BY <1>1, <1>4 DEF JobCarrying, Slow, Ticking
  <1>5. CASE worker[w].at = "check" /\ new.at = "commit" /\ new.batch \subseteq Written /\ new.slow = worker[w].slow
    BY <1>1, <1>5 DEF JobCarrying, Slow, Ticking
  <1>6. QED
    BY <1>2, <1>3, <1>4, <1>5 DEF Upset

LEMMA NextRowsWritten ==
  ASSUME Typed, Typed', NEW us \in SUBSET Users, Inserted(us)
  PROVE  NextRows(us) \subseteq Written'
  <1> SUFFICES ASSUME NEW r \in NextRows(us) PROVE r \in Written'
    OBVIOUS
  <1>1. PICK u \in us : r = <<u, Len(rows[u]) + 1>>
    BY DEF NextRows
  <1>2. rows'[u] \in Seq(Row) /\ Len(rows[u]) \in Nat /\ Len(rows'[u]) = Len(rows[u]) + 1
    BY InsertedAre, RowNumbers DEF Typed, RowsTyped
  <1>3. Len(rows[u]) + 1 \in DOMAIN rows'[u]
    BY <1>2
  <1>4. QED
    BY <1>1, <1>3 DEF Written

LEMMA CarryingStays ==
  ASSUME Typed, Typed', Acts, Carrying
  PROVE  Carrying'
  <1> SUFFICES ASSUME NEW w \in Workers PROVE JobCarrying(w)' /\ RequestCarrying(w)'
    BY DEF Carrying
  <1>1. JobCarrying(w) /\ RequestCarrying(w) /\ Written \subseteq Written'
    BY WrittenGrows DEF Carrying
  <1>2. JobCarrying(w)'
    <2>1. CASE worker'[w] = worker[w]
      BY <1>1, <2>1 DEF JobCarrying, Slow, Ticking
    <2>2. CASE Slows(w)
      BY <1>1, <2>2 DEF Slows, Turns, JobCarrying, Slow, Ticking
    <2>3. QED
      BY <2>1, <2>2, JobCases, JobCarryingStays, UpsetCarrying
  <1>3. RequestCarrying(w)'
    <2>1. CASE request'[w] = request[w]
      BY <1>1, <2>1 DEF RequestCarrying
    <2>2. CASE request'[w] = Idle
      BY <2>2, IdleIs DEF RequestCarrying
    <2>3. CASE Asks(w)
      BY <2>3 DEF Asks, Replies, RequestCarrying
    <2>4. CASE RequestInserts(w)
      BY <2>4, NextRowsWritten DEF RequestInserts, Replies, RequestCarrying, Typed, FactTyped
    <2>5. CASE RequestPushes(w)
      BY <1>1, <2>2, <2>5 DEF RequestPushes, Replies, RequestCarrying
    <2>6. CASE RequestStamps(w)
      BY <2>2, <2>6 DEF RequestStamps, Replies
    <2>7. QED
      BY <2>1, <2>2, <2>3, <2>4, <2>5, <2>6, RequestCases DEF RequestActs
  <1>4. QED
    BY <1>2, <1>3

LEMMA JobInvitedStays ==
  ASSUME Typed, Acts, Invited, NEW w \in Workers
  PROVE  JobInvited(w)'
  <1>1. JobInvited(w) /\ audience' = audience
    BY DEF Invited, Acts
  <1>2. CASE worker'[w] = worker[w]
    BY <1>1, <1>2 DEF JobInvited
  <1>3. CASE Slows(w)
    BY <1>1, <1>3 DEF Slows, Turns, JobInvited
  <1>4. CASE Upset(w, worker'[w])
    BY <1>1, <1>4 DEF Upset, JobInvited
  <1>5. CASE Opens(w)
    BY <1>1, <1>5 DEF Opens, Turns, JobInvited
  <1>6. CASE Skips(w) \/ Finishes(w)
    BY <1>1, <1>6 DEF Skips, Finishes, Sleeps, Turns, JobInvited
  <1>7. CASE LoopStops(w)
    BY <1>1, <1>7 DEF LoopStops, Turns, JobInvited
  <1>8. CASE Checks(w)
    BY <1>1, <1>8 DEF Checks, Turns, JobInvited
  <1>9. CASE Inserts(w) \/ Pushes(w) \/ Stamps(w)
    BY <1>1, <1>9 DEF Inserts, Pushes, Stamps, Carries, MovesOn, Turns, JobInvited
  <1>10. CASE Retries(w)
    BY <1>1, <1>10 DEF Retries, Carries, Turns, JobInvited
  <1>11. QED
    BY <1>2, <1>3, <1>4, <1>5, <1>6, <1>7, <1>8, <1>9, <1>10, JobCases DEF JobActs

\* A user has rows only as one of the audience.
LEMMA RowsInvited ==
  ASSUME Typed, Typed', Acts, Invited, NEW u \in Users, rows'[u] # <<>>
  PROVE  u \in audience
  <1>1. rows[u] # <<>> => u \in audience
    BY DEF Invited
  <1>2. CASE Len(rows'[u]) = Len(rows[u])
    <2>1. rows[u] \in Seq(Row) /\ rows'[u] \in Seq(Row) /\ Len(<<>>) = 0
      BY DEF Typed, RowsTyped
    <2>2. QED
      BY <1>1, <1>2, <2>1
  <1>3. ASSUME NEW us \in SUBSET Users, us \subseteq audience, Inserted(us) PROVE u \in audience
    BY <1>1, <1>3, InsertedAre
  <1>4. ASSUME NEW batch, rows' = Stamped(batch) PROVE u \in audience
    BY <1>2, <1>1, <1>4, StampedAre
  <1>5. CASE UNCHANGED rows
    BY <1>2, <1>5
  <1>6. ASSUME NEW w \in Workers, Inserts(w) PROVE u \in audience
    BY <1>3, <1>6 DEF Inserts, Invited, JobInvited
  <1>7. ASSUME NEW w \in Workers, JobActs(w) PROVE u \in audience
    BY <1>4, <1>5, <1>6, <1>7 DEF JobActs, Opens, Skips, LoopStops, Checks, Pushes, Stamps, Finishes, Retries
  <1>8. ASSUME NEW w \in Workers, RequestActs(w) PROVE u \in audience
    BY <1>3, <1>4, <1>5, <1>8 DEF RequestActs, Asks, RequestInserts, RequestPushes, RequestStamps, Typed, FactTyped
  <1>9. HalfHour => UNCHANGED rows
    BY HalfHourIs
  <1>10. QED
    BY <1>2, <1>5, <1>7, <1>8, <1>9 DEF Acts, CalmActs, Disturbs, Slows

LEMMA InvitedStays ==
  ASSUME Typed, Typed', Acts, Invited
  PROVE  Invited'
  <1>1. audience' = audience /\ audience # {}
    BY DEF Acts, Invited
  <1>2. QED
    BY <1>1, JobInvitedStays, RowsInvited DEF Invited

LEMMA ClockIs ==
  ASSUME Typed
  PROVE  clock \in Nat /\ lock.until \in Nat /\ LockTtl = 2 /\ mishaps \in Nat
  <1>1. /\ clock \in 0..LastClock /\ LastClock \in 0..54 /\ LastClock + LockTtl \in 0..56 /\ LockTtl = 2
        /\ lock \in LockRow
    BY Bounds DEF Typed, FactTyped, LockTyped
  <1>2. lock.until \in 0..(LastClock + LockTtl)
    BY <1>1 DEF LockRow
  <1>3. mishaps \in Nat
    BY NotificationConstantsOK DEF Typed, CountTyped, FactTyped
  <1>4. QED
    BY <1>1, <1>2, <1>3

\* The lock stays, is released or is taken for two half hours.
LEMMA LockCases ==
  ASSUME Typed, Acts
  PROVE  \/ lock' \in {lock, NoLock}
         \/ \E w \in Workers : /\ Opens(w) /\ FALSE \in Taken
                               /\ lock' = [by |-> w, until |-> clock + LockTtl] /\ worker'[w].until = clock + LockTtl
  <1>1. ASSUME NEW w \in Workers, Opens(w), ~UNCHANGED lock
        PROVE  /\ FALSE \in Taken /\ lock' = [by |-> w, until |-> clock + LockTtl]
               /\ worker'[w].until = clock + LockTtl
    BY <1>1 DEF Opens, Turns
  <1>2. ASSUME NEW w \in Workers, JobActs(w), ~Opens(w) PROVE lock' \in {lock, NoLock}
    BY <1>2 DEF JobActs, Skips, LoopStops, Checks, Inserts, Pushes, Stamps, Finishes, Retries, Released
  <1>3. HalfHour => lock' = lock
    BY HalfHourIs
  <1>4. QED
    BY <1>1, <1>2, <1>3 DEF Acts, CalmActs, RequestActs, Disturbs, Slows

LEMMA JobTimedStays ==
  ASSUME Typed, Typed', Acts, Timed, NEW w \in Workers
  PROVE  JobTimed(w)'
  <1>1. JobTimed(w) /\ clock' \in {clock, clock + 1} /\ clock \in Nat
    BY CalmClock, HalfHourIs, ClockIs DEF Timed, Acts
  <1>2. worker[w] \in Worker /\ worker[w].wake \in Nat
    <2>1. worker[w] \in Worker
      BY ClientIs DEF Typed
    <2>2. worker[w].wake \in Wakes
      BY <2>1, WorkerIs
    <2>3. \A n \in Wakes : n \in Nat
      BY DEF Wakes
    <2>4. QED
      BY <2>1, <2>2, <2>3
  <1>3. CASE worker'[w].at = worker[w].at /\ worker'[w].wake = worker[w].wake
    BY <1>1, <1>2, <1>3 DEF JobTimed
  <1>4. CASE worker'[w].wake \in 0..(clock + 1)
    BY <1>1, <1>4 DEF JobTimed
  <1>5. CASE worker'[w].at # "asleep"
    BY <1>5 DEF JobTimed
  <1>6. CASE Slows(w)
    BY <1>3, <1>6 DEF Slows, Turns
  <1>7. CASE Upset(w, worker'[w])
    BY <1>3, <1>4, <1>5, <1>7 DEF Upset
  <1>8. CASE Skips(w) \/ Finishes(w)
    BY <1>4, <1>8 DEF Skips, Finishes, Sleeps, Turns
  <1>9. CASE Opens(w) \/ LoopStops(w) \/ Checks(w)
    BY <1>5, <1>9 DEF Opens, LoopStops, Checks, Turns
  <1>10. CASE Inserts(w) \/ Pushes(w) \/ Stamps(w) \/ Retries(w)
    BY <1>5, <1>10 DEF Inserts, Pushes, Stamps, Retries, Carries, MovesOn, Turns
  <1>11. QED
    BY <1>3, <1>6, <1>7, <1>8, <1>9, <1>10, JobCases DEF JobActs

LEMMA TimedStays ==
  ASSUME Typed, Typed', Acts, Timed
  PROVE  Timed'
  <1>1. /\ lock.until <= clock + LockTtl /\ LockTtl = 2 /\ clock \in Nat /\ lock.until \in Nat
        /\ clock' \in {clock, clock + 1}
    BY ClockIs, CalmClock, HalfHourIs DEF Timed, Acts
  <1>2. lock'.until <= clock + LockTtl /\ lock'.until \in Nat
    <2>1. CASE lock' \in {lock, NoLock}
      BY <1>1, <2>1 DEF NoLock
    <2>2. ASSUME NEW w \in Workers, lock' = [by |-> w, until |-> clock + LockTtl]
          PROVE  lock'.until <= clock + LockTtl /\ lock'.until \in Nat
      BY <1>1, <2>2
    <2>3. QED
      BY <2>1, <2>2, LockCases
  <1>3. LockTtl' = LockTtl
    BY DEF LockTtl
  <1>4. lock'.until <= clock' + LockTtl
    BY <1>1, <1>2
  <1>5. QED
    BY <1>3, <1>4, JobTimedStays DEF Timed

-----------------------------------------------------------------------------
(* What holds until the first mishap, and what a slow tick leaves of it. *)

\* Nothing has gone wrong yet.
Unhurt ==
    mishaps = 0 =>
        /\ redis = TRUE /\ dead = {} /\ muted = {} /\ NoneDeleted
        /\ \A u \in audience : DevicesOf(u) # {}
        /\ \A w \in Workers : ~Slow(w) /\ worker[w].at # "ended"

\* The lock is held by a tick that is under way, so that it is released.
Guarded == mishaps = 0 => lock.by = Nobody \/ \E w \in Workers : Ticking(w) /\ Mine(w)

\* Every push that is due is of this half hour.
NoneWaits == mishaps = 0 => \A u \in Users : \A i : Owed(u, i) => rows[u][i].at = clock

\* One tick is slow, which is the one mishap there was.
Patient ==
    \A w \in Workers : Slow(w) /\ mishaps <= 1 =>
        NoneDeleted /\ \A v \in Workers : Slow(v) => v = w

\* Every push that is due is in the hands of a job or a request.
Held ==
    mishaps = 0 \/ (mishaps = 1 /\ \E w \in Workers : Slow(w)) =>
        \A u \in Users : \A i : Owed(u, i) => \E w \in Workers : <<u, i>> \in Carried(w)

\* A request is answered within its half hour.
RequestCurrent(w) ==
    request[w].at \in {"push", "stamp"} =>
        \A u \in Users : \A i : <<u, i>> \in request[w].batch => rows[u][i].at = clock

Current == \A w \in Workers : RequestCurrent(w)

\* A deleted row ends a tick only in the half hour of the rows it leaves.
Recent ==
    mishaps <= 1 => \A w \in Workers : Gone(worker[w].batch) =>
        \A u \in Users : \A i : Owed(u, i) => rows[u][i].at = clock

LEMMA CalmJob ==
  ASSUME Typed, HalfHour \/ CalmActs, Acts, NEW w \in Workers
  PROVE  /\ Slow(w)' => Slow(w)
         /\ worker[w].at = "ended" => worker'[w].at = "ended"
         /\ redis = TRUE /\ worker'[w].at = "ended" => worker[w].at = "ended"
  <1>1. CASE worker'[w] = worker[w]
    BY <1>1 DEF Slow
  <1>2. CASE Opens(w)
    BY <1>2 DEF Opens, Turns, Awake, Slow
  <1>3. CASE Skips(w) \/ Finishes(w)
    BY <1>3 DEF Skips, Finishes, Sleeps, Turns, Awake, Slow
  <1>4. CASE LoopStops(w)
    BY <1>4 DEF LoopStops, Turns, Awake, Slow
  <1>5. CASE Checks(w)
    BY <1>5 DEF Checks, Turns, Slow
  <1>6. CASE Inserts(w) \/ Pushes(w) \/ Stamps(w) \/ Retries(w)
    BY <1>6 DEF Inserts, Pushes, Stamps, Retries, Carries, MovesOn, Turns, Slow
  <1>7. mishaps' = mishaps /\ mishaps \in Nat
    BY CalmProgress, ClockIs
  <1>8. ~Disturbs /\ ~Slows(w)
    BY <1>7 DEF Disturbs, Slows
  <1>9. QED
    BY <1>1, <1>2, <1>3, <1>4, <1>5, <1>6, <1>8, JobCases DEF JobActs

LEMMA UpsetSlow ==
  ASSUME Typed, NEW w \in Workers, Upset(w, worker'[w])
  PROVE  Slow(w)' => Slow(w)
  BY DEF Upset, Slow

\* The first mishap.
LEMMA FirstMishap ==
  ASSUME Typed, Typed', Acts, Unhurt, mishaps' <= 1
  PROVE  /\ mishaps <= 1 /\ mishaps \in Nat
         /\ mishaps' = 0 => mishaps = 0 /\ (HalfHour \/ CalmActs)
         /\ (HalfHour \/ CalmActs) \/ (mishaps = 0 /\ mishaps' = 1 /\ (Disturbs \/ \E w \in Workers : Slows(w)))
  <1>1. mishaps \in Nat
    BY ClockIs
  <1>2. CASE HalfHour \/ CalmActs
    BY <1>1, <1>2, CalmProgress
  <1>3. CASE Disturbs \/ \E w \in Workers : Slows(w)
    <2>1. mishaps' = mishaps + 1
      BY <1>3 DEF Disturbs, Slows
    <2>2. QED
      BY <1>1, <1>3, <2>1
  <1>4. QED
    BY <1>2, <1>3 DEF Acts

LEMMA UnhurtStays ==
  ASSUME Typed, Typed', Acts, Unhurt
  PROVE  Unhurt'
  <1> SUFFICES ASSUME mishaps' = 0
               PROVE  /\ redis' = TRUE /\ dead' = {} /\ muted' = {} /\ NoneDeleted'
                      /\ \A u \in audience' : DevicesOf(u)' # {}
                      /\ \A w \in Workers : ~Slow(w)' /\ worker'[w].at # "ended"
    BY DEF Unhurt
  <1>1. mishaps = 0 /\ (HalfHour \/ CalmActs)
    BY FirstMishap
  <1>2. /\ redis = TRUE /\ dead = {} /\ muted = {} /\ NoneDeleted
        /\ \A u \in audience : DevicesOf(u) # {}
        /\ \A w \in Workers : ~Slow(w) /\ worker[w].at # "ended"
    BY <1>1 DEF Unhurt
  <1>3. Progress /\ Fewer /\ UNCHANGED <<dead, muted, mishaps>> /\ redis' \in {redis, TRUE}
    BY <1>1, CalmProgress
  <1>4. audience' = audience /\ device' = device /\ audience \subseteq Users
    BY <1>2, <1>3 DEF Acts, Fewer, Typed, FactTyped
  <1>5. \A u \in audience : DevicesOf(u)' # {}
    BY <1>2, <1>4 DEF DevicesOf
  <1>6. QED
    BY <1>1, <1>2, <1>3, <1>4, <1>5, CalmJob, NoneDeletedStays

\* Before the first mishap every user told has a device.
LEMMA UnsentIsOwed ==
  ASSUME Typed, Invited, Unhurt, mishaps = 0, NEW u \in Users, NEW i \in 1..Len(rows[u]),
         rows[u][i].state = "unsent"
  PROVE  Owed(u, i)
  <1>1. rows[u] # <<>>
    <2>1. Len(<<>>) = 0
      OBVIOUS
    <2>2. QED
      BY <2>1
  <1>2. DevicesOf(u) # {}
    BY <1>1 DEF Invited, Unhurt
  <1>3. QED
    BY <1>2 DEF Owed

\* What the first mishap leaves due is of this half hour.
LEMMA OwedAtMishap ==
  ASSUME Typed, Typed', Invited, Unhurt, NoneWaits, mishaps = 0,
         Disturbs \/ \E w \in Workers : Slows(w), NEW u \in Users, NEW i, Owed(u, i)'
  PROVE  i \in 1..Len(rows[u]) /\ rows'[u][i].at = rows[u][i].at /\ rows[u][i].at = clock /\ clock' = clock
  <1>1. clock' = clock
    BY CalmClock
  <1>2. i \in 1..Len(rows[u]) /\ rows'[u][i].at = rows[u][i].at /\ rows[u][i].state = "unsent"
    <2>1. i \in 1..Len(rows'[u]) /\ rows'[u][i].state = "unsent"
      BY DEF Owed
    <2>2. CASE Disturbs
      <3>1. Len(rows'[u]) = Len(rows[u])
        BY <2>2 DEF Disturbs
      <3>2. rows'[u][i].at = rows[u][i].at /\ rows'[u][i].state \in {rows[u][i].state, "deleted"}
        BY <2>1, <2>2, <3>1 DEF Disturbs
      <3>3. QED
        BY <2>1, <3>1, <3>2
    <2>3. CASE \E w \in Workers : Slows(w)
      BY <2>1, <2>3 DEF Slows
    <2>4. QED
      BY <2>2, <2>3
  <1>3. Owed(u, i)
    BY <1>2, UnsentIsOwed
  <1>4. QED
    BY <1>1, <1>2, <1>3 DEF NoneWaits

LEMMA GuardedStays ==
  ASSUME Typed, Typed', Acts, Carrying, Unhurt, Guarded
  PROVE  Guarded'
  <1> SUFFICES ASSUME mishaps' = 0
               PROVE  lock'.by = Nobody \/ \E w \in Workers : Ticking(w)' /\ Mine(w)'
    BY DEF Guarded
  <1>1. mishaps = 0 /\ (HalfHour \/ CalmActs)
    BY FirstMishap
  <1>2. redis = TRUE /\ \A w \in Workers : ~Slow(w)
    BY <1>1 DEF Unhurt
  <1>3. CASE lock.by = Nobody \/ \E w \in Workers : Ticking(w) /\ Mine(w) /\ worker'[w] = worker[w]
    <2>1. CASE lock' = NoLock
      BY <2>1 DEF NoLock
    <2>2. CASE lock' = lock
      BY <1>3, <2>2 DEF Ticking, Mine
    <2>3. ASSUME NEW w \in Workers, Opens(w), lock' = [by |-> w, until |-> clock + LockTtl],
                 worker'[w].until = clock + LockTtl
          PROVE  Ticking(w)' /\ Mine(w)'
      <3>1. worker'[w].at = "check"
        BY <2>3 DEF Opens, Turns
      <3>2. clock + LockTtl # 0
        BY ClockIs
      <3>3. QED
        BY <2>3, <3>1, <3>2 DEF Ticking, Mine
    <2>4. QED
      BY <2>1, <2>2, <2>3, LockCases
  <1>4. ASSUME NEW w \in Workers, Ticking(w), Mine(w), worker'[w] # worker[w]
        PROVE  lock'.by = Nobody \/ (Ticking(w)' /\ Mine(w)')
    <2>1. JobActs(w)
      <3>1. ~Disturbs /\ ~Slows(w)
        BY <1>1, CalmProgress DEF Disturbs, Slows
      <3>2. QED
        BY <1>4, <3>1, JobCases
    <2>2. ~Awake(w)
      BY <1>4, AwakeIs
    <2>3. CASE Checks(w)
      BY <1>4, <2>3 DEF Checks, Turns, Ticking, Mine
    <2>4. CASE Inserts(w) \/ Pushes(w) \/ Stamps(w) \/ Retries(w)
      BY <1>4, <2>4 DEF Inserts, Pushes, Stamps, Retries, Carries, MovesOn, Turns, Ticking, Mine
    <2>5. CASE Finishes(w)
      BY <1>2, <1>4, <2>5 DEF Finishes, Released, NoLock
    <2>6. QED
      BY <2>1, <2>2, <2>3, <2>4, <2>5 DEF JobActs, Opens, Skips, LoopStops
  <1>5. QED
    BY <1>1, <1>3, <1>4 DEF Guarded

\* When half an hour passes, requests are answered, and only slow ticks are under way.
LEMMA CarriedAtHalfHour ==
  ASSUME Typed, Carrying, HalfHour, NEW w \in Workers
  PROVE  /\ Carried(w) = worker[w].batch /\ (Carried(w) # {} => Slow(w))
         /\ request[w].at = "idle" /\ (Ticking(w) => Slow(w))
  <1>1. request[w] = Idle /\ (Ticking(w) => worker[w].slow)
    BY HalfHourIs
  <1>2. request[w].at = "idle"
    BY <1>1, IdleIs
  <1>3. Ticking(w) => Slow(w)
    BY <1>1, SlowIs
  <1>4. worker[w].batch # {} => Ticking(w)
    BY DEF Carrying, JobCarrying, Ticking
  <1>5. QED
    BY <1>2, <1>3, <1>4 DEF Carried

LEMMA NoneWaitsStays ==
  ASSUME Typed, Typed', Acts, Carrying, Unhurt, Held, NoneWaits
  PROVE  NoneWaits'
  <1> SUFFICES ASSUME mishaps' = 0, NEW u \in Users, NEW i, Owed(u, i)' PROVE rows'[u][i].at = clock'
    BY DEF NoneWaits
  <1>1. mishaps = 0 /\ (HalfHour \/ CalmActs)
    BY FirstMishap
  <1>2. CASE HalfHour
    <2>1. Owed(u, i)
      BY <1>2, HalfHourIs DEF Owed, DevicesOf
    <2>2. PICK w \in Workers : <<u, i>> \in Carried(w)
      BY <1>1, <2>1 DEF Held
    <2>3. QED
      BY <1>1, <1>2, <2>2, CarriedAtHalfHour DEF Unhurt
  <1>3. CASE CalmActs
    <2>1. Progress /\ Fewer /\ clock' = clock
      BY <1>3, CalmProgress, CalmClock
    <2>2. QED
      BY <1>1, <2>1, OwedBefore DEF NoneWaits
  <1>4. QED
    BY <1>1, <1>2, <1>3

LEMMA PatientStays ==
  ASSUME Typed, Typed', Acts, Unhurt, Patient
  PROVE  Patient'
  <1> SUFFICES ASSUME NEW w \in Workers, Slow(w)', mishaps' <= 1
               PROVE  NoneDeleted' /\ \A v \in Workers : Slow(v)' => v = w
    BY DEF Patient
  <1>1. mishaps <= 1
    BY FirstMishap
  <1>2. CASE HalfHour \/ CalmActs
    BY <1>1, <1>2, CalmJob, CalmProgress, NoneDeletedStays DEF Patient
  <1>3. CASE mishaps = 0 /\ Disturbs
    BY <1>3, UpsetSlow DEF Unhurt, Disturbs
  <1>4. ASSUME NEW x \in Workers, mishaps = 0, Slows(x)
        PROVE  NoneDeleted' /\ \A v \in Workers : Slow(v)' => v = w
    <2>1. \A v \in Workers \ {x} : worker'[v] = worker[v]
      BY <1>4 DEF Slows, Turns
    <2>2. \A v \in Workers : Slow(v)' => v = x
      BY <1>4, <2>1 DEF Unhurt, Slow
    <2>3. rows' = rows /\ NoneDeleted
      BY <1>4 DEF Unhurt, Slows
    <2>4. NoneDeleted'
      BY <2>3 DEF NoneDeleted
    <2>5. QED
      BY <2>2, <2>4
  <1>5. QED
    BY <1>2, <1>3, <1>4, FirstMishap

\* What a job does with the rows it carries, when none is deleted.
LEMMA JobHands ==
  ASSUME Typed, Typed', Acts, Carrying, NoneDeleted, NEW w \in Workers, JobActs(w),
         NEW u \in Users, NEW i, Owed(u, i)',
         \/ <<u, i>> \in worker[w].batch
         \/ i \notin 1..Len(rows[u])
  PROVE  <<u, i>> \in worker'[w].batch
  <1>1. /\ worker[w].batch \subseteq Written /\ ~Gone(worker[w].batch) /\ i \in 1..Len(rows'[u])
        /\ rows'[u][i].state = "unsent" /\ DevicesOf(u)' # {}
    BY NoneGone DEF Carrying, JobCarrying, Owed
  <1>2. JobCarrying(w)
    BY DEF Carrying
  <1>3. CASE UNCHANGED rows /\ <<u, i>> \notin worker[w].batch
    BY <1>1, <1>3
  <1>4. CASE Opens(w) \/ LoopStops(w) \/ Checks(w)
    BY <1>3, <1>4 DEF Opens, LoopStops, Checks, Turns
  <1>5. CASE Skips(w)
    BY <1>3, <1>5, AwakeIs DEF Skips
  <1>6. CASE Inserts(w)
    <2>1. PICK v \in Users : v = worker[w].on
      BY <1>6 DEF Inserts
    <2>2. Inserted({v}) /\ worker'[w].batch = NextRows({v}) /\ worker[w].batch = {}
      BY <1>2, <1>6, <2>1 DEF Inserts, Carries, Turns, JobCarrying
    <2>3. u = v /\ i = Len(rows[u]) + 1
      <3>1. Len(rows[u]) \in Nat
        BY RowNumbers
      <3>2. u \in {v}
        BY <1>1, <2>2, InsertedAre
      <3>3. Len(rows'[u]) = Len(rows[u]) + 1
        BY <2>2, <3>2, InsertedAre
      <3>4. QED
        BY <1>1, <2>2, <3>1, <3>2, <3>3
    <2>4. QED
      BY <2>2, <2>3 DEF NextRows
  <1>7. CASE Pushes(w)
    <2>1. CASE Carries(w, "stamp", worker[w].batch)
      BY <1>3, <1>7, <2>1 DEF Pushes, Carries, Turns
    <2>2. ASSUME NEW v \in Users, worker[w].on = v, DevicesOf(v)' = {} PROVE FALSE
      <3>1. <<u, i>> \in worker[w].batch
        BY <1>1, <1>7 DEF Pushes
      <3>2. u = v
        BY <1>2, <1>7, <2>2, <3>1 DEF Pushes, JobCarrying
      <3>3. QED
        BY <1>1, <2>2, <3>2
    <2>3. QED
      BY <1>7, <2>1, <2>2 DEF Pushes
  <1>8. CASE Stamps(w) \/ Finishes(w)
    <2>1. rows' = Stamped(worker[w].batch)
      BY <1>8 DEF Stamps, Finishes
    <2>2. Len(rows'[u]) = Len(rows[u])
      BY <1>1, <2>1, StampedAre
    <2>3. <<u, i>> \in worker[w].batch /\ i \in 1..Len(rows[u])
      BY <1>1, <2>2
    <2>4. rows'[u][i].state = "sent"
      BY <1>1, <2>1, <2>3, StampedAre
    <2>5. QED
      BY <1>1, <2>4
  <1>9. CASE Retries(w)
    <2>1. worker[w].batch = {}
      BY <1>2, <1>9 DEF Retries, JobCarrying
    <2>2. QED
      BY <1>3, <1>9, <2>1 DEF Retries
  <1>10. QED
    BY <1>4, <1>5, <1>6, <1>7, <1>8, <1>9 DEF JobActs

\* And a request.
LEMMA RequestHands ==
  ASSUME Typed, Typed', Acts, Carrying, Invited, NoneDeleted, NEW w \in Workers, RequestActs(w),
         NEW u \in Users, NEW i, Owed(u, i)',
         \/ request[w].at \in {"push", "stamp"} /\ <<u, i>> \in request[w].batch
         \/ i \notin 1..Len(rows[u])
  PROVE  request'[w].at \in {"push", "stamp"} /\ <<u, i>> \in request'[w].batch
  <1>1. i \in 1..Len(rows'[u]) /\ rows'[u][i].state = "unsent" /\ DevicesOf(u)' # {}
    BY DEF Owed
  <1>2. CASE Asks(w)
    BY <1>1, <1>2, IdleIs DEF Asks
  <1>3. CASE RequestInserts(w)
    <2>1. /\ Inserted(audience) /\ request'[w].at = "push" /\ request'[w].batch = NextRows(audience)
          /\ i \notin 1..Len(rows[u]) /\ audience \in SUBSET Users
      BY <1>3 DEF RequestInserts, Replies, Typed, FactTyped
    <2>2. u \in audience
      BY <1>1, <2>1, InsertedAre
    <2>3. Len(rows'[u]) = Len(rows[u]) + 1 /\ Len(rows[u]) \in Nat
      BY <2>1, <2>2, InsertedAre, RowNumbers
    <2>4. i = Len(rows[u]) + 1
      BY <1>1, <2>1, <2>3
    <2>5. QED
      BY <2>1, <2>2, <2>4 DEF NextRows
  <1>4. CASE RequestPushes(w)
    <2>1. request[w].at = "push" /\ rows' = rows /\ <<u, i>> \in request[w].batch
      BY <1>1, <1>4 DEF RequestPushes
    <2>2. QED
      BY <1>1, <1>4, <2>1 DEF RequestPushes, Replies
  <1>5. CASE RequestStamps(w)
    <2>1. request[w].at = "stamp" /\ rows' = Stamped(request[w].batch)
      BY <1>5 DEF RequestStamps
    <2>2. ~Gone(request[w].batch)
      BY <2>1, NoneGone DEF Carrying, RequestCarrying
    <2>3. Len(rows'[u]) = Len(rows[u])
      BY <2>1, <2>2, StampedAre
    <2>4. <<u, i>> \in request[w].batch /\ i \in 1..Len(rows[u])
      BY <1>1, <2>3
    <2>5. rows'[u][i].state = "sent"
      BY <2>1, <2>2, <2>4, StampedAre
    <2>6. QED
      BY <1>1, <2>5
  <1>6. QED
    BY <1>2, <1>3, <1>4, <1>5 DEF RequestActs

LEMMA CarriedBy ==
  ASSUME NEW w, NEW r
  PROVE  r \in Carried(w) <=> \/ r \in worker[w].batch
                              \/ request[w].at \in {"push", "stamp"} /\ r \in request[w].batch
  BY DEF Carried

LEMMA CarriedNext ==
  ASSUME NEW w, NEW r
  PROVE  r \in Carried(w)' <=> \/ r \in worker'[w].batch
                               \/ request'[w].at \in {"push", "stamp"} /\ r \in request'[w].batch
  BY DEF Carried

LEMMA CalmHands ==
  ASSUME Typed, Typed', Acts, Carrying, Invited, NoneDeleted, CalmActs, NEW u \in Users, NEW i, Owed(u, i)',
         i \in 1..Len(rows[u]) => \E w \in Workers : <<u, i>> \in Carried(w)
  PROVE  \E w \in Workers : <<u, i>> \in Carried(w)'
  <1>1. ASSUME NEW v \in Workers, JobActs(v), request' = request PROVE \E w \in Workers : <<u, i>> \in Carried(w)'
    <2>1. \A w \in Workers \ {v} : worker'[w] = worker[w]
      BY <1>1, OthersWait
    <2>2. CASE i \notin 1..Len(rows[u])
      BY <1>1, <2>2, JobHands, CarriedNext
    <2>3. ASSUME NEW w \in Workers, <<u, i>> \in Carried(w) PROVE <<u, i>> \in Carried(w)'
      <3>1. CASE w = v /\ <<u, i>> \in worker[v].batch
        BY <1>1, <3>1, JobHands, CarriedNext
      <3>2. CASE w # v \/ <<u, i>> \notin worker[v].batch
        BY <1>1, <2>1, <2>3, <3>2, CarriedBy, CarriedNext
      <3>3. QED
        BY <3>1, <3>2
    <2>4. QED
      BY <2>2, <2>3
  <1>2. ASSUME NEW v \in Workers, RequestActs(v) PROVE \E w \in Workers : <<u, i>> \in Carried(w)'
    <2>1. worker' = worker /\ \A w \in Workers \ {v} : request'[w] = request[w]
      <3>1. \E new : Replies(v, new)
        BY <1>2, Zenon DEF RequestActs, Asks, RequestInserts, RequestPushes, RequestStamps
      <3>2. QED
        BY <1>2, <3>1 DEF Replies, RequestActs
    <2>2. CASE i \notin 1..Len(rows[u])
      BY <1>2, <2>2, RequestHands, CarriedNext
    <2>3. ASSUME NEW w \in Workers, <<u, i>> \in Carried(w) PROVE <<u, i>> \in Carried(w)'
      <3>1. CASE w = v /\ <<u, i>> \notin worker[v].batch
        BY <1>2, <2>3, <3>1, RequestHands, CarriedBy, CarriedNext
      <3>2. CASE w # v \/ <<u, i>> \in worker[v].batch
        BY <1>2, <2>1, <2>3, <3>2, CarriedBy, CarriedNext
      <3>3. QED
        BY <3>1, <3>2
    <2>4. QED
      BY <2>2, <2>3
  <1>3. CASE UNCHANGED <<worker, request, rows, device>>
    BY <1>3, CarriedBy, CarriedNext DEF Owed
  <1>4. QED
    BY <1>1, <1>2, <1>3 DEF CalmActs, JobActs

LEMMA HeldStays ==
  ASSUME Typed, Typed', Acts, Carrying, Invited, Unhurt, Patient, Held
  PROVE  Held'
  <1> SUFFICES ASSUME mishaps' = 0 \/ (mishaps' = 1 /\ \E w \in Workers : Slow(w)'),
                      NEW u \in Users, NEW i, Owed(u, i)'
               PROVE  \E w \in Workers : <<u, i>> \in Carried(w)'
    BY DEF Held
  <1>1. mishaps' <= 1
    OBVIOUS
  <1>2. CASE HalfHour \/ CalmActs
    <2>1. mishaps = 0 \/ (mishaps = 1 /\ \E w \in Workers : Slow(w))
      BY <1>2, CalmJob, CalmProgress
    <2>2. NoneDeleted
      BY <1>1, <2>1 DEF Unhurt, Patient
    <2>3. CASE HalfHour
      <3>1. Owed(u, i) /\ worker' = worker /\ request' = request
        BY <2>3, HalfHourIs DEF Owed, DevicesOf
      <3>2. QED
        BY <2>1, <3>1, CarriedBy, CarriedNext DEF Held
    <2>4. CASE CalmActs
      <3>1. i \in 1..Len(rows[u]) => Owed(u, i)
        BY <2>4, CalmProgress, OwedBefore
      <3>2. i \in 1..Len(rows[u]) => \E w \in Workers : <<u, i>> \in Carried(w)
        BY <2>1, <3>1 DEF Held
      <3>3. QED
        BY <2>2, <2>4, <3>2, CalmHands
    <2>5. QED
      BY <1>2, <2>3, <2>4
  <1>3. CASE mishaps = 0 /\ mishaps' = 1 /\ Disturbs
    BY <1>3, UpsetSlow DEF Unhurt, Disturbs
  <1>4. ASSUME NEW x \in Workers, mishaps = 0, Slows(x) PROVE \E w \in Workers : <<u, i>> \in Carried(w)'
    <2>1. \A w \in Workers : worker'[w].batch = worker[w].batch /\ request'[w] = request[w]
      BY <1>4 DEF Slows, Turns
    <2>2. Owed(u, i)
      BY <1>4 DEF Slows, Owed, DevicesOf
    <2>3. QED
      BY <1>4, <2>1, <2>2, CarriedBy, CarriedNext DEF Held
  <1>5. QED
    BY <1>1, <1>2, <1>3, <1>4, FirstMishap

LEMMA AtStays ==
  ASSUME Typed, Typed', Acts, NEW u \in Users, NEW i \in 1..Len(rows[u])
  PROVE  i \in 1..Len(rows'[u]) /\ rows'[u][i].at = rows[u][i].at
  <1>1. i \in 1..Len(rows'[u])
    <2>1. rows[u] \in Seq(Row) /\ rows'[u] \in Seq(Row) /\ Len(rows[u]) <= Len(rows'[u])
      BY Longer DEF Typed, RowsTyped
    <2>2. QED
      BY <2>1
  <1>2. rows'[u][i].at = rows[u][i].at
    <2>1. CASE HalfHour \/ CalmActs
      BY <1>1, <2>1, CalmProgress DEF Progress
    <2>2. CASE Disturbs
      BY <2>2 DEF Disturbs
    <2>3. CASE \E w \in Workers : Slows(w)
      BY <2>3 DEF Slows
    <2>4. QED
      BY <2>1, <2>2, <2>3 DEF Acts
  <1>3. QED
    BY <1>1, <1>2

LEMMA CurrentStays ==
  ASSUME Typed, Typed', Acts, Carrying, Current
  PROVE  Current'
  <1> SUFFICES ASSUME NEW w \in Workers, request'[w].at \in {"push", "stamp"}, NEW u \in Users, NEW i,
                      <<u, i>> \in request'[w].batch
               PROVE  rows'[u][i].at = clock'
    BY DEF Current, RequestCurrent
  <1>1. CASE request'[w] = request[w] \/ (request[w].at \in {"push", "stamp"} /\ request'[w].batch = request[w].batch)
    <2>1. request[w].at \in {"push", "stamp"} /\ <<u, i>> \in request[w].batch
      BY <1>1
    <2>2. rows[u][i].at = clock /\ i \in 1..Len(rows[u])
      BY <2>1, WrittenIs DEF Current, RequestCurrent, Carrying, RequestCarrying
    <2>3. clock' = clock
      BY <2>1, CalmClock, CarriedAtHalfHour DEF Acts
    <2>4. QED
      BY <2>2, <2>3, AtStays
  <1>2. CASE request'[w] = Idle
    BY <1>2, IdleIs
  <1>3. CASE Asks(w)
    BY <1>3 DEF Asks, Replies
  <1>4. CASE RequestInserts(w) /\ CalmActs
    <2>1. Inserted(audience) /\ request'[w].batch = NextRows(audience) /\ audience \in SUBSET Users
      BY <1>4 DEF RequestInserts, Replies, Typed, FactTyped
    <2>2. u \in audience /\ i = Len(rows[u]) + 1
      BY <2>1 DEF NextRows
    <2>3. QED
      BY <1>4, <2>1, <2>2, InsertedAre, CalmClock
  <1>5. CASE RequestPushes(w)
    BY <1>1, <1>2, <1>5 DEF RequestPushes, Replies
  <1>6. CASE RequestStamps(w)
    BY <1>2, <1>6 DEF RequestStamps, Replies
  <1>7. QED
    BY <1>1, <1>2, <1>3, <1>4, <1>5, <1>6, RequestCases DEF RequestActs

\* A tick does not come to carry a deleted row by a calm step.
LEMMA CalmGone ==
  ASSUME Typed, Typed', Acts, Carrying, HalfHour \/ CalmActs, NEW w \in Workers, Gone(worker[w].batch)'
  PROVE  Gone(worker[w].batch)
  <1>1. \E r \in worker'[w].batch : rows'[r[1]][r[2]].state = "deleted"
    BY DEF Gone
  <1>2. worker[w].batch \subseteq Written
    BY DEF Carrying, JobCarrying
  <1>3. CASE worker'[w].batch = worker[w].batch
    BY <1>1, <1>2, <1>3, CalmProgress, GoneBefore
  <1>4. CASE Inserts(w)
    <2>1. PICK v \in Users : v = worker[w].on
      BY <1>4 DEF Inserts
    <2>2. Inserted({v}) /\ worker'[w].batch = NextRows({v})
      BY <1>4, <2>1 DEF Inserts, Carries, Turns
    <2>3. worker'[w].batch = {<<v, Len(rows[v]) + 1>>}
      BY <2>2 DEF NextRows
    <2>4. rows'[v][Len(rows[v]) + 1].state = "unsent"
      BY <2>2, InsertedAre
    <2>5. QED
      BY <1>1, <2>3, <2>4
  <1>5. CASE Retries(w)
    <2>1. rows' = rows /\ \A r \in worker'[w].batch : rows[r[1]][r[2]].state = "unsent"
      BY <1>5 DEF Retries, Carries, Turns
    <2>2. QED
      BY <1>1, <2>1
  <1>6. CASE worker'[w].batch = {}
    BY <1>1, <1>6
  <1>7. CASE Opens(w) \/ LoopStops(w) \/ Checks(w)
    BY <1>3, <1>7 DEF Opens, LoopStops, Checks, Turns
  <1>8. CASE Skips(w) \/ Finishes(w)
    BY <1>6, <1>8 DEF Skips, Finishes, Sleeps, Turns
  <1>9. CASE Pushes(w) \/ Stamps(w)
    BY <1>3, <1>6, <1>9 DEF Pushes, Stamps, Carries, MovesOn, Turns
  <1>10. ~Disturbs /\ ~Slows(w)
    <2>1. mishaps' = mishaps /\ mishaps \in Nat
      BY CalmProgress, ClockIs
    <2>2. QED
      BY <2>1 DEF Disturbs, Slows
  <1>11. QED
    BY <1>3, <1>4, <1>5, <1>7, <1>8, <1>9, <1>10, JobCases DEF JobActs

\* Nor does half an hour pass while one is carried.
LEMMA GoneAtHalfHour ==
  ASSUME Typed, Carrying, Patient, mishaps <= 1, HalfHour, NEW w \in Workers, Gone(worker[w].batch)
  PROVE  FALSE
  <1>1. worker[w].batch # {}
    BY DEF Gone
  <1>2. Slow(w)
    BY <1>1, CarriedAtHalfHour
  <1>3. NoneDeleted /\ worker[w].batch \subseteq Written
    BY <1>2 DEF Patient, Carrying, JobCarrying
  <1>4. QED
    BY <1>3, NoneGone

LEMMA RecentStays ==
  ASSUME Typed, Typed', Acts, Carrying, Invited, Unhurt, NoneWaits, Patient, Recent
  PROVE  Recent'
  <1> SUFFICES ASSUME mishaps' <= 1, NEW w \in Workers, Gone(worker[w].batch)',
                      NEW u \in Users, NEW i, Owed(u, i)'
               PROVE  rows'[u][i].at = clock'
    BY DEF Recent
  <1>1. mishaps <= 1
    BY FirstMishap
  <1>2. CASE HalfHour \/ CalmActs
    <2>1. Gone(worker[w].batch)
      BY <1>2, CalmGone
    <2>2. CalmActs /\ clock' = clock
      BY <1>1, <1>2, <2>1, GoneAtHalfHour, CalmClock
    <2>3. QED
      BY <1>1, <2>1, <2>2, CalmProgress, OwedBefore DEF Recent
  <1>3. CASE mishaps = 0 /\ (Disturbs \/ \E v \in Workers : Slows(v))
    BY <1>3, OwedAtMishap
  <1>4. QED
    BY <1>2, <1>3, FirstMishap

-----------------------------------------------------------------------------
(* No push is lost: whoever fails to send it, another tick opens in time.    *)

\* At most one mishap, and no job has ended.
Steady == mishaps <= 1 /\ \A w \in Workers : worker[w].at # "ended"

LockFree == lock.by = Nobody \/ lock.until < clock

\* A tick is about to open.
Waiting ==
    /\ LockFree
    /\ \E w \in Workers : worker[w].at = "starting" \/ (worker[w].at = "asleep" /\ worker[w].wake <= clock)

\* The tick of w has yet to push the row again, or has just done so.
Rescuer(w, u, i) == Ticking(w) /\ ~Slow(w) /\ (worker[w].at = "commit" => <<u, i>> \in worker[w].batch)

\* The only job there is takes longer.
Alone == \E w \in Workers : Workers = {w} /\ Slow(w)

SavedSoon(a) == clock <= a + 2 /\ (lock.by = Nobody \/ lock.until <= a + 2)

Saved(u, i) ==
    \/ SavedSoon(rows[u][i].at)
    \/ clock <= rows[u][i].at + 3 /\ (Waiting \/ \E w \in Workers : Rescuer(w, u, i))
    \/ Alone

Rescued == Steady => \A u \in Users : \A i : Owed(u, i) => Saved(u, i)

LEMMA SteadyBefore ==
  ASSUME Typed, Typed', Acts, Unhurt, Steady'
  PROVE  Steady
  <1>1. mishaps <= 1
    BY FirstMishap DEF Steady
  <1>2. CASE HalfHour \/ CalmActs
    BY <1>1, <1>2, CalmJob DEF Steady
  <1>3. CASE mishaps = 0
    BY <1>1, <1>3 DEF Unhurt, Steady
  <1>4. QED
    BY <1>2, <1>3, FirstMishap DEF Steady

\* What is due of this half hour has time.
LEMMA SavedNow ==
  ASSUME Typed, Typed', Timed', NEW u \in Users, NEW i, Owed(u, i)', rows'[u][i].at = clock'
  PROVE  Saved(u, i)'
  <1>1. lock'.until <= clock' + LockTtl /\ LockTtl = 2
    <2>1. LockTtl = 2 /\ LockTtl' = LockTtl
      BY ClockIs DEF LockTtl
    <2>2. QED
      BY <2>1 DEF Timed
  <1>2. clock' \in Nat
    <2>1. rows'[u] \in Seq(Row) /\ i \in 1..Len(rows'[u])
      BY DEF Typed, RowsTyped, Owed
    <2>2. QED
      BY <2>1, ListIs
  <1>3. clock' <= clock' + 2
    <2>1. \A n \in Nat : n <= n + 2
      OBVIOUS
    <2>2. QED
      BY <1>2, <2>1, Zenon
  <1>4. lock'.until <= clock' + 2
    BY <1>1
  <1>5. clock' <= rows'[u][i].at + 2 /\ lock'.until <= rows'[u][i].at + 2
    BY <1>3, <1>4
  <1>6. QED
    BY <1>5 DEF Saved, SavedSoon

\* When half an hour passes and the lock has run out, a tick opens, unless there is but one job.
LEMMA NextHalf ==
  ASSUME Typed, Typed', Carrying, Timed, Patient, Steady, HalfHour, lock.by = Nobody \/ lock.until <= clock
  PROVE  Waiting' \/ Alone'
  <1>1. /\ UNCHANGED <<worker, lock, mishaps>> /\ clock' = clock + 1
        /\ \A w \in Workers : request[w] = Idle /\ ~Awake(w) /\ (Ticking(w) => Slow(w))
    BY HalfHourIs, SlowIs
  <1>2. clock \in Nat /\ lock.until \in Nat
    BY ClockIs
  <1>3. LockFree'
    BY <1>1, <1>2 DEF LockFree
  <1>4. CASE \E w \in Workers : ~Ticking(w)
    <2>1. PICK w \in Workers : ~Ticking(w)
      BY <1>4
    <2>2. worker[w].at # "starting"
      BY <1>1 DEF Awake
    <2>3. worker[w].at \in Places
      <3>1. worker[w] \in Worker
        BY ClientIs DEF Typed
      <3>2. QED
        BY <3>1, WorkerIs
    <2>4. worker[w].at = "asleep"
      BY <2>1, <2>2, <2>3 DEF Steady, Ticking, Places
    <2>5. worker[w].wake <= clock + 1
      BY <2>4 DEF Timed, JobTimed
    <2>6. QED
      BY <1>1, <1>3, <2>4, <2>5 DEF Waiting
  <1>5. CASE \A w \in Workers : Ticking(w)
    <2>1. PICK w \in Workers : Slow(w)
      BY <1>1, <1>5, NotificationConstantsOK
    <2>2. \A v \in Workers : v = w
      BY <1>1, <1>5, <2>1 DEF Patient, Steady
    <2>3. Workers = {w}
      BY <2>2
    <2>4. QED
      BY <1>1, <2>1, <2>3 DEF Alone, Slow
  <1>6. QED
    BY <1>4, <1>5

LEMMA WaitingActs ==
  ASSUME Typed, Typed', Acts, Carrying, Waiting, CalmActs, Steady',
         ~ \E v \in Workers : Opens(v)
  PROVE  Waiting'
  <1>1. clock' = clock /\ clock \in Nat /\ lock.until \in Nat
    BY CalmClock, ClockIs
  <1>2. LockFree'
    <2>1. lock' \in {lock, NoLock}
      BY LockCases
    <2>2. QED
      BY <1>1, <2>1 DEF Waiting, LockFree, NoLock
  <1>3. PICK w \in Workers : worker[w].at = "starting" \/ (worker[w].at = "asleep" /\ worker[w].wake <= clock)
    BY DEF Waiting
  <1>4. ~JobActs(w) \/ worker'[w] = worker[w]
    <2>1. ~Ticking(w)
      BY <1>3 DEF Ticking
    <2>2. ~Skips(w)
      <3>1. lock.by = Nobody \/ (~(clock < lock.until) /\ clock # lock.until)
        BY <1>1 DEF Waiting, LockFree
      <3>2. Taken = {FALSE}
        BY <3>1, Zenon DEF Taken, Before
      <3>3. QED
        BY <3>2 DEF Skips
    <2>3. ~LoopStops(w)
      BY DEF LoopStops, Turns, Steady
    <2>4. QED
      BY <1>3, <2>1, <2>2, <2>3 DEF JobActs, Checks, Inserts, Pushes, Stamps, Finishes, Retries
  <1>5. ~Disturbs /\ ~Slows(w)
    <2>1. mishaps' = mishaps /\ mishaps \in Nat
      BY CalmProgress, ClockIs
    <2>2. QED
      BY <2>1 DEF Disturbs, Slows
  <1>6. worker'[w] = worker[w]
    BY <1>4, <1>5, JobCases
  <1>7. QED
    BY <1>1, <1>2, <1>3, <1>6 DEF Waiting

LEMMA OpensRescues ==
  ASSUME Typed, Carrying, NEW w \in Workers, Opens(w)
  PROVE  Ticking(w)' /\ ~Slow(w)' /\ worker'[w].at = "check"
  <1>1. ~Slow(w)
    BY AwakeIs DEF Opens
  <1>2. QED
    BY <1>1 DEF Opens, Turns, Ticking, Slow

LEMMA RescuerActs ==
  ASSUME Typed, Typed', Acts, Carrying, Recent, CalmActs, Steady, NEW w \in Workers,
         NEW u \in Users, NEW i, Owed(u, i), Owed(u, i)', rows'[u][i].at = rows[u][i].at,
         Rescuer(w, u, i), clock <= rows[u][i].at + 3
  PROVE  Rescuer(w, u, i)' \/ rows'[u][i].at = clock'
  <1>1. Ticking(w) /\ ~Slow(w) /\ ~Awake(w)
    BY AwakeIs DEF Rescuer
  <1>2. CASE worker'[w] = worker[w]
    BY <1>2 DEF Rescuer, Ticking, Slow
  <1>3. CASE Checks(w)
    BY <1>1, <1>3 DEF Checks, Turns, Rescuer, Ticking, Slow
  <1>4. CASE Inserts(w) \/ Pushes(w) \/ Stamps(w)
    BY <1>1, <1>4 DEF Inserts, Pushes, Stamps, Carries, MovesOn, Turns, Rescuer, Ticking, Slow
  <1>5. CASE Retries(w)
    <2>1. i \in 1..Len(rows[u]) /\ rows[u][i].state = "unsent" /\ DevicesOf(u)' # {} /\ rows[u][i].at \in Nat
          /\ clock \in Nat
      BY RowNumbers DEF Owed
    <2>2. clock < rows[u][i].at + RetryWindow
      BY <2>1 DEF RetryWindow
    <2>3. worker'[w].at = "commit" /\ <<u, i>> \in worker'[w].batch /\ worker'[w].slow = worker[w].slow
      BY <1>5, <2>1, <2>2 DEF Retries, Carries, Turns
    <2>4. QED
      BY <1>1, <2>3 DEF Rescuer, Ticking, Slow
  <1>6. CASE Finishes(w)
    <2>1. CASE Gone(worker[w].batch)
      BY <2>1, CalmClock DEF Recent, Steady
    <2>2. CASE ~Gone(worker[w].batch)
      <3>1. <<u, i>> \in worker[w].batch /\ rows' = Stamped(worker[w].batch) /\ i \in 1..Len(rows[u])
        BY <1>6, <2>2 DEF Finishes, Rescuer, Owed
      <3>2. rows'[u][i].state = "sent"
        BY <2>2, <3>1, StampedAre
      <3>3. QED
        BY <3>2 DEF Owed
    <2>3. QED
      BY <2>1, <2>2
  <1>7. ~Disturbs /\ ~Slows(w)
    <2>1. mishaps' = mishaps /\ mishaps \in Nat
      BY CalmProgress, ClockIs
    <2>2. QED
      BY <2>1 DEF Disturbs, Slows
  <1>8. QED
    BY <1>1, <1>2, <1>3, <1>4, <1>5, <1>6, <1>7, JobCases DEF JobActs, Opens, Skips, LoopStops

\* The only job's slow tick ends with the stamp of the pushes it carries.
LEMMA AloneActs ==
  ASSUME Typed, Typed', Acts, Carrying, Unhurt, Patient, Held, Current, CalmActs, Steady, Alone,
         NEW u \in Users, NEW i, Owed(u, i), Owed(u, i)', rows'[u][i].at = rows[u][i].at
  PROVE  Alone' \/ rows'[u][i].at = clock'
  <1>1. PICK w \in Workers : Workers = {w} /\ Slow(w)
    BY DEF Alone
  <1>2. ~Awake(w) /\ NoneDeleted /\ clock' = clock
    BY <1>1, AwakeIs, CalmClock DEF Patient, Steady
  <1>3. CASE Slow(w)'
    BY <1>1, <1>3 DEF Alone
  <1>4. CASE ~Slow(w)'
    <2>1. Finishes(w)
      <3>1. ~Disturbs /\ ~Slows(w)
        <4>1. mishaps' = mishaps /\ mishaps \in Nat
          BY CalmProgress, ClockIs
        <4>2. QED
          BY <4>1 DEF Disturbs, Slows
      <3>2. worker'[w] # worker[w]
        BY <1>1, <1>4 DEF Slow
      <3>3. ~Checks(w)
        BY <1>1, <1>4 DEF Checks, Turns, Slow
      <3>4. ~Inserts(w) /\ ~Pushes(w) /\ ~Stamps(w) /\ ~Retries(w)
        BY <1>1, <1>4 DEF Inserts, Pushes, Stamps, Retries, Carries, MovesOn, Turns, Slow
      <3>5. QED
        BY <1>2, <3>1, <3>2, <3>3, <3>4, JobCases DEF JobActs, Opens, Skips, LoopStops
    <2>2. mishaps = 0 \/ mishaps = 1
      BY ClockIs DEF Steady
    <2>3. <<u, i>> \in Carried(w)
      BY <1>1, <2>2 DEF Held
    <2>4. CASE <<u, i>> \in worker[w].batch
      <3>1. ~Gone(worker[w].batch) /\ rows' = Stamped(worker[w].batch) /\ i \in 1..Len(rows[u])
        BY <1>2, <2>1, NoneGone DEF Carrying, JobCarrying, Finishes, Owed
      <3>2. rows'[u][i].state = "sent"
        BY <2>4, <3>1, StampedAre
      <3>3. QED
        BY <3>2 DEF Owed
    <2>5. CASE <<u, i>> \notin worker[w].batch
      BY <1>2, <2>3, <2>5, CarriedBy DEF Current, RequestCurrent
    <2>6. QED
      BY <2>4, <2>5
  <1>5. QED
    BY <1>3, <1>4

LEMMA SavedActs ==
  ASSUME Typed, Typed', Acts, Carrying, Timed', Unhurt, Patient, Held, Current, Recent, CalmActs, Steady, Steady',
         NEW u \in Users, NEW i, Owed(u, i), Owed(u, i)', rows'[u][i].at = rows[u][i].at, Saved(u, i)
  PROVE  Saved(u, i)'
  <1>1. clock' = clock /\ clock \in Nat /\ lock.until \in Nat /\ rows[u][i].at \in Nat
    BY CalmClock, ClockIs, RowNumbers DEF Owed
  <1>2. CASE rows'[u][i].at = clock'
    BY <1>2, SavedNow
  <1>3. CASE Alone
    BY <1>2, <1>3, AloneActs DEF Saved
  <1>4. CASE clock <= rows[u][i].at + 3 /\ \E w \in Workers : Opens(w)
    <2>1. PICK w \in Workers : Opens(w)
      BY <1>4
    <2>2. Rescuer(w, u, i)'
      BY <2>1, OpensRescues DEF Rescuer
    <2>3. QED
      BY <1>1, <1>4, <2>2 DEF Saved
  <1>5. CASE SavedSoon(rows[u][i].at)
    <2>1. clock <= rows[u][i].at + 3
      BY <1>1, <1>5 DEF SavedSoon
    <2>2. CASE lock' \in {lock, NoLock}
      BY <1>1, <1>5, <2>2 DEF Saved, SavedSoon, NoLock
    <2>3. QED
      BY <1>4, <2>1, <2>2, LockCases
  <1>6. ASSUME clock <= rows[u][i].at + 3, Waiting, ~ \E w \in Workers : Opens(w) PROVE Saved(u, i)'
    BY <1>1, <1>6, WaitingActs DEF Saved
  <1>7. ASSUME clock <= rows[u][i].at + 3, NEW w \in Workers, Rescuer(w, u, i) PROVE Saved(u, i)'
    <2>1. Rescuer(w, u, i)' \/ rows'[u][i].at = clock'
      BY <1>7, RescuerActs
    <2>2. QED
      BY <1>1, <1>2, <1>7, <2>1 DEF Saved
  <1>8. QED
    BY <1>3, <1>4, <1>5, <1>6, <1>7 DEF Saved

LEMMA SavedAtHalfHour ==
  ASSUME Typed, Typed', Carrying, Timed, Patient, Steady, HalfHour, NEW u \in Users, NEW i, Owed(u, i), Saved(u, i)
  PROVE  Saved(u, i)'
  <1>1. /\ clock' = clock + 1 /\ clock \in Nat /\ lock.until \in Nat /\ rows[u][i].at \in Nat
        /\ UNCHANGED <<worker, lock, rows>>
    BY HalfHourIs, ClockIs, RowNumbers DEF Owed
  <1>2. CASE Alone
    BY <1>1, <1>2 DEF Saved, Alone, Slow
  <1>3. CASE SavedSoon(rows[u][i].at)
    <2>1. CASE clock < rows[u][i].at + 2
      <3>1. clock' <= rows[u][i].at + 2
        BY <1>1, <2>1
      <3>2. QED
        BY <1>1, <1>3, <3>1 DEF Saved, SavedSoon
    <2>2. CASE clock = rows[u][i].at + 2
      <3>1. lock.by = Nobody \/ lock.until <= clock
        BY <1>3, <2>2 DEF SavedSoon
      <3>2. clock' <= rows'[u][i].at + 3
        BY <1>1, <2>2
      <3>3. QED
        BY <3>1, <3>2, NextHalf DEF Saved
    <2>3. QED
      BY <1>1, <1>3, <2>1, <2>2 DEF SavedSoon
  <1>4. ~Waiting
    BY HalfHourIs DEF Waiting, Awake
  <1>5. \A w \in Workers : ~Rescuer(w, u, i)
    BY CarriedAtHalfHour DEF Rescuer
  <1>6. QED
    BY <1>2, <1>3, <1>4, <1>5 DEF Saved

LEMMA RescuedStays ==
  ASSUME Typed, Typed', Acts, Carrying, Invited, Timed, Timed', Unhurt, NoneWaits, Patient, Held, Current, Recent,
         Rescued
  PROVE  Rescued'
  <1> SUFFICES ASSUME Steady', NEW u \in Users, NEW i, Owed(u, i)' PROVE Saved(u, i)'
    BY DEF Rescued
  <1>1. Steady /\ mishaps' <= 1
    BY SteadyBefore DEF Steady
  <1>2. CASE HalfHour
    <2>1. Owed(u, i)
      BY <1>2, HalfHourIs DEF Owed, DevicesOf
    <2>2. QED
      BY <1>1, <1>2, <2>1, SavedAtHalfHour DEF Rescued
  <1>3. CASE CalmActs
    <2>1. CASE Owed(u, i) /\ rows'[u][i].at = rows[u][i].at
      BY <1>1, <1>3, <2>1, SavedActs DEF Rescued
    <2>2. CASE rows'[u][i].at = clock
      BY <1>3, <2>2, SavedNow, CalmClock
    <2>3. QED
      BY <1>3, <2>1, <2>2, CalmProgress, OwedBefore
  <1>4. CASE mishaps = 0 /\ (Disturbs \/ \E w \in Workers : Slows(w))
    BY <1>4, OwedAtMishap, SavedNow
  <1>5. QED
    BY <1>1, <1>2, <1>3, <1>4, FirstMishap

-----------------------------------------------------------------------------
(* Everyone is told: the tick of the half hour in which the event is due      *)
(* tells each recipient, or one of the ticks that follow it does.             *)

Untold(u) == u \in audience \ muted /\ rows[u] = <<>>

\* The tick of w will tell u.
Teller(w, u) ==
    Ticking(w) /\ ~Slow(w) /\ (u \in worker[w].todo \/ (worker[w].at = "insert" /\ worker[w].on = u))

Served(u) == Waiting \/ \E w \in Workers : Teller(w, u)

\* The kinds that are due for hours.
Lasting == kind \in {"departure", "morning"} /\ \E v, w \in Workers : v # w

ToldInTime(u) == clock <= 2 /\ (clock = 2 => Served(u))

ToldLater(u) ==
    \/ clock <= 2
    \/ clock <= 4 /\ (lock.by = Nobody \/ lock.until <= 4)
    \/ clock <= 5 /\ Served(u)

Informed ==
    Steady /\ kind \notin Requested => \A u \in Users : Untold(u) =>
        (mishaps = 0 => ToldInTime(u)) /\ (Lasting => ToldLater(u))

\* A deleted row ends a tick only while all is in time.
Early ==
    mishaps <= 1 /\ kind \notin Requested => \A w \in Workers : Gone(worker[w].batch) =>
        \A u \in Users : Untold(u) => clock <= 2

LEMMA DueIs ==
  ASSUME Typed, kind \notin Requested, clock = 2 \/ (Lasting /\ clock \in 2..5)
  PROVE  Due = {TRUE}
  <1>1. clock \in Nat /\ Starts < clock /\ clock < Ends
    <2>1. kind \in {"departure", "flight", "morning", "activity"}
      <3>1. kind \in DOMAIN Width
        BY NotificationConstantsOK DEF Typed, FactTyped
      <3>2. QED
        BY <3>1 DEF Width, Requested
    <2>2. Width[kind] \in {48, 2, 6} /\ (Lasting => Width[kind] \in {48, 6})
      BY <2>1 DEF Width, Lasting
    <2>3. clock \in 2..5 /\ (clock = 2 \/ Width[kind] \in {48, 6})
      BY <2>2
    <2>4. QED
      BY <2>2, <2>3 DEF Starts, Ends
  <1>2. ~(Ends < clock) /\ Ends # clock
    <2>1. Ends \in Nat
      <3>1. Width[kind] \in 1..48
        BY WidthIs DEF Typed, FactTyped
      <3>2. QED
        BY <3>1 DEF Ends, Starts
    <2>2. QED
      BY <1>1, <2>1
  <1>3. Before(Starts, clock) = {TRUE} /\ Before(Ends, clock) = {FALSE}
    BY <1>1, <1>2, Zenon DEF Before
  <1>4. ASSUME NEW x \in Due PROVE x = TRUE
    <2>1. PICK begun \in Before(Starts, clock), over \in Before(Ends, clock) : x = (begun /\ ~over)
      BY DEF Due
    <2>2. begun = TRUE /\ over = FALSE
      BY <1>3
    <2>3. QED
      BY <2>1, <2>2
  <1>5. TRUE \in Due
    <2>1. PICK begun \in Before(Starts, clock), over \in Before(Ends, clock) : begun = TRUE /\ over = FALSE
      BY <1>3
    <2>2. (begun /\ ~over) \in Due
      BY DEF Due
    <2>3. (begun /\ ~over) = TRUE
      BY <2>1
    <2>4. QED
      BY <2>2, <2>3, Zenon
  <1>6. QED
    BY <1>4, <1>5

LEMMA OpensTells ==
  ASSUME Typed, Typed', Acts, Carrying, kind \notin Requested, clock = 2 \/ (Lasting /\ clock \in 2..5),
         NEW w \in Workers, Opens(w), NEW u \in Users, Untold(u)
  PROVE  Teller(w, u)'
  <1>1. worker'[w].todo = audience
    BY DueIs DEF Opens, Turns
  <1>2. QED
    BY <1>1, OpensRescues DEF Teller, Untold

LEMMA UntoldBefore ==
  ASSUME Typed, Typed', Acts, Unhurt, NEW u \in Users, Untold(u)', (HalfHour \/ CalmActs) \/ mishaps = 0
  PROVE  Untold(u)
  <1>1. rows[u] = <<>> /\ audience' = audience
    BY Longer DEF Untold, Acts
  <1>2. u \in audience
    BY <1>1 DEF Untold
  <1>3. u \notin muted
    <2>1. CASE HalfHour \/ CalmActs
      BY <2>1, CalmProgress DEF Untold
    <2>2. CASE mishaps = 0
      BY <2>2 DEF Unhurt
    <2>3. QED
      BY <2>1, <2>2
  <1>4. QED
    BY <1>1, <1>2, <1>3 DEF Untold

LEMMA TellerActs ==
  ASSUME Typed, Typed', Acts, Carrying, Invited, CalmActs, NEW w \in Workers, NEW u \in Users,
         Untold(u), Untold(u)', Teller(w, u)
  PROVE  Teller(w, u)' \/ Gone(worker[w].batch)
  <1>1. Ticking(w) /\ ~Slow(w) /\ ~Awake(w) /\ JobInvited(w)
    BY AwakeIs DEF Teller, Invited
  <1>2. CASE worker'[w] = worker[w]
    BY <1>2 DEF Teller, Ticking, Slow
  <1>3. CASE Checks(w)
    <2>1. u \in worker[w].todo /\ u \notin muted /\ rows[u] = <<>>
      BY <1>3 DEF Checks, Teller, Untold
    <2>2. PICK x \in worker[w].todo :
            /\ worker'[w].at \in {"check", "insert"} /\ worker'[w].todo = worker[w].todo \ {x}
            /\ worker'[w].slow = worker[w].slow
            /\ worker'[w].at = "insert" => worker'[w].on = x
            /\ x \notin muted /\ rows[x] = <<>> => worker'[w].at = "insert"
      BY <1>3 DEF Checks, Turns
    <2>3. QED
      BY <1>1, <2>1, <2>2 DEF Teller, Ticking, Slow
  <1>4. CASE Inserts(w)
    <2>1. PICK v \in Users : v = worker[w].on
      BY <1>4 DEF Inserts
    <2>2. Inserted({v}) /\ worker'[w].todo = worker[w].todo /\ worker'[w].at = "push"
          /\ worker'[w].slow = worker[w].slow
      BY <1>4, <2>1 DEF Inserts, Carries, Turns
    <2>3. u # v
      <3>1. rows'[v] # <<>>
        <4>1. Len(rows'[v]) = Len(rows[v]) + 1 /\ Len(rows[v]) \in Nat
          BY <2>2, InsertedAre, RowNumbers
        <4>2. Len(<<>>) = 0
          OBVIOUS
        <4>3. QED
          BY <4>1, <4>2
      <3>2. QED
        BY <3>1 DEF Untold
    <2>4. u \in worker[w].todo
      BY <2>1, <2>3 DEF Teller
    <2>5. QED
      BY <1>1, <2>2, <2>4 DEF Teller, Ticking, Slow
  <1>5. CASE Pushes(w) \/ Stamps(w)
    BY <1>1, <1>5 DEF Pushes, Stamps, Carries, MovesOn, Turns, Teller, Ticking, Slow
  <1>6. CASE Retries(w)
    BY <1>6 DEF Retries, Teller
  <1>7. CASE Finishes(w)
    BY <1>1, <1>7 DEF Finishes, Teller, JobInvited
  <1>8. ~Disturbs /\ ~Slows(w)
    <2>1. mishaps' = mishaps /\ mishaps \in Nat
      BY CalmProgress, ClockIs
    <2>2. QED
      BY <2>1 DEF Disturbs, Slows
  <1>9. QED
    BY <1>1, <1>2, <1>3, <1>4, <1>5, <1>6, <1>7, <1>8, JobCases DEF JobActs, Opens, Skips, LoopStops

\* Who is served stays so, unless a deleted row ends the tick.
LEMMA ServedActs ==
  ASSUME Typed, Typed', Acts, Carrying, Invited, CalmActs, Steady', kind \notin Requested,
         clock = 2 \/ (Lasting /\ clock \in 2..5), NEW u \in Users, Untold(u), Untold(u)', Served(u)
  PROVE  Served(u)' \/ \E w \in Workers : Gone(worker[w].batch)
  <1>1. CASE \E w \in Workers : Opens(w)
    BY <1>1, OpensTells DEF Served
  <1>2. CASE Waiting /\ ~ \E w \in Workers : Opens(w)
    BY <1>2, WaitingActs DEF Served
  <1>3. ASSUME NEW w \in Workers, Teller(w, u) PROVE Served(u)' \/ Gone(worker[w].batch)
    BY <1>3, TellerActs DEF Served
  <1>4. QED
    BY <1>1, <1>2, <1>3 DEF Served

LEMMA NotServedAtHalfHour ==
  ASSUME Typed, Carrying, HalfHour, NEW u
  PROVE  ~Served(u)
  <1>1. ~Waiting
    BY HalfHourIs DEF Waiting, Awake
  <1>2. \A w \in Workers : ~Teller(w, u)
    BY CarriedAtHalfHour DEF Teller
  <1>3. QED
    BY <1>1, <1>2 DEF Served

LEMMA InTimeStays ==
  ASSUME Typed, Typed', Acts, Carrying, Invited, Timed, Unhurt, Unhurt', Guarded, Patient, Steady, Steady',
         kind \notin Requested, mishaps' = 0, NEW u \in Users, Untold(u), Untold(u)', ToldInTime(u)
  PROVE  ToldInTime(u)'
  <1>1. mishaps = 0 /\ (HalfHour \/ CalmActs) /\ clock \in Nat /\ mishaps' <= 1
    BY FirstMishap, ClockIs DEF Steady
  <1>2. CASE HalfHour
    <2>1. clock < 2 /\ clock' = clock + 1
      BY <1>1, <1>2, NotServedAtHalfHour, HalfHourIs DEF ToldInTime
    <2>2. lock.by = Nobody
      BY <1>1, <1>2, CarriedAtHalfHour DEF Guarded, Unhurt
    <2>3. Waiting' \/ Alone'
      BY <1>2, <2>2, NextHalf
    <2>4. ~Alone'
      BY DEF Unhurt, Alone
    <2>5. QED
      BY <1>1, <2>1, <2>3, <2>4 DEF ToldInTime, Served
  <1>3. CASE CalmActs
    <2>1. clock' = clock
      BY <1>3, CalmClock
    <2>2. \A w \in Workers : ~Gone(worker[w].batch)
      BY <1>1, NoneGone DEF Unhurt, Carrying, JobCarrying
    <2>3. clock = 2 => Served(u)'
      BY <1>3, <2>2, ServedActs DEF ToldInTime
    <2>4. QED
      BY <2>1, <2>3 DEF ToldInTime
  <1>4. QED
    BY <1>1, <1>2, <1>3

LEMMA LaterStays ==
  ASSUME Typed, Typed', Acts, Carrying, Invited, Timed, Patient, Early, Steady, Steady',
         kind \notin Requested, Lasting, HalfHour \/ CalmActs, NEW u \in Users, Untold(u), Untold(u)', ToldLater(u)
  PROVE  ToldLater(u)'
  <1>1. clock \in Nat /\ lock.until \in Nat /\ lock.until <= clock + 2
    BY ClockIs DEF Timed
  <1>2. CASE HalfHour
    <2>1. clock' = clock + 1 /\ lock' = lock /\ worker' = worker
      BY <1>2, HalfHourIs
    <2>2. CASE clock < 2
      BY <1>1, <2>1, <2>2 DEF ToldLater
    <2>3. CASE clock <= 3 /\ (lock.by = Nobody \/ lock.until <= 4)
      BY <1>1, <2>1, <2>3 DEF ToldLater
    <2>4. CASE clock = 4 /\ (lock.by = Nobody \/ lock.until <= 4)
      <3>1. ~Alone'
        BY <2>1 DEF Alone, Lasting
      <3>2. Waiting'
        BY <1>2, <2>4, <3>1, NextHalf
      <3>3. QED
        BY <1>1, <2>1, <2>4, <3>2 DEF ToldLater, Served
    <2>5. clock <= 2 \/ (clock <= 4 /\ (lock.by = Nobody \/ lock.until <= 4))
      BY <1>2, NotServedAtHalfHour DEF ToldLater
    <2>6. QED
      BY <1>1, <2>2, <2>3, <2>4, <2>5
  <1>3. CASE CalmActs
    <2>1. clock' = clock
      BY <1>3, CalmClock
    <2>2. CASE clock <= 2
      BY <2>1, <2>2 DEF ToldLater
    <2>3. CASE clock \in 3..5 /\ Served(u)
      <3>1. \A w \in Workers : ~Gone(worker[w].batch)
        BY <1>1, <2>3 DEF Early, Steady
      <3>2. clock \in 2..5
        BY <2>3
      <3>3. Served(u)'
        BY <1>3, <2>3, <3>1, <3>2, ServedActs
      <3>4. QED
        BY <2>1, <2>3, <3>3 DEF ToldLater
    <2>4. CASE clock \in 3..4 /\ (lock.by = Nobody \/ lock.until <= 4)
      <3>1. CASE lock' \in {lock, NoLock}
        BY <1>1, <2>1, <2>4, <3>1 DEF ToldLater, NoLock
      <3>2. ASSUME NEW w \in Workers, Opens(w) PROVE ToldLater(u)'
        <4>1. clock \in 2..5 /\ clock <= 5
          BY <2>4
        <4>2. Teller(w, u)'
          BY <3>2, <4>1, OpensTells
        <4>3. QED
          BY <2>1, <4>1, <4>2 DEF ToldLater, Served
      <3>3. QED
        BY <3>1, <3>2, LockCases
    <2>5. QED
      BY <1>1, <2>2, <2>3, <2>4 DEF ToldLater
  <1>4. QED
    BY <1>2, <1>3

LEMMA InformedStays ==
  ASSUME Typed, Typed', Acts, Carrying, Invited, Timed, Unhurt, Unhurt', Guarded, Patient, Early, Informed
  PROVE  Informed'
  <1> SUFFICES ASSUME Steady', kind' \notin Requested, NEW u \in Users, Untold(u)'
               PROVE  (mishaps' = 0 => ToldInTime(u)') /\ (Lasting' => ToldLater(u)')
    BY DEF Informed, Requested
  <1>1. Steady /\ mishaps' <= 1 /\ kind' = kind
    BY SteadyBefore DEF Steady, Acts
  <1>2. Untold(u)
    BY <1>1, FirstMishap, UntoldBefore
  <1>3. (mishaps = 0 => ToldInTime(u)) /\ (Lasting => ToldLater(u))
    BY <1>1, <1>2 DEF Informed
  <1>4. mishaps' = 0 => ToldInTime(u)'
    BY <1>1, <1>2, <1>3, FirstMishap, InTimeStays
  <1>5. Lasting' => Lasting
    BY <1>1 DEF Lasting
  <1>6. CASE HalfHour \/ CalmActs
    BY <1>1, <1>2, <1>3, <1>4, <1>5, <1>6, LaterStays
  <1>7. CASE mishaps = 0 /\ (Disturbs \/ \E w \in Workers : Slows(w))
    BY <1>3, <1>4, <1>7, CalmClock DEF ToldInTime, ToldLater
  <1>8. QED
    BY <1>1, <1>6, <1>7, FirstMishap

LEMMA EarlyStays ==
  ASSUME Typed, Typed', Acts, Carrying, Unhurt, Patient, Informed, Early
  PROVE  Early'
  <1> SUFFICES ASSUME mishaps' <= 1, kind' \notin Requested, NEW w \in Workers, Gone(worker[w].batch)',
                      NEW u \in Users, Untold(u)'
               PROVE  clock' <= 2
    BY DEF Early, Requested
  <1>1. mishaps <= 1 /\ kind' = kind /\ Untold(u)
    BY FirstMishap, UntoldBefore DEF Acts
  <1>2. CASE HalfHour \/ CalmActs
    <2>1. Gone(worker[w].batch)
      BY <1>2, CalmGone
    <2>2. CalmActs
      BY <1>1, <1>2, <2>1, GoneAtHalfHour
    <2>3. QED
      BY <1>1, <2>1, <2>2, CalmClock DEF Early
  <1>3. CASE mishaps = 0 /\ (Disturbs \/ \E v \in Workers : Slows(v))
    <2>1. Steady
      BY <1>1, <1>3 DEF Steady, Unhurt
    <2>2. QED
      BY <1>1, <1>3, <2>1, CalmClock DEF Informed, ToldInTime
  <1>4. QED
    BY <1>2, <1>3, FirstMishap

-----------------------------------------------------------------------------

Awaited ==
    /\ Carrying /\ Invited /\ Timed /\ Unhurt /\ Guarded /\ NoneWaits /\ Patient
    /\ Held /\ Current /\ Recent /\ Rescued /\ Informed /\ Early

LEMMA AwaitedAtFirst ==
  ASSUME Init
  PROVE  Awaited
  <1>1. /\ clock = 0 /\ mishaps = 0 /\ redis = TRUE /\ dead = {} /\ muted = {} /\ lock = NoLock
        /\ kind \in Kinds /\ audience \subseteq Users /\ Cardinality(audience) = Audience[kind]
        /\ request = [w \in Workers |-> Idle] /\ worker = [w \in Workers |-> Fresh]
        /\ rows = [u \in Users |-> <<>>] /\ \A u \in audience : DevicesOf(u) # {}
    BY DEF Init, DevicesOf
  <1>2. \A w \in Workers : /\ worker[w].at = "starting" /\ worker[w].batch = {} /\ worker[w].todo = {}
                           /\ ~Slow(w) /\ request[w].at = "idle"
    BY <1>1, FreshFields, IdleIs DEF Slow
  <1>3. \A u \in Users : rows[u] = <<>> /\ Len(rows[u]) = 0
    BY <1>1
  <1>4. \A u \in Users : \A i : ~Owed(u, i)
    BY <1>3 DEF Owed
  <1>5. audience # {}
    <2>1. Audience[kind] \in 1..Cardinality(Users)
      BY <1>1, NotificationConstantsOK
    <2>2. Cardinality(audience) # 0
      BY <1>1, <2>1, NotificationConstantsOK, FS_CardinalityType
    <2>3. QED
      BY <2>2, FS_EmptySet
  <1>6. Carrying /\ Invited
    BY <1>2, <1>3, <1>5 DEF Carrying, JobCarrying, RequestCarrying, Invited, JobInvited
  <1>7. Timed
    BY <1>1, <1>2 DEF Timed, JobTimed, NoLock, LockTtl
  <1>8. NoneDeleted
    BY <1>3 DEF NoneDeleted
  <1>9. Unhurt /\ Guarded /\ NoneWaits /\ Patient
    BY <1>1, <1>2, <1>4, <1>8 DEF Unhurt, Guarded, NoneWaits, Patient, NoLock
  <1>10. Held /\ Current /\ Recent /\ Rescued
    BY <1>2, <1>4 DEF Held, Current, RequestCurrent, Recent, Rescued
  <1>11. Informed /\ Early
    BY <1>1 DEF Informed, Early, ToldInTime, ToldLater
  <1>12. QED
    BY <1>6, <1>7, <1>9, <1>10, <1>11 DEF Awaited

LEMMA AwaitedStays ==
  ASSUME Typed, Typed', Awaited, [Next]_vars
  PROVE  Awaited'
  <1>1. Acts
    BY EveryAct DEF Awaited, Invited
  <1>2. Carrying' /\ Invited' /\ Timed'
    BY <1>1, CarryingStays, InvitedStays, TimedStays DEF Awaited
  <1>3. Unhurt' /\ Guarded' /\ NoneWaits' /\ Patient'
    BY <1>1, UnhurtStays, GuardedStays, NoneWaitsStays, PatientStays DEF Awaited
  <1>4. Held' /\ Current' /\ Recent'
    BY <1>1, HeldStays, CurrentStays, RecentStays DEF Awaited
  <1>5. Rescued'
    BY <1>1, <1>2, RescuedStays DEF Awaited
  <1>6. Informed' /\ Early'
    BY <1>1, <1>3, InformedStays, EarlyStays DEF Awaited
  <1>7. QED
    BY <1>2, <1>3, <1>4, <1>5, <1>6 DEF Awaited

LEMMA AwaitedHolds == Spec => [](Typed /\ Awaited)
  <1>1. Init => Typed /\ Awaited
    BY InitTyped, AwaitedAtFirst
  <1>2. Typed /\ Awaited /\ [Next]_vars => (Typed /\ Awaited)'
    BY EveryMove, AwaitedStays
  <1>3. QED
    BY <1>1, <1>2, PTL DEF Spec

LEMMA RescuedInTime ==
  ASSUME Typed, Awaited
  PROVE  NoPushLost
  <1> SUFFICES ASSUME Steady, NEW u \in Users, NEW i \in DOMAIN rows[u], rows[u][i].state = "unsent",
                      clock > rows[u][i].at + RetryWindow, DevicesOf(u) # {}
               PROVE  \E w \in Workers : Workers = {w} /\ <<u, i>> \in worker[w].batch
    BY DEF NoPushLost, Steady
  <1>1. i \in 1..Len(rows[u]) /\ rows[u][i].at \in Nat /\ clock \in Nat
    BY RowNumbers
  <1>2. clock > rows[u][i].at + 4
    BY DEF RetryWindow
  <1>3. Owed(u, i)
    BY <1>1 DEF Owed
  <1>4. Alone
    BY <1>1, <1>2, <1>3 DEF Awaited, Rescued, Saved, SavedSoon
  <1>5. PICK w \in Workers : Workers = {w} /\ Slow(w)
    BY <1>4 DEF Alone
  <1>6. mishaps = 0 \/ mishaps = 1
    BY ClockIs DEF Steady
  <1>7. <<u, i>> \in Carried(w)
    BY <1>3, <1>5, <1>6 DEF Awaited, Held
  <1>8. ~(request[w].at \in {"push", "stamp"} /\ <<u, i>> \in request[w].batch)
    BY <1>1, <1>2 DEF Awaited, Current, RequestCurrent
  <1>9. QED
    BY <1>5, <1>7, <1>8, CarriedBy

LEMMA InformedInTime ==
  ASSUME Typed, Awaited
  PROVE  EventIsTold
  <1> SUFFICES ASSUME clock > Ends, \A w \in Workers : worker[w].at # "ended", kind \notin Requested,
                      mishaps = 0 \/ (mishaps = 1 /\ Lasting), NEW u \in audience \ muted, rows[u] = <<>>
               PROVE  FALSE
    BY DEF EventIsTold, Lasting
  <1>1. Steady /\ Untold(u) /\ u \in Users /\ clock \in Nat
    BY ClockIs DEF Steady, Untold, Typed, FactTyped
  <1>2. (mishaps = 0 => ToldInTime(u)) /\ (Lasting => ToldLater(u))
    BY <1>1 DEF Awaited, Informed
  <1>3. Ends \in Nat /\ Ends >= 2 /\ (Lasting => Ends >= 7)
    <2>1. Width[kind] \in 1..48
      BY WidthIs DEF Typed, FactTyped
    <2>2. Lasting => Width[kind] \in {48, 6}
      BY DEF Lasting, Width
    <2>3. Ends = 1 + Width[kind]
      BY DEF Ends, Starts
    <2>4. Ends \in Nat /\ Ends >= 2
      <3>1. \A n \in 1..48 : 1 + n \in Nat /\ 1 + n >= 2
        OBVIOUS
      <3>2. QED
        BY <2>1, <2>3, <3>1, Zenon
    <2>5. Lasting => Ends >= 7
      BY <2>2, <2>3
    <2>6. QED
      BY <2>4, <2>5
  <1>4. QED
    BY <1>1, <1>2, <1>3 DEF ToldInTime, ToldLater

\* A push that is not sent is sent before its retry window is over, whichever one fault there is,
\* however many workers, users and devices there are: the lock the fault leaves behind runs out,
\* and a tick opens, in time; one that takes longer has the push in its hands.
THEOREM PushesAreNotLost == Spec => []NoPushLost
  <1>1. Typed /\ Awaited => NoPushLost
    BY RescuedInTime
  <1>2. QED
    BY <1>1, AwaitedHolds, PTL

\* When an event is over every recipient has been told of it: in the half hour in which it is due,
\* or, when one fault spoils that tick, by a tick of another worker while the event is still due.
THEOREM EveryoneIsTold == Spec => []EventIsTold
  <1>1. Typed /\ Awaited => EventIsTold
    BY InformedInTime
  <1>2. QED
    BY <1>1, AwaitedHolds, PTL

=============================================================================
