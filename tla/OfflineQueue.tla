---------------------------- MODULE OfflineQueue ----------------------------
(***************************************************************************)
(* The mobile app's OfflineWriteQueue: the mutations made while offline, kept *)
(* in a Hive box, and replayed against the API each time the connection comes *)
(* back.                                                                      *)
(*                                                                            *)
(* enqueue reads the list and writes it back between two events of the Dart   *)
(* event loop.  replay() works on the list it loaded, across one awaited HTTP *)
(* call per operation, and writes what remains of that list at the end: what  *)
(* the box received meanwhile is overwritten.  Nothing stops a second replay. *)
(***************************************************************************)
EXTENDS Integers, Sequences, SequencesExt

CONSTANTS
    Repositories,  \* the cached repositories and the home bloc: one handler each
    Replays,       \* bound: replays under way at the same time
    Calm,          \* the connection never drops while a replay is under way
    MaxOps,        \* bound: operations enqueued
    MaxFlights,    \* bound: times the local wall clock goes back (a time zone west)
    MaxFaults      \* bound: kills of the app and answers lost

ASSUME QueueConstantsOK ==
    /\ Calm \in BOOLEAN
    /\ MaxOps \in Nat /\ MaxFlights \in Nat /\ MaxFaults \in Nat

VARIABLES
    online,      \* ConnectivityService._isOnline
    store,       \* the box: the list under pending_operations
    opened,      \* the box has been opened in this run of the app
    registered,  \* repositories that have registered their replay handlers
    todo,        \* each replay: what is left of its list, the first one in flight
    enqueued,    \* operations accepted so far ("Operation queued for sync")
    applied,     \* the API: how many times each operation took effect
    discarded,   \* operations in the box when the user logged out
    flights,     \* times the wall clock went back
    faults       \* kills and lost answers so far

vars == <<online, store, opened, registered, todo, enqueued, applied, discarded, flights, faults>>

\* `n` numbers the operations as the user made them; createdAt is the local wall clock,
\* written without its offset: an operation of a later zone sorts before the earlier ones.
Operation == [n : 1..MaxOps, repository : Repositories, zone : 0..MaxFlights]

TypeOK ==
    /\ online \in BOOLEAN /\ opened \in BOOLEAN
    /\ store \in Seq(Operation) /\ IsInjective(store)
    /\ registered \subseteq Repositories
    /\ todo \in [Replays -> Seq(Operation)]
    /\ enqueued \in 0..MaxOps
    /\ applied \in [1..MaxOps -> Nat]
    /\ discarded \subseteq 1..MaxOps
    /\ flights \in 0..MaxFlights /\ faults \in 0..MaxFaults

\* A new install, or one whose box survived the run that filled it: the app starts.
Init ==
    /\ online \in BOOLEAN
    /\ store = <<>> /\ opened = FALSE
    /\ registered = {}
    /\ todo = [r \in Replays |-> <<>>]
    /\ enqueued = 0 /\ applied = [n \in 1..MaxOps |-> 0]
    /\ discarded = {} /\ flights = 0 /\ faults = 0

-----------------------------------------------------------------------------
Before(o, p) == o.zone > p.zone \/ (o.zone = p.zone /\ o.n < p.n)

Same(list) == {l \in [DOMAIN list -> ToSet(list)] : ToSet(l) = ToSet(list)}

\* Mutant of Load: newest first.
LoadNewestFirst(list) ==
    CHOOSE l \in Same(list) : \A i, j \in DOMAIN l : i < j => Before(l[j], l[i])

\* _loadOperations: sorted by createdAt.
Load(list) ==
    CHOOSE l \in Same(list) : \A i, j \in DOMAIN l : i < j => Before(l[i], l[j])

Replaying == \E r \in Replays : todo[r] # <<>>

\* A repository is built when a screen first needs it, and registers its handlers.
Register(repository) ==
    /\ repository \notin registered
    /\ registered' = registered \cup {repository}
    /\ UNCHANGED <<online, store, opened, todo, enqueued, applied, discarded, flights, faults>>

\* A write of a cached repository (or the home bloc's transition) while offline.
Enqueue(repository) ==
    /\ ~online /\ repository \in registered
    /\ enqueued < MaxOps /\ enqueued' = enqueued + 1
    /\ store' = Append(Load(store),
                       [n |-> enqueued', repository |-> repository, zone |-> flights])
    /\ opened' = TRUE
    /\ UNCHANGED <<online, registered, todo, applied, discarded, flights, faults>>

\* Mutant of Continue: an operation without a handler is left out of what remains.
ContinueDroppingUnknown(r, ops) ==
    IF ops # <<>> /\ Head(ops).repository \in registered
    THEN todo' = [todo EXCEPT ![r] = ops] /\ UNCHANGED store
    ELSE todo' = [todo EXCEPT ![r] = <<>>] /\ store' = IF ops = <<>> THEN ops ELSE Tail(ops)

\* The loop of replay(): the next operation is sent, or nothing is left, or its handler
\* is unknown: what remains is saved.
Continue(r, ops) ==
    IF ops # <<>> /\ Head(ops).repository \in registered
    THEN todo' = [todo EXCEPT ![r] = ops] /\ UNCHANGED store
    ELSE todo' = [todo EXCEPT ![r] = <<>>] /\ store' = ops

\* Mutant of GoOnline: the box is not opened for a replay.
GoOnlineUnopened(r) ==
    /\ ~online /\ online' = TRUE
    /\ todo[r] = <<>>
    /\ UNCHANGED opened
    /\ IF opened THEN Continue(r, Load(store)) ELSE UNCHANGED <<todo, store>>
    /\ UNCHANGED <<registered, enqueued, applied, discarded, flights, faults>>

\* onConnectivityChanged emits true: replay() is called and not awaited.
GoOnline(r) ==
    /\ ~online /\ online' = TRUE
    /\ todo[r] = <<>>
    /\ opened' = TRUE
    /\ Continue(r, Load(store))
    /\ UNCHANGED <<registered, enqueued, applied, discarded, flights, faults>>

GoOffline ==
    /\ online /\ online' = FALSE
    /\ Calm => ~Replaying
    /\ UNCHANGED <<store, opened, registered, todo, enqueued, applied, discarded, flights, faults>>

Applies(op) == applied' = [applied EXCEPT ![op.n] = @ + 1]

HandlerSucceeds(r) ==
    /\ todo[r] # <<>>
    /\ Applies(Head(todo[r]))
    /\ Continue(r, Tail(todo[r]))
    /\ UNCHANGED <<online, opened, registered, enqueued, discarded, flights, faults>>

\* The API refused or was not reached; or it did the work and its answer was lost.  The
\* rest of the list is kept unsent, and saved.
HandlerFails(r) ==
    /\ todo[r] # <<>>
    /\ \/ UNCHANGED <<applied, faults>>
       \/ faults < MaxFaults /\ faults' = faults + 1 /\ Applies(Head(todo[r]))
    /\ todo' = [todo EXCEPT ![r] = <<>>] /\ store' = todo[r]
    /\ UNCHANGED <<online, opened, registered, enqueued, discarded, flights>>

\* Logging out clears the boxes this run of the app has opened.
Logout ==
    /\ opened /\ store # <<>>
    /\ store' = <<>>
    /\ discarded' = discarded \cup {op.n : op \in ToSet(store)}
    /\ UNCHANGED <<online, opened, registered, todo, enqueued, applied, flights, faults>>

\* The app is killed, a request in flight reaching the API or not, and started again;
\* being online already at the start is not a change of connectivity.
Kill ==
    /\ faults < MaxFaults /\ faults' = faults + 1
    /\ online' \in BOOLEAN
    /\ opened' = FALSE /\ registered' = {}
    /\ todo' = [r \in Replays |-> <<>>]
    /\ \/ UNCHANGED applied
       \/ \E r \in Replays : todo[r] # <<>> /\ Applies(Head(todo[r]))
    /\ UNCHANGED <<store, enqueued, discarded, flights>>

FlyWest ==
    /\ flights < MaxFlights /\ flights' = flights + 1
    /\ UNCHANGED <<online, store, opened, registered, todo, enqueued, applied, discarded, faults>>

-----------------------------------------------------------------------------
Next ==
    \/ \E p \in Repositories : Register(p) \/ Enqueue(p)
    \/ \E r \in Replays : GoOnline(r) \/ HandlerSucceeds(r) \/ HandlerFails(r)
    \/ GoOffline \/ Logout \/ Kill \/ FlyWest

Spec == Init /\ [][Next]_vars

\* Every call ends (Dio's timeouts are 30 s).  The rest is the user's world, not the
\* code's: the screens get opened, the connection comes and goes, the API does not
\* refuse an operation for ever.
Fairness ==
    /\ \A r \in Replays : WF_vars(HandlerSucceeds(r) \/ HandlerFails(r))
    /\ \A r \in Replays : SF_vars(HandlerSucceeds(r))
    /\ \A p \in Repositories : WF_vars(Register(p))
    /\ WF_vars(GoOffline) /\ WF_vars(\E r \in Replays : GoOnline(r))

FairSpec == Spec /\ Fairness

-----------------------------------------------------------------------------
Held == {op.n : op \in ToSet(store) \cup UNION {ToSet(todo[r]) : r \in Replays}}

\* cache-offline.md, "Atomicite par operation (succes complet ou conservee)": an accepted
\* operation has taken effect, or it is still held, or the user who made it logged out.
\* (So it is while the connection does not drop during a replay.)
Kept == \A n \in 1..enqueued : applied[n] > 0 \/ n \in Held \/ n \in discarded

\* replay() stops at the first operation that fails "pour preserver l'ordre causal": an
\* operation takes effect only when those made before it and still held have, unless the
\* wall clock that orders the list went back.
InOrder ==
    flights = 0 =>
        \A m, n \in 1..MaxOps : m < n /\ applied[n] > 0 /\ m \in Held => applied[m] > 0

\* An operation does not stay in the box for ever, behind a handler not yet registered or
\* an operation that failed, though the app be killed and restarted online.
Drains == \A n \in 1..MaxOps : (\E op \in ToSet(store) : op.n = n)
                               ~> (\A op \in ToSet(store) : op.n # n)

=============================================================================
