--------------------------- MODULE PlanSyncProofs ---------------------------
(***************************************************************************)
(* Proofs about PlanSync, for any bounds and any number of reads in flight:  *)
(* the types, and for a user with one subscription that who pays is served   *)
(* (ServedWhilePaid) or can be healed (PaidUserHealed), and that a PREMIUM   *)
(* without subscription is one the expiration job finds (LeftoverExpires).   *)
(***************************************************************************)
EXTENDS PlanSync, TLAPS

Ops == {"confirm", "cancel", "reactivate"}

SubRow == [status : SubStatus, end : Time, ending : BOOLEAN]

EventRow == [type : EventType, sub : Subs, status : SubStatus, end : Time]

Phases == {"asked", "answered"}

ReadRow == [phase : Phases, sub : Subs, expiry : Time, snap : Snapshot \cup {Null}]

\* The types the arguments need: TypeOK in four parts, and that nothing else is read.
RowTyped == plan \in Plan /\ subId \in Subs \cup {Null} /\ expiry \in Time

ReadTyped ==
    /\ reading \in [Readers -> {IdleRead} \cup ReadRow]
    /\ cache \in [Subs -> Snapshot \cup {Null}]

StripeTyped ==
    /\ sub \in [Subs -> SubRow] /\ events \in Seq(EventRow)
    /\ keys \subseteq [op : Ops, sub : Subs]
    /\ offered \subseteq Subs /\ checkout \subseteq Subs

RestTyped ==
    /\ job \in BOOLEAN /\ ordered \in BOOLEAN /\ disputed \in BOOLEAN
    /\ recorded \subseteq DOMAIN events
    /\ adminWrites \in 0..MaxAdminWrites /\ now \in 0..(MaxPeriods + 1)

Typed == RowTyped /\ ReadTyped /\ StripeTyped /\ RestTyped

-----------------------------------------------------------------------------
(* What a step does. *)

\* Of one subscription, the status and the end.
TurnsTo(s, status, end) ==
    /\ sub' \in [Subs -> SubRow] /\ \A u \in Subs \ {s} : sub'[u] = sub[u]
    /\ sub'[s].status = status /\ sub'[s].end = end

\* Events are added, which say of it what holds then.
Tells(s, types) ==
    /\ events' \in Seq(EventRow) /\ Len(events') = Len(events) + Len(types)
    /\ \A n \in 1..Len(events) : events'[n] = events[n]
    /\ \A n \in 1..Len(types) :
         /\ events'[Len(events) + n].type = types[n]
         /\ events'[Len(events) + n].status = sub'[s].status

LEMMA Constants == /\ Null \notin Subs /\ MaxPeriods \in Nat \ {0} /\ MaxAdminWrites \in Nat
                   /\ Time = 0..(MaxPeriods + 2)
  BY PlanConstantsOK DEF Time

LEMMA Named ==
  /\ "none" \in SubStatus /\ "incomplete" \in SubStatus /\ "active" \in SubStatus
  /\ "past_due" \in SubStatus /\ "canceled" \in SubStatus /\ "unpaid" \in SubStatus
  /\ "incomplete_expired" \in SubStatus
  /\ "created" \in EventType /\ "updated" \in EventType /\ "deleted" \in EventType
  /\ "invoice_paid" \in EventType /\ "invoice_failed" \in EventType /\ "dispute" \in EventType
  BY DEF SubStatus, ActiveStatus, DeadStatus, EventType

LEMMA BecomesIs ==
  ASSUME StripeTyped, NEW s \in Subs, NEW status \in SubStatus, NEW end \in Time,
         Becomes(s, status, end)
  PROVE  TurnsTo(s, status, end)
  BY DEF StripeTyped, Becomes, TurnsTo, SubRow

LEMMA EmitIs ==
  ASSUME StripeTyped, NEW s \in Subs, sub' \in [Subs -> SubRow],
         NEW types \in Seq(EventType), Emit(s, types)
  PROVE  Tells(s, types)
  <1> DEFINE new == [n \in 1..Len(types) |-> Event(types[n], s)]
  <1>1. \A n \in 1..Len(types) : /\ Event(types[n], s) \in EventRow
                                 /\ Event(types[n], s).type = types[n]
                                 /\ Event(types[n], s).status = sub'[s].status
    BY DEF Event, EventRow, SubRow
  <1>2. Len(types) \in Nat
    OBVIOUS
  <1>3. new \in Seq(EventRow) /\ Len(new) = Len(types)
    BY <1>1, <1>2
  <1>4. \A n \in 1..Len(types) : new[n] = Event(types[n], s)
    OBVIOUS
  <1>5. events' = events \o new
    BY DEF Emit
  <1>6. events \in Seq(EventRow)
    BY DEF StripeTyped
  <1> HIDE DEF new
  <1>7. QED
    <2>1. /\ events \o new \in Seq(EventRow) /\ Len(events \o new) = Len(events) + Len(new)
          /\ \A n \in 1..Len(events) : (events \o new)[n] = events[n]
          /\ \A n \in 1..Len(new) : (events \o new)[Len(events) + n] = new[n]
      BY <1>3, <1>6
    <2>2. QED
      BY <2>1, <1>1, <1>3, <1>4, <1>5 DEF Tells

-----------------------------------------------------------------------------
(* Stripe's own steps: where each leaves the subscription and what it tells. *)

Told(s, status, types) ==
    /\ \E end \in Time : TurnsTo(s, status, end)
    /\ Tells(s, types)

LEMMA Turned ==
  ASSUME StripeTyped, NEW s \in Subs, NEW status \in SubStatus, NEW end \in Time,
         NEW types \in Seq(EventType), Becomes(s, status, end), Emit(s, types)
  PROVE  Told(s, status, types)
  <1>1. TurnsTo(s, status, end)
    BY BecomesIs
  <1>2. Tells(s, types)
    BY <1>1, EmitIs DEF TurnsTo
  <1>3. QED
    BY <1>1, <1>2 DEF Told

StripeSays(s) ==
    \/ /\ sub[s].status = "incomplete" /\ s \in offered
       /\ Told(s, "active", <<"updated", "invoice_paid">>)
    \/ /\ sub[s].status = "none"
       /\ Told(s, "active", <<"created", "updated", "invoice_paid">>)
    \/ /\ sub[s].status = "incomplete"
       /\ Told(s, "incomplete_expired", <<"updated">>)
    \/ /\ sub[s].status \in ActiveStatus
       /\ \/ Told(s, "active", <<"updated", "invoice_paid">>)
          \/ Told(s, "past_due", <<"updated", "invoice_failed">>)
          \/ Told(s, "unpaid", <<"updated">>)
          \/ Told(s, "canceled", <<"deleted">>)

LEMMA SubIs ==
  ASSUME StripeTyped, NEW s \in Subs
  PROVE  sub[s].status \in SubStatus /\ sub[s].end \in Time /\ sub[s].ending \in BOOLEAN
  BY DEF StripeTyped, SubRow

LEMMA Lists ==
  /\ <<"updated">> \in Seq(EventType) /\ <<"deleted">> \in Seq(EventType)
  /\ <<"created">> \in Seq(EventType) /\ <<"dispute">> \in Seq(EventType)
  /\ <<"updated", "invoice_paid">> \in Seq(EventType)
  /\ <<"updated", "invoice_failed">> \in Seq(EventType)
  /\ <<"created", "updated", "invoice_paid">> \in Seq(EventType)
  BY Named

LEMMA StripeSaysSo ==
  ASSUME Typed, NEW s \in Subs,
         Pays(s) \/ PaysOnPage(s) \/ GivesUp(s) \/ Renews(s) \/ DunningEnds(s) \/ PeriodEnds(s)
  PROVE  StripeSays(s)
  <1>1. StripeTyped /\ sub[s].end \in Time /\ now \in 0..(MaxPeriods + 1)
    BY SubIs DEF Typed, RestTyped
  <1>2. now < MaxPeriods => now + 1 \in Time
    BY <1>1, Constants
  <1>3. sub[s].end < MaxPeriods => sub[s].end + 1 \in Time
    BY <1>1, Constants
  <1>4. ASSUME Pays(s) PROVE StripeSays(s)
    BY <1>1, <1>4, Turned, Lists, Named DEF Pays, StripeSays
  <1>5. ASSUME PaysOnPage(s) PROVE StripeSays(s)
    BY <1>1, <1>2, <1>5, Turned, Lists, Named DEF PaysOnPage, StripeSays
  <1>6. ASSUME GivesUp(s) PROVE StripeSays(s)
    BY <1>1, <1>6, Turned, Lists, Named DEF GivesUp, StripeSays
  <1>7. ASSUME Renews(s) PROVE StripeSays(s)
    <2>1. sub[s].status \in ActiveStatus /\ sub[s].end + 1 \in Time
      BY <1>3, <1>7 DEF Renews, Due, ActiveStatus
    <2>2. \/ Told(s, "active", <<"updated", "invoice_paid">>)
          \/ Told(s, "past_due", <<"updated", "invoice_failed">>)
      BY <1>1, <1>7, <2>1, Turned, Lists, Named DEF Renews
    <2>3. QED
      BY <2>1, <2>2 DEF StripeSays
  <1>8. ASSUME DunningEnds(s) PROVE StripeSays(s)
    <2>1. sub[s].status \in ActiveStatus
      BY <1>8 DEF DunningEnds, ActiveStatus
    <2>2. \/ Told(s, "active", <<"updated", "invoice_paid">>)
          \/ Told(s, "unpaid", <<"updated">>)
          \/ Told(s, "canceled", <<"deleted">>)
      BY <1>1, <1>8, Turned, Lists, Named DEF DunningEnds
    <2>3. QED
      BY <2>1, <2>2 DEF StripeSays
  <1>9. ASSUME PeriodEnds(s) PROVE StripeSays(s)
    <2>1. sub[s].status \in ActiveStatus
      BY <1>9 DEF PeriodEnds, Due, ActiveStatus
    <2>2. Told(s, "canceled", <<"deleted">>)
      BY <1>1, <1>9, Turned, Lists, Named DEF PeriodEnds
    <2>3. QED
      BY <2>1, <2>2 DEF StripeSays
  <1>10. QED
    BY <1>4, <1>5, <1>6, <1>7, <1>8, <1>9

LEMMA EndingIs ==
  ASSUME StripeTyped, NEW s \in Subs, NEW ending \in BOOLEAN,
         sub' = [sub EXCEPT ![s].ending = ending]
  PROVE  TurnsTo(s, sub[s].status, sub[s].end)
  BY DEF StripeTyped, TurnsTo, SubRow

\* What a user, the staff's changes apart, can do to a subscription.
LEMMA ConfirmSays ==
  ASSUME Typed, NEW s \in Subs, Confirm(s)
  PROVE  /\ \/ /\ sub[s].status = "none" /\ Told(s, "incomplete", <<"created">>)
               /\ keys' = keys \cup {[op |-> "confirm", sub |-> s]}
            \/ /\ [op |-> "confirm", sub |-> s] \in keys
               /\ UNCHANGED <<sub, events, keys>>
         /\ (subId' = s /\ offered' = offered \cup {s}) \/ UNCHANGED <<subId, offered>>
         /\ plan = "FREE"
         /\ UNCHANGED <<plan, expiry, reading, cache, job, checkout, recorded, ordered, disputed,
                        adminWrites, now>>
  <1>1. StripeTyped /\ now \in 0..(MaxPeriods + 1)
    BY DEF Typed, RestTyped
  <1>2. now < MaxPeriods => now + 1 \in Time
    BY <1>1, Constants
  <1>3. now < MaxPeriods /\ Becomes(s, "incomplete", now + 1) /\ Emit(s, <<"created">>)
        => Told(s, "incomplete", <<"created">>)
    BY <1>1, <1>2, Turned, Lists, Named
  <1>4. QED
    BY <1>3 DEF Confirm

\* Cancelling and resuming, here or in the portal.
EndsOtherwise(s) ==
    /\ sub[s].status \in ActiveStatus \cup {"incomplete"}
    /\ Told(s, sub[s].status, <<"updated">>)

LEMMA Ending ==
  ASSUME StripeTyped, NEW s \in Subs, NEW ending \in BOOLEAN,
         sub' = [sub EXCEPT ![s].ending = ending], Emit(s, <<"updated">>)
  PROVE  Told(s, sub[s].status, <<"updated">>)
  <1>1. TurnsTo(s, sub[s].status, sub[s].end)
    BY EndingIs
  <1>2. Tells(s, <<"updated">>)
    BY <1>1, EmitIs, Lists DEF TurnsTo
  <1>3. QED
    BY <1>1, <1>2, SubIs DEF Told

LEMMA ModifySays ==
  ASSUME Typed, NEW op \in Ops, NEW ending \in BOOLEAN, Modify(op, ending)
  PROVE  /\ \/ /\ subId \in Subs /\ EndsOtherwise(subId)
               /\ keys' = keys \cup {[op |-> op, sub |-> subId]}
            \/ UNCHANGED <<sub, events, keys>>
         /\ UNCHANGED <<rowVars, reading, cache, job, offered, checkout, recorded, ordered, disputed,
                        adminWrites, now>>
  <1>1. StripeTyped /\ subId \in Subs
    BY DEF Typed, RowTyped, Modify
  <1>2. sub' = [sub EXCEPT ![subId].ending = ending] /\ Emit(subId, <<"updated">>)
        => Told(subId, sub[subId].status, <<"updated">>)
    BY <1>1, Ending
  <1>3. QED
    BY <1>1, <1>2, Zenon DEF Modify, EndsOtherwise

LEMMA PortalSays ==
  ASSUME Typed, NEW s \in Subs, ChangesInPortal(s)
  PROVE  /\ EndsOtherwise(s)
         /\ UNCHANGED <<rowVars, reading, cache, job, offered, checkout, keys, recorded, ordered,
                        disputed, adminWrites, now>>
  <1>1. StripeTyped /\ sub[s].ending \in BOOLEAN
    BY SubIs DEF Typed
  <1>2. (~sub[s].ending) \in BOOLEAN
    BY <1>1
  <1>3. sub' = [sub EXCEPT ![s].ending = ~(sub[s].ending)]
    BY <1>1, Zenon DEF ChangesInPortal, StripeTyped
  <1>4. Told(s, sub[s].status, <<"updated">>)
    BY <1>1, <1>2, <1>3, Ending DEF ChangesInPortal
  <1>5. QED
    BY <1>4, Zenon DEF ChangesInPortal, EndsOtherwise

LEMMA DisputeSays ==
  ASSUME Typed, NEW s \in Subs, Dispute(s)
  PROVE  /\ sub[s].status \in ActiveStatus /\ disputed' = TRUE
         /\ Told(s, sub[s].status, <<"dispute">>)
  <1>1. StripeTyped /\ sub' = sub /\ Emit(s, <<"dispute">>)
    BY DEF Typed, Dispute
  <1>2. TurnsTo(s, sub[s].status, sub[s].end)
    BY <1>1 DEF TurnsTo, StripeTyped
  <1>3. Tells(s, <<"dispute">>)
    BY <1>1, <1>2, EmitIs, Lists DEF TurnsTo
  <1>4. QED
    BY <1>2, <1>3, SubIs, <1>1 DEF Told, Dispute

-----------------------------------------------------------------------------
(* The webhooks, the reads and the rest. *)

\* What an event does to the row.
Handled(e) ==
    \/ /\ e.type = "created"
       /\ SetPlan("PREMIUM") /\ subId' = e.sub
    \/ /\ e.type = "updated" /\ e.status \notin DeadStatus
       /\ UNCHANGED <<plan, subId>>
    \/ /\ (e.type = "updated" /\ e.status \in DeadStatus) \/ e.type = "deleted"
       /\ SetPlan("FREE") /\ subId' = Null
    \/ /\ e.type = "invoice_paid"
       /\ SetPlan("PREMIUM") /\ UNCHANGED subId
    \/ /\ e.type = "invoice_failed"
       /\ UNCHANGED <<plan, subId>>
    \/ /\ e.type = "dispute"
       /\ SetPlan("FREE") /\ UNCHANGED subId

WebhookMoves(n) ==
    /\ n \notin recorded /\ recorded' = recorded \cup {n}
    /\ ordered => \A m \in 1..(n - 1) : m \in recorded
    /\ Handled(events[n])

webhookLeaves == <<reading, cache, job, sub, offered, checkout, keys, events, ordered,
                   disputed, adminWrites, now>>

LEMMA EventIs ==
  ASSUME StripeTyped, NEW n \in DOMAIN events
  PROVE  /\ n \in Nat /\ n >= 1 /\ n <= Len(events) /\ events[n].type \in EventType
         /\ events[n].sub \in Subs /\ events[n].status \in SubStatus /\ events[n].end \in Time
  <1>1. n \in Nat /\ n >= 1 /\ n <= Len(events) /\ events[n] \in EventRow
    BY DEF StripeTyped
  <1>2. QED
    BY <1>1 DEF EventRow

LEMMA Planned ==
  ASSUME NEW p \in Plan, plan \in Plan, SetPlan(p)
  PROVE  plan' \in Plan
  BY DEF SetPlan, Plan

LEMMA Stays ==
  /\ "FREE" \in Plan /\ "PREMIUM" \in Plan /\ "ADMIN" \in Plan /\ 0 \in Time
  BY Constants DEF Plan

LEMMA WebhookSays ==
  ASSUME Typed, Webhook
  PROVE  /\ \E n \in DOMAIN events : WebhookMoves(n)
         /\ RowTyped' /\ UNCHANGED webhookLeaves
  <1>1. PICK n \in DOMAIN events \ recorded :
            /\ ordered => \A m \in 1..(n - 1) : m \in recorded
            /\ \/ HandleCreated(events[n]) \/ HandleUpdated(events[n]) \/ HandleDeleted(events[n])
               \/ HandleInvoicePaid(events[n]) \/ HandleInvoiceFailed(events[n])
               \/ HandleDispute(events[n])
            /\ recorded' = recorded \cup {n}
            /\ UNCHANGED webhookLeaves
    BY DEF Webhook, webhookLeaves
  <1> DEFINE e == events[n]
  <1>2. StripeTyped /\ plan \in Plan /\ subId \in Subs \cup {Null} /\ expiry \in Time
    BY DEF Typed, RowTyped
  <1>3. e.sub \in Subs /\ e.end \in Time
    BY <1>2, EventIs
  <1> HIDE DEF e
  <1>4. (HandleCreated(e) \/ HandleUpdated(e) \/ HandleDeleted(e) \/ HandleInvoicePaid(e)
         \/ HandleInvoiceFailed(e) \/ HandleDispute(e))
        => RowTyped' /\ Handled(e)
    <2>1. HandleCreated(e) => RowTyped' /\ Handled(e)
      BY <1>2, <1>3, Planned, Stays DEF HandleCreated, RowTyped, Handled
    <2>2. HandleUpdated(e) => RowTyped' /\ Handled(e)
      BY <1>2, <1>3, Planned, Stays DEF HandleUpdated, RowTyped, Handled
    <2>3. HandleDeleted(e) => RowTyped' /\ Handled(e)
      BY <1>2, <1>3, Planned, Stays DEF HandleDeleted, RowTyped, Handled
    <2>4. HandleInvoicePaid(e) => RowTyped' /\ Handled(e)
      BY <1>2, <1>3, Planned, Stays DEF HandleInvoicePaid, RowTyped, Handled
    <2>5. HandleInvoiceFailed(e) => RowTyped' /\ Handled(e)
      BY <1>2, <1>3 DEF HandleInvoiceFailed, rowVars, RowTyped, Handled
    <2>6. HandleDispute(e) => RowTyped' /\ Handled(e)
      BY <1>2, <1>3, Planned, Stays DEF HandleDispute, RowTyped, Handled
    <2>7. QED
      BY <2>1, <2>2, <2>3, <2>4, <2>5, <2>6
  <1>5. RowTyped' /\ Handled(e)
    BY <1>1, <1>4 DEF e
  <1>6. WebhookMoves(n)
    BY <1>1, <1>5 DEF e, WebhookMoves
  <1>7. QED
    BY <1>1, <1>5, <1>6

\* What a snapshot of Stripe does to it.
Heals(snap) ==
    \/ /\ snap.status \in ActiveStatus
       /\ plan' = "PREMIUM" /\ UNCHANGED subId
    \/ /\ snap.status \in DeadStatus
       /\ subId' = Null /\ UNCHANGED plan
    \/ UNCHANGED <<plan, subId>>

LEMMA Healed ==
  ASSUME RowTyped, NEW snap \in Snapshot, NEW loaded \in Time, ApplySnapshot(snap, loaded)
  PROVE  RowTyped' /\ Heals(snap)
  <1>1. snap.end \in Time /\ 0 \in Time /\ expiry \in Time
    BY Constants DEF RowTyped, Snapshot
  <1>2. CASE snap.status \in ActiveStatus
    <2>1. snap.status \notin DeadStatus
      BY <1>2 DEF ActiveStatus, DeadStatus
    <2>2. plan' = "PREMIUM" /\ subId' = subId /\ expiry' \in Time
      BY <1>1, <1>2, <2>1 DEF ApplySnapshot
    <2>3. QED
      BY <2>2, <1>2, Stays DEF Heals, RowTyped
  <1>3. CASE snap.status \in DeadStatus
    <2>1. snap.status \notin ActiveStatus
      BY <1>3 DEF ActiveStatus, DeadStatus
    <2>2. plan' = plan /\ subId' = Null /\ expiry' \in Time
      BY <1>1, <1>3, <2>1 DEF ApplySnapshot
    <2>3. QED
      BY <2>2, <1>3 DEF Heals, RowTyped
  <1>4. CASE snap.status \notin ActiveStatus /\ snap.status \notin DeadStatus
    <2>1. UNCHANGED rowVars
      BY <1>4 DEF ApplySnapshot
    <2>2. QED
      BY <2>1 DEF Heals, RowTyped, rowVars
  <1>5. QED
    BY <1>2, <1>3, <1>4

LEMMA Idles == IdleRead.phase = "idle" /\ IdleRead.snap = Null
  BY DEF IdleRead

LEMMA Asked ==
  ASSUME ReadTyped, NEW r \in Readers, reading[r].phase \in Phases
  PROVE  /\ reading[r] \in ReadRow /\ reading[r].sub \in Subs /\ reading[r].expiry \in Time
         /\ reading[r].snap \in Snapshot \cup {Null}
  <1>1. reading[r] \in {IdleRead} \cup ReadRow
    BY DEF ReadTyped
  <1>2. IdleRead.phase \notin Phases
    BY Idles DEF Phases
  <1>3. reading[r] \in ReadRow
    BY <1>1, <1>2
  <1>4. QED
    BY <1>3 DEF ReadRow

\* Only one read moves.
ReadsOn(r, new) ==
    /\ reading' \in [Readers -> {IdleRead} \cup ReadRow]
    /\ \A u \in Readers \ {r} : reading'[u] = reading[u]
    /\ reading'[r] = new

LEMMA ReadIs ==
  ASSUME ReadTyped, NEW r \in Readers, NEW new \in {IdleRead} \cup ReadRow,
         reading' = [reading EXCEPT ![r] = new]
  PROVE  ReadsOn(r, new)
  BY DEF ReadTyped, ReadsOn

readLeaves == <<job, stripeVars, keys, recorded, adminWrites, now>>

LEMMA ReadCachedSays ==
  ASSUME Typed, ReadCached
  PROVE  /\ subId \in Subs /\ cache[subId] \in Snapshot /\ Heals(cache[subId]) /\ RowTyped'
         /\ plan = "FREE" /\ UNCHANGED <<reading, cache, readLeaves>>
  <1>1. RowTyped /\ expiry \in Time /\ subId \in Subs /\ plan = "FREE"
    BY DEF Typed, RowTyped, ReadCached, Suspect
  <1>2. cache[subId] \in Snapshot
    BY <1>1 DEF Typed, ReadTyped, ReadCached
  <1>3. QED
    BY <1>1, <1>2, Healed DEF ReadCached, readLeaves

LEMMA ReadStartSays ==
  ASSUME Typed, NEW r \in Readers, ReadStart(r)
  PROVE  /\ subId \in Subs /\ plan = "FREE"
         /\ \E new \in ReadRow : new.snap = Null /\ ReadsOn(r, new)
         /\ UNCHANGED <<rowVars, cache, readLeaves>>
  <1> DEFINE new == [phase |-> "asked", sub |-> subId, expiry |-> expiry, snap |-> Null]
  <1>1. ReadTyped /\ expiry \in Time /\ subId \in Subs /\ plan = "FREE"
    BY DEF Typed, RowTyped, ReadStart, Suspect
  <1>2. new \in ReadRow /\ new.snap = Null
    BY <1>1 DEF ReadRow, Phases
  <1>3. reading' = [reading EXCEPT ![r] = new] /\ UNCHANGED <<rowVars, cache, readLeaves>>
    BY Zenon DEF ReadStart, readLeaves
  <1> HIDE DEF new
  <1>4. ReadsOn(r, new)
    BY <1>1, <1>2, <1>3, ReadIs
  <1>5. QED
    BY <1>1, <1>2, <1>3, <1>4

LEMMA AnswerSays ==
  ASSUME Typed, NEW r \in Readers, StripeAnswers(r)
  PROVE  /\ reading[r] \in ReadRow
         /\ \E new \in ReadRow :
              /\ new.expiry = reading[r].expiry
              /\ \/ new.snap = Null
                 \/ /\ new.snap.status = sub[reading[r].sub].status
                    /\ new.snap.end = sub[reading[r].sub].end
              /\ ReadsOn(r, new)
         /\ UNCHANGED <<rowVars, cache, readLeaves>>
  <1> DEFINE s == reading[r].sub
             told == [status |-> sub[s].status, end |-> sub[s].end]
             new(snap) == [[reading[r] EXCEPT !.phase = "answered"] EXCEPT !.snap = snap]
  <1>1. ReadTyped /\ StripeTyped /\ reading[r].phase \in Phases
    BY DEF Typed, StripeAnswers, Phases
  <1>2. reading[r] \in ReadRow /\ s \in Subs
    BY <1>1, Asked
  <1>3. told \in Snapshot /\ told.status = sub[s].status /\ told.end = sub[s].end
    BY <1>1, <1>2, SubIs DEF Snapshot
  <1>4. UNCHANGED <<rowVars, cache, readLeaves>>
    BY Zenon DEF StripeAnswers, readLeaves
  <1>5. PICK snap \in {told, Null} :
           reading' = [reading EXCEPT ![r].phase = "answered", ![r].snap = snap]
    BY Zenon DEF StripeAnswers
  <1> HIDE DEF told
  <1>6. reading' = [reading EXCEPT ![r] = new(snap)]
    BY <1>1, <1>5, Zenon DEF ReadTyped
  <1>7. new(snap) \in ReadRow /\ new(snap).snap = snap /\ new(snap).expiry = reading[r].expiry
    BY <1>2, <1>3 DEF ReadRow, Phases
  <1> HIDE DEF new
  <1>8. ReadsOn(r, new(snap))
    BY <1>1, <1>6, <1>7, ReadIs
  <1>9. snap = Null \/ (snap.status = sub[s].status /\ snap.end = sub[s].end)
    BY <1>3
  <1>10. QED
    BY <1>2, <1>4, <1>7, <1>8, <1>9

LEMMA FinishSays ==
  ASSUME Typed, NEW r \in Readers, ReadFinish(r)
  PROVE  /\ reading[r] \in ReadRow /\ ReadsOn(r, IdleRead)
         /\ \/ reading[r].snap = Null /\ UNCHANGED <<rowVars, cache>>
            \/ /\ reading[r].snap \in Snapshot
               /\ cache' = [cache EXCEPT ![reading[r].sub] = reading[r].snap]
               /\ Heals(reading[r].snap) /\ RowTyped'
         /\ UNCHANGED readLeaves
  <1>1. ReadTyped /\ RowTyped /\ reading[r].phase \in Phases
    BY DEF Typed, ReadFinish, Phases
  <1>2. reading[r] \in ReadRow /\ reading[r].expiry \in Time
        /\ reading[r].snap \in Snapshot \cup {Null}
    BY <1>1, Asked
  <1>3. ReadsOn(r, IdleRead)
    BY <1>1, ReadIs DEF ReadFinish
  <1>4. UNCHANGED readLeaves
    BY DEF ReadFinish, readLeaves
  <1>5. CASE reading[r].snap = Null
    <2>1. UNCHANGED <<rowVars, cache>>
      BY <1>5 DEF ReadFinish
    <2>2. QED
      BY <2>1, <1>2, <1>3, <1>4, <1>5
  <1>6. CASE reading[r].snap # Null
    <2>1. reading[r].snap \in Snapshot
      BY <1>2, <1>6
    <2>2. /\ cache' = [cache EXCEPT ![reading[r].sub] = reading[r].snap]
          /\ ApplySnapshot(reading[r].snap, reading[r].expiry)
      BY <1>6, Zenon DEF ReadFinish
    <2>3. Heals(reading[r].snap) /\ RowTyped'
      BY <1>1, <1>2, <2>1, <2>2, Healed
    <2>4. QED
      BY <1>2, <1>3, <1>4, <2>1, <2>2, <2>3
  <1>7. QED
    BY <1>5, <1>6

-----------------------------------------------------------------------------
(* The types hold. *)

LEMMA ToldTyped ==
  ASSUME StripeTyped, recorded \subseteq DOMAIN events, NEW s \in Subs, NEW status,
         NEW types \in Seq(EventType), Told(s, status, types)
  PROVE  /\ sub' \in [Subs -> SubRow] /\ events' \in Seq(EventRow)
         /\ recorded \subseteq DOMAIN events'
  <1>1. /\ sub' \in [Subs -> SubRow] /\ events' \in Seq(EventRow)
        /\ Len(events') = Len(events) + Len(types)
    BY DEF Told, TurnsTo, Tells
  <1>2. events \in Seq(EventRow) /\ Len(types) \in Nat
    BY DEF StripeTyped
  <1>3. \A n \in DOMAIN events : n \in DOMAIN events'
    BY <1>1, <1>2
  <1>4. QED
    BY <1>1, <1>3

LEMMA StripeTypes ==
  ASSUME Typed, NEW s \in Subs, StripeSays(s)
  PROVE  /\ sub' \in [Subs -> SubRow] /\ events' \in Seq(EventRow)
         /\ recorded \subseteq DOMAIN events'
  <1>1. StripeTyped /\ recorded \subseteq DOMAIN events
    BY DEF Typed, RestTyped
  <1>2. PICK types \in Seq(EventType), status \in SubStatus : Told(s, status, types)
    BY Lists, Named, Zenon DEF StripeSays
  <1>3. QED
    BY <1>1, <1>2, ToldTyped

LEMMA TypeStep ==
  ASSUME Typed, [Next]_vars
  PROVE  Typed'
  <1>1. RowTyped /\ ReadTyped /\ StripeTyped /\ RestTyped /\ recorded \subseteq DOMAIN events
    BY DEF Typed, RestTyped
  <1>2. ASSUME Stripe PROVE Typed'
    <2>1. PICK s \in Subs :
             \/ /\ Pays(s) \/ PaysOnPage(s) \/ GivesUp(s) \/ Renews(s) \/ DunningEnds(s) \/ PeriodEnds(s)
                /\ UNCHANGED disputed
             \/ Dispute(s)
      BY <1>2, Zenon DEF Stripe
    <2>2. UNCHANGED <<rowVars, reading, cache, job, offered, checkout, keys, recorded, ordered,
                      adminWrites, now>>
      BY <1>2, Zenon DEF Stripe
    <2>3. /\ sub' \in [Subs -> SubRow] /\ events' \in Seq(EventRow)
          /\ recorded \subseteq DOMAIN events'
      <3>1. CASE Dispute(s)
        BY <1>1, <3>1, DisputeSays, ToldTyped, Lists
      <3>2. CASE ~Dispute(s)
        BY <2>1, <3>2, StripeSaysSo, StripeTypes
      <3>3. QED
        BY <3>1, <3>2
    <2>4. disputed' \in BOOLEAN
      BY <1>1, <2>1 DEF RestTyped, Dispute
    <2>5. RowTyped' /\ ReadTyped'
      BY <1>1, <2>2 DEF RowTyped, ReadTyped, rowVars
    <2>6. StripeTyped'
      BY <1>1, <2>2, <2>3 DEF StripeTyped
    <2>7. RestTyped'
      BY <1>1, <2>2, <2>3, <2>4 DEF RestTyped
    <2>8. QED
      BY <2>5, <2>6, <2>7 DEF Typed
  <1>3. ASSUME KeysExpire PROVE Typed'
    <2>1. RowTyped' /\ ReadTyped'
      BY <1>1, <1>3 DEF KeysExpire, RowTyped, ReadTyped, rowVars
    <2>2. StripeTyped' /\ RestTyped'
      BY <1>1, <1>3 DEF KeysExpire, StripeTyped, RestTyped, stripeVars
    <2>3. QED
      BY <2>1, <2>2 DEF Typed
  <1>4. ASSUME Tick PROVE Typed'
    <2>1. RowTyped' /\ ReadTyped'
      BY <1>1, <1>4 DEF Tick, RowTyped, ReadTyped, rowVars
    <2>2. StripeTyped'
      BY <1>1, <1>4 DEF Tick, StripeTyped
    <2>3. now' \in 0..(MaxPeriods + 1)
      BY <1>1, <1>4, Constants DEF Tick, RestTyped
    <2>4. RestTyped'
      BY <1>1, <1>4, <2>3 DEF Tick, RestTyped
    <2>5. QED
      BY <2>1, <2>2, <2>4 DEF Typed
  <1>5. ASSUME NEW s \in Subs, Confirm(s) PROVE Typed'
    <2>1. /\ sub' \in [Subs -> SubRow] /\ events' \in Seq(EventRow)
          /\ recorded \subseteq DOMAIN events'
          /\ keys' \subseteq [op : Ops, sub : Subs]
      <3>1. [op |-> "confirm", sub |-> s] \in [op : Ops, sub : Subs]
        BY DEF Ops
      <3>2. CASE UNCHANGED <<sub, events, keys>>
        BY <1>1, <3>2 DEF StripeTyped
      <3>3. CASE /\ Told(s, "incomplete", <<"created">>)
                 /\ keys' = keys \cup {[op |-> "confirm", sub |-> s]}
        BY <1>1, <3>1, <3>3, ToldTyped, Lists DEF StripeTyped
      <3>4. QED
        BY <1>5, <3>2, <3>3, ConfirmSays
    <2>2. /\ (subId' = s /\ offered' = offered \cup {s}) \/ UNCHANGED <<subId, offered>>
          /\ UNCHANGED <<plan, expiry, reading, cache, job, checkout, recorded, ordered, disputed,
                         adminWrites, now>>
      BY <1>5, ConfirmSays
    <2>3. RowTyped' /\ ReadTyped'
      BY <1>1, <2>2 DEF RowTyped, ReadTyped
    <2>4. StripeTyped'
      BY <1>1, <2>1, <2>2 DEF StripeTyped
    <2>5. RestTyped'
      BY <1>1, <2>1, <2>2 DEF RestTyped
    <2>6. QED
      BY <2>3, <2>4, <2>5 DEF Typed
  <1>6. ASSUME NEW s \in Subs, CreateCheckoutSession(s) PROVE Typed'
    <2>1. RowTyped' /\ ReadTyped'
      BY <1>1, <1>6 DEF CreateCheckoutSession, RowTyped, ReadTyped, rowVars
    <2>2. StripeTyped' /\ RestTyped'
      BY <1>1, <1>6 DEF CreateCheckoutSession, StripeTyped, RestTyped
    <2>3. QED
      BY <2>1, <2>2 DEF Typed
  <1>7. ASSUME NEW s \in Subs, ChangesInPortal(s) PROVE Typed'
    <2>1. /\ EndsOtherwise(s)
          /\ UNCHANGED <<rowVars, reading, cache, job, offered, checkout, keys, recorded, ordered,
                         disputed, adminWrites, now>>
      BY <1>7, PortalSays
    <2>2. /\ sub' \in [Subs -> SubRow] /\ events' \in Seq(EventRow)
          /\ recorded \subseteq DOMAIN events'
      BY <1>1, <2>1, ToldTyped, Lists DEF EndsOtherwise
    <2>3. RowTyped' /\ ReadTyped'
      BY <1>1, <2>1 DEF RowTyped, ReadTyped, rowVars
    <2>4. StripeTyped' /\ RestTyped'
      BY <1>1, <2>1, <2>2 DEF StripeTyped, RestTyped
    <2>5. QED
      BY <2>3, <2>4 DEF Typed
  <1>8. ASSUME NEW op \in Ops, NEW ending \in BOOLEAN, Modify(op, ending) PROVE Typed'
    <2>1. /\ \/ /\ subId \in Subs /\ EndsOtherwise(subId)
                /\ keys' = keys \cup {[op |-> op, sub |-> subId]}
             \/ UNCHANGED <<sub, events, keys>>
          /\ UNCHANGED <<rowVars, reading, cache, job, offered, checkout, recorded, ordered, disputed,
                         adminWrites, now>>
      BY <1>8, ModifySays
    <2>2. /\ sub' \in [Subs -> SubRow] /\ events' \in Seq(EventRow)
          /\ recorded \subseteq DOMAIN events'
          /\ keys' \subseteq [op : Ops, sub : Subs]
      <3>1. CASE UNCHANGED <<sub, events, keys>>
        BY <1>1, <3>1 DEF StripeTyped
      <3>2. CASE /\ subId \in Subs /\ EndsOtherwise(subId)
                 /\ keys' = keys \cup {[op |-> op, sub |-> subId]}
        <4>1. [op |-> op, sub |-> subId] \in [op : Ops, sub : Subs]
          BY <3>2
        <4>2. /\ sub' \in [Subs -> SubRow] /\ events' \in Seq(EventRow)
              /\ recorded \subseteq DOMAIN events'
          BY <1>1, <3>2, ToldTyped, Lists DEF EndsOtherwise
        <4>3. QED
          BY <1>1, <3>2, <4>1, <4>2 DEF StripeTyped
      <3>3. QED
        BY <2>1, <3>1, <3>2
    <2>3. RowTyped' /\ ReadTyped'
      BY <1>1, <2>1 DEF RowTyped, ReadTyped, rowVars
    <2>4. StripeTyped' /\ RestTyped'
      BY <1>1, <2>1, <2>2 DEF StripeTyped, RestTyped
    <2>5. QED
      BY <2>3, <2>4 DEF Typed
  <1>9. ASSUME Webhook PROVE Typed'
    <2>1. PICK n \in DOMAIN events : WebhookMoves(n)
      BY <1>9, WebhookSays
    <2>2. RowTyped' /\ UNCHANGED webhookLeaves
      BY <1>9, WebhookSays
    <2>3. ReadTyped' /\ StripeTyped'
      BY <1>1, <2>2 DEF webhookLeaves, ReadTyped, StripeTyped
    <2>4. RestTyped'
      BY <1>1, <2>1, <2>2 DEF webhookLeaves, RestTyped, WebhookMoves
    <2>5. QED
      BY <2>2, <2>3, <2>4 DEF Typed
  <1>10. ASSUME UNCHANGED readLeaves PROVE StripeTyped' /\ RestTyped'
    BY <1>1, <1>10 DEF readLeaves, stripeVars, StripeTyped, RestTyped
  <1>11. ASSUME ReadCached PROVE Typed'
    <2>1. RowTyped' /\ UNCHANGED <<reading, cache, readLeaves>>
      BY <1>11, ReadCachedSays
    <2>2. ReadTyped'
      BY <1>1, <2>1 DEF ReadTyped
    <2>3. QED
      BY <1>10, <2>1, <2>2 DEF Typed
  <1>12. ASSUME NEW r \in Readers, ReadStart(r) \/ StripeAnswers(r) PROVE Typed'
    <2>1. /\ reading' \in [Readers -> {IdleRead} \cup ReadRow]
          /\ UNCHANGED <<rowVars, cache, readLeaves>>
      BY <1>12, ReadStartSays, AnswerSays DEF ReadsOn
    <2>2. RowTyped' /\ ReadTyped'
      BY <1>1, <2>1 DEF RowTyped, ReadTyped, rowVars
    <2>3. QED
      BY <1>10, <2>1, <2>2 DEF Typed
  <1>13. ASSUME NEW r \in Readers, ReadFinish(r) PROVE Typed'
    <2>1. /\ reading' \in [Readers -> {IdleRead} \cup ReadRow] /\ reading[r] \in ReadRow
          /\ \/ UNCHANGED <<rowVars, cache>>
             \/ /\ reading[r].snap \in Snapshot
                /\ cache' = [cache EXCEPT ![reading[r].sub] = reading[r].snap]
                /\ RowTyped'
          /\ UNCHANGED readLeaves
      BY <1>13, FinishSays DEF ReadsOn
    <2>2. ReadTyped'
      BY <1>1, <2>1 DEF ReadTyped
    <2>3. RowTyped'
      BY <1>1, <2>1 DEF RowTyped, rowVars
    <2>4. QED
      BY <1>10, <2>1, <2>2, <2>3 DEF Typed
  <1>14. ASSUME NEW s \in Subs, CacheExpires(s) PROVE Typed'
    <2>1. ReadTyped' /\ RowTyped'
      BY <1>1, <1>14 DEF CacheExpires, ReadTyped, RowTyped, rowVars
    <2>2. StripeTyped' /\ RestTyped'
      BY <1>1, <1>14 DEF CacheExpires, stripeVars, StripeTyped, RestTyped
    <2>3. QED
      BY <2>1, <2>2 DEF Typed
  <1>15. ASSUME JobStep PROVE Typed'
    <2>1. RowTyped' /\ job' \in BOOLEAN
      BY <1>1, <1>15, Stays DEF JobStep, JobSelect, JobCommit, RowTyped, rowVars
    <2>2. UNCHANGED <<reading, cache, stripeVars, keys, recorded, adminWrites, now>>
      BY <1>15 DEF JobStep, JobSelect, JobCommit
    <2>3. ReadTyped' /\ StripeTyped' /\ RestTyped'
      BY <1>1, <2>1, <2>2 DEF stripeVars, ReadTyped, StripeTyped, RestTyped
    <2>4. QED
      BY <2>1, <2>3 DEF Typed
  <1>16. ASSUME Staff PROVE Typed'
    <2>1. now + 1 \in Time
      BY <1>1, Constants DEF RestTyped
    <2>2. RowTyped'
      BY <1>1, <1>16, <2>1 DEF Staff, AdminSetsPlan, AdminUpdatesUser, RowTyped
    <2>3. /\ adminWrites < MaxAdminWrites /\ adminWrites' = adminWrites + 1
          /\ UNCHANGED <<reading, cache, job, stripeVars, keys, recorded, now>>
      BY <1>16 DEF Staff, AdminSetsPlan, AdminUpdatesUser
    <2>4. adminWrites' \in 0..MaxAdminWrites
      BY <1>1, <2>3, Constants DEF RestTyped
    <2>5. ReadTyped' /\ StripeTyped' /\ RestTyped'
      BY <1>1, <2>3, <2>4 DEF stripeVars, ReadTyped, StripeTyped, RestTyped
    <2>6. QED
      BY <2>2, <2>5 DEF Typed
  <1>17. ASSUME UNCHANGED vars PROVE Typed'
    <2>1. RowTyped' /\ ReadTyped'
      BY <1>1, <1>17 DEF vars, RowTyped, ReadTyped
    <2>2. StripeTyped' /\ RestTyped'
      BY <1>1, <1>17 DEF vars, StripeTyped, RestTyped
    <2>3. QED
      BY <2>1, <2>2 DEF Typed
  <1>18. Cancel \/ Reactivate =>
            \E op \in Ops, ending \in BOOLEAN : Modify(op, ending)
    BY DEF Cancel, Reactivate, Ops
  <1>19. QED
    BY <1>2, <1>3, <1>4, <1>5, <1>6, <1>7, <1>8, <1>9, <1>11, <1>12, <1>13, <1>14, <1>15, <1>16,
       <1>17, <1>18, Zenon DEF Next, Request, Read

\* The user's row, the reads in flight, Stripe's objects and what was told of them keep the
\* domains that the proofs below cite, whatever the number of subscriptions.
THEOREM TypesHold == Spec => []Typed
  <1>1. Init => Typed
    <2> SUFFICES ASSUME Init PROVE Typed
      OBVIOUS
    <2>1. RowTyped
      BY Stays DEF Init, RowTyped
    <2>2. ReadTyped
      BY DEF Init, ReadTyped
    <2>3. [status |-> "none", end |-> 0, ending |-> FALSE] \in SubRow
      BY Named, Stays DEF SubRow
    <2>4. StripeTyped
      BY <2>3 DEF Init, StripeTyped
    <2>5. RestTyped
      <3>1. job \in BOOLEAN /\ ordered \in BOOLEAN /\ disputed \in BOOLEAN
        BY DEF Init
      <3>2. recorded \subseteq DOMAIN events
        BY DEF Init
      <3>3. adminWrites \in 0..MaxAdminWrites /\ now \in 0..(MaxPeriods + 1)
        BY Constants DEF Init
      <3>4. QED
        BY <3>1, <3>2, <3>3 DEF RestTyped
    <2>6. QED
      BY <2>1, <2>2, <2>4, <2>5 DEF Typed
  <1>2. QED
    BY <1>1, TypeStep, PTL DEF Spec

-----------------------------------------------------------------------------
(* A user with one subscription. *)

Gone(s) == sub[s].status \in DeadStatus

Unpaid == {"none", "incomplete"}

ConfirmKey(s) == [op |-> "confirm", sub |-> s]

\* Of all that Stripe has told, only the first event says created, and only what is so
\* for good says dead, disputed or paid.
Truthful(s) ==
    /\ events = <<>> <=> sub[s].status = "none"
    /\ \A n \in DOMAIN events :
         /\ events[n].type = "created" <=> n = 1
         /\ events[n].type = "deleted" \/ events[n].status \in DeadStatus => Gone(s)
         /\ events[n].type = "dispute" => disputed
         /\ events[n].type = "invoice_paid" => sub[s].status \notin Unpaid

\* No snapshot says dead of a living one.
Seen(s) ==
    /\ cache[s] # Null /\ cache[s].status \in DeadStatus => Gone(s)
    /\ \A r \in Readers :
         reading[r].snap # Null /\ reading[r].snap.status \in DeadStatus => Gone(s)

\* One who paid without the app cannot get the secret by confirming again.
Keyed(s) ==
    ConfirmKey(s) \in keys =>
        sub[s].status # "none" /\ (sub[s].status \in ActiveStatus => s \in offered)

\* The row has the id once the app got the secret, the first event is in, or a read began.
Known(s) ==
    /\ s \in offered \/ 1 \in recorded => subId = s
    /\ \A r \in Readers : reading[r] # IdleRead => subId = s

\* What the row shows of one that lives.
Shown(s) ==
    /\ plan \in {"FREE", "PREMIUM"}
    /\ plan = "PREMIUM" /\ subId = Null => sub[s].status \in ActiveStatus /\ ~ordered
    /\ job => plan = "PREMIUM" /\ s \notin offered /\ sub[s].status \in ActiveStatus /\ ~ordered
    /\ 1 \in recorded /\ (s \in offered \/ ConfirmKey(s) \in keys \/ ordered) => plan = "PREMIUM"

Row(s) == Undisturbed /\ ~Gone(s) => Known(s) /\ Shown(s)

InStep(s) == Truthful(s) /\ Seen(s) /\ Keyed(s) /\ Row(s)

\* The same steps, as they look to the user's only subscription.
SubMoves(s) ==
    \/ StripeSays(s) /\ UNCHANGED disputed
    \/ /\ sub[s].status \in ActiveStatus /\ disputed'
       /\ Told(s, sub[s].status, <<"dispute">>)
    \/ /\ sub[s].status = "none" /\ UNCHANGED disputed
       /\ Told(s, "incomplete", <<"created">>)
    \/ EndsOtherwise(s) /\ UNCHANGED disputed
    \/ UNCHANGED <<sub, events, disputed>>

KeyMoves(s) ==
    /\ offered \subseteq offered'
    /\ ConfirmKey(s) \in keys' =>
         \/ ConfirmKey(s) \in keys
         \/ sub[s].status = "none" /\ sub'[s].status = "incomplete"

SnapMoves(s) ==
    \/ /\ UNCHANGED reading
       /\ cache' = cache \/ cache'[s] = Null
    \/ \E r \in Readers :
         /\ UNCHANGED sub
         /\ \A u \in Readers \ {r} : reading'[u] = reading[u]
         /\ \/ /\ UNCHANGED cache
               /\ \/ reading'[r].snap = Null
                  \/ /\ reading'[r].snap.status = sub[s].status
                     /\ reading'[r].snap.end = sub[s].end
            \/ reading'[r].snap = Null /\ cache'[s] = reading[r].snap

Rests == UNCHANGED <<plan, subId>>

RowMoves(s) ==
    \/ /\ UNCHANGED <<plan, subId, offered, recorded, job>>
       /\ \A r \in Readers : reading'[r] # IdleRead => reading[r] # IdleRead
    \/ adminWrites' # 0
    \/ /\ plan = "FREE" /\ subId' = s /\ offered' = offered \cup {s}
       /\ sub[s].status = "none" \/ ConfirmKey(s) \in keys
       /\ UNCHANGED <<plan, recorded, job, reading>>
    \/ /\ \E n \in DOMAIN events : WebhookMoves(n)
       /\ UNCHANGED <<reading, job, offered, keys, sub>>
    \/ \E snap \in {cache[s]} \cup {reading[r].snap : r \in Readers} :
         /\ snap # Null /\ Heals(snap)
         /\ subId = s \/ \E r \in Readers : reading[r] # IdleRead
         /\ \A r \in Readers : reading'[r] # IdleRead => reading[r] # IdleRead
         /\ UNCHANGED <<recorded, job, offered, keys, sub>>
    \/ /\ subId = s
       /\ UNCHANGED <<plan, subId, offered, recorded, job, keys, sub>>
    \/ /\ plan = "PREMIUM" /\ subId = Null
       /\ UNCHANGED <<plan, subId, offered, recorded, reading, keys, sub>>
    \/ /\ job /\ ~job'
       /\ plan' = "FREE"
       /\ UNCHANGED <<subId, offered, recorded, reading, keys, sub>>

Steady == UNCHANGED ordered /\ (adminWrites' = 0 => adminWrites = 0)

Moves(s) == SubMoves(s) /\ KeyMoves(s) /\ SnapMoves(s) /\ RowMoves(s) /\ Steady

LEMMA NothingSold ==
  ASSUME NEW s, UNCHANGED <<sub, events, disputed>>
  PROVE  SubMoves(s)
  BY Zenon DEF SubMoves

LEMMA NoKey ==
  ASSUME NEW s, UNCHANGED <<keys, offered>>
  PROVE  KeyMoves(s)
  BY Zenon DEF KeyMoves

LEMMA NoSnapshot ==
  ASSUME NEW s, UNCHANGED <<reading, cache>>
  PROVE  SnapMoves(s)
  BY Zenon DEF SnapMoves

LEMMA NothingShown ==
  ASSUME NEW s, UNCHANGED <<plan, subId, offered, recorded, job, reading>>
  PROVE  RowMoves(s)
  BY Zenon DEF RowMoves

LEMMA NoStaff ==
  ASSUME UNCHANGED <<ordered, adminWrites>>
  PROVE  Steady
  BY Zenon DEF Steady

LEMMA EveryMove ==
  ASSUME Typed, NEW s \in Subs, Subs = {s}, [Next]_vars
  PROVE  Moves(s)
  <1>1. /\ Null # s /\ \A u \in Subs : u = s
        /\ StripeTyped /\ ReadTyped /\ adminWrites \in Nat
    BY Constants DEF Typed, RestTyped
  <1>2. ASSUME Stripe PROVE Moves(s)
    <2>1. \/ /\ Pays(s) \/ PaysOnPage(s) \/ GivesUp(s) \/ Renews(s) \/ DunningEnds(s) \/ PeriodEnds(s)
             /\ UNCHANGED disputed
          \/ Dispute(s)
      BY <1>1, <1>2, Zenon DEF Stripe
    <2>2. UNCHANGED <<rowVars, reading, cache, job, offered, checkout, keys, recorded, ordered,
                      adminWrites, now>>
      BY <1>2, Zenon DEF Stripe
    <2>3. SubMoves(s)
      BY <2>1, StripeSaysSo, DisputeSays DEF SubMoves
    <2>4. KeyMoves(s) /\ SnapMoves(s) /\ RowMoves(s) /\ Steady
      BY <2>2 DEF KeyMoves, SnapMoves, RowMoves, Steady, rowVars
    <2>5. QED
      BY <2>3, <2>4 DEF Moves
  <1>3. ASSUME KeysExpire PROVE Moves(s)
    BY <1>3 DEF KeysExpire, Moves, SubMoves, KeyMoves, SnapMoves, RowMoves, Steady, rowVars, stripeVars
  <1>4. ASSUME Tick PROVE Moves(s)
    BY <1>4 DEF Tick, Moves, SubMoves, KeyMoves, SnapMoves, RowMoves, Steady, rowVars
  <1>5. ASSUME Confirm(s) PROVE Moves(s)
    <2>1. /\ \/ /\ sub[s].status = "none" /\ Told(s, "incomplete", <<"created">>)
                /\ keys' = keys \cup {ConfirmKey(s)}
             \/ /\ ConfirmKey(s) \in keys
                /\ UNCHANGED <<sub, events, keys>>
          /\ (subId' = s /\ offered' = offered \cup {s}) \/ UNCHANGED <<subId, offered>>
          /\ plan = "FREE"
          /\ UNCHANGED <<plan, expiry, reading, cache, job, checkout, recorded, ordered, disputed,
                         adminWrites, now>>
      BY <1>5, ConfirmSays DEF ConfirmKey
    <2>2. Told(s, "incomplete", <<"created">>) => sub'[s].status = "incomplete"
      BY DEF Told, TurnsTo
    <2>3. SubMoves(s) /\ KeyMoves(s)
      BY <2>1, <2>2 DEF SubMoves, KeyMoves
    <2>4. SnapMoves(s) /\ RowMoves(s) /\ Steady
      BY <2>1 DEF SnapMoves, RowMoves, Steady
    <2>5. QED
      BY <2>3, <2>4 DEF Moves
  <1>6. ASSUME CreateCheckoutSession(s) PROVE Moves(s)
    BY <1>6 DEF CreateCheckoutSession, Moves, SubMoves, KeyMoves, SnapMoves, RowMoves, Steady, rowVars
  <1>7. ASSUME ChangesInPortal(s) PROVE Moves(s)
    <2>1. /\ EndsOtherwise(s)
          /\ UNCHANGED <<rowVars, reading, cache, job, offered, checkout, keys, recorded, ordered,
                         disputed, adminWrites, now>>
      BY <1>7, PortalSays
    <2>2. QED
      BY <2>1 DEF Moves, SubMoves, KeyMoves, SnapMoves, RowMoves, Steady, rowVars
  <1>8. ASSUME NEW op \in {"cancel", "reactivate"}, NEW ending \in BOOLEAN, Modify(op, ending)
        PROVE Moves(s)
    <2>1. /\ \/ /\ subId \in Subs /\ EndsOtherwise(subId)
                /\ keys' = keys \cup {[op |-> op, sub |-> subId]}
             \/ UNCHANGED <<sub, events, keys>>
          /\ UNCHANGED <<rowVars, reading, cache, job, offered, checkout, recorded, ordered, disputed,
                         adminWrites, now>>
      BY <1>8, ModifySays DEF Ops
    <2>2. ConfirmKey(s) # [op |-> op, sub |-> subId]
      BY DEF ConfirmKey
    <2>3. EndsOtherwise(s) \/ UNCHANGED <<sub, events>>
      BY <1>1, <2>1
    <2>4. SubMoves(s) /\ KeyMoves(s)
      BY <2>1, <2>2, <2>3 DEF SubMoves, KeyMoves
    <2>5. SnapMoves(s) /\ RowMoves(s) /\ Steady
      BY <2>1 DEF SnapMoves, RowMoves, Steady, rowVars
    <2>6. QED
      BY <2>4, <2>5 DEF Moves
  <1>9. ASSUME Webhook PROVE Moves(s)
    <2>1. (\E n \in DOMAIN events : WebhookMoves(n)) /\ UNCHANGED webhookLeaves
      BY <1>9, WebhookSays
    <2>2. SubMoves(s) /\ KeyMoves(s) /\ SnapMoves(s) /\ Steady
      BY <2>1 DEF webhookLeaves, SubMoves, KeyMoves, SnapMoves, Steady
    <2>3. RowMoves(s)
      BY <2>1 DEF webhookLeaves, RowMoves
    <2>4. QED
      BY <2>2, <2>3 DEF Moves
  <1>10. ASSUME UNCHANGED readLeaves PROVE SubMoves(s) /\ KeyMoves(s) /\ Steady
    BY <1>10 DEF readLeaves, stripeVars, SubMoves, KeyMoves, Steady
  <1>11. ASSUME ReadCached PROVE Moves(s)
    <2>1. /\ subId = s /\ cache[s] # Null /\ Heals(cache[s])
          /\ UNCHANGED <<reading, cache, readLeaves>>
      BY <1>1, <1>11, ReadCachedSays DEF ReadCached
    <2>2. SnapMoves(s)
      BY <2>1 DEF SnapMoves
    <2>3. RowMoves(s)
      BY <2>1 DEF RowMoves, readLeaves, stripeVars
    <2>4. QED
      BY <1>10, <2>1, <2>2, <2>3 DEF Moves
  <1>12. ASSUME NEW r \in Readers, ReadStart(r) PROVE Moves(s)
    <2>1. /\ subId = s
          /\ \E new \in ReadRow : new.snap = Null /\ ReadsOn(r, new)
          /\ UNCHANGED <<rowVars, cache, readLeaves>>
      BY <1>1, <1>12, ReadStartSays
    <2>2. SnapMoves(s)
      BY <2>1 DEF SnapMoves, readLeaves, stripeVars, ReadsOn
    <2>3. RowMoves(s)
      BY <2>1 DEF RowMoves, readLeaves, stripeVars, rowVars
    <2>4. QED
      BY <1>10, <2>1, <2>2, <2>3 DEF Moves
  <1>13. ASSUME NEW r \in Readers, StripeAnswers(r) PROVE Moves(s)
    <2>1. PICK new \in ReadRow :
            /\ \/ new.snap = Null
               \/ /\ new.snap.status = sub[reading[r].sub].status
                  /\ new.snap.end = sub[reading[r].sub].end
            /\ ReadsOn(r, new)
      BY <1>13, AnswerSays
    <2>2. reading[r] \in ReadRow /\ UNCHANGED <<rowVars, cache, readLeaves>>
      BY <1>13, AnswerSays
    <2>3. reading[r].sub = s /\ reading[r].phase # IdleRead.phase
      BY <1>1, <2>2, Idles DEF ReadRow, Phases
    <2>4. SnapMoves(s)
      BY <2>1, <2>2, <2>3 DEF SnapMoves, readLeaves, stripeVars, ReadsOn
    <2>5. \A u \in Readers : reading'[u] # IdleRead => reading[u] # IdleRead
      BY <2>1, <2>3 DEF ReadsOn
    <2>6. RowMoves(s)
      BY <2>2, <2>5 DEF RowMoves, readLeaves, stripeVars, rowVars
    <2>7. QED
      BY <1>10, <2>2, <2>4, <2>6 DEF Moves
  <1>14. ASSUME NEW r \in Readers, ReadFinish(r) PROVE Moves(s)
    <2>1. /\ reading[r] \in ReadRow /\ ReadsOn(r, IdleRead)
          /\ \/ reading[r].snap = Null /\ UNCHANGED <<rowVars, cache>>
             \/ /\ reading[r].snap \in Snapshot
                /\ cache' = [cache EXCEPT ![reading[r].sub] = reading[r].snap]
                /\ Heals(reading[r].snap) /\ RowTyped'
          /\ UNCHANGED readLeaves
      BY <1>14, FinishSays
    <2>2. reading[r].sub = s /\ reading[r].phase # IdleRead.phase
      BY <1>1, <2>1, Idles DEF ReadRow, Phases
    <2>3. \A u \in Readers : reading'[u] # IdleRead => reading[u] # IdleRead
      BY <2>1, <2>2 DEF ReadsOn
    <2>4. SnapMoves(s)
      BY <1>1, <2>1, <2>2, Idles DEF SnapMoves, readLeaves, stripeVars, ReadsOn, ReadTyped
    <2>5. RowMoves(s)
      <3>1. CASE reading[r].snap = Null
        BY <1>14, <2>1, <2>3, <3>1 DEF RowMoves, readLeaves, stripeVars, rowVars, ReadFinish
      <3>2. CASE reading[r].snap # Null
        <4>1. Heals(reading[r].snap) /\ reading[r] # IdleRead
          BY <2>1, <2>2, <3>2
        <4>2. UNCHANGED <<recorded, job, offered, keys, sub>>
          BY <2>1 DEF readLeaves, stripeVars
        <4>3. QED
          BY <2>3, <3>2, <4>1, <4>2 DEF RowMoves
      <3>3. QED
        BY <3>1, <3>2
    <2>6. QED
      BY <1>10, <2>1, <2>4, <2>5 DEF Moves
  <1>15. ASSUME CacheExpires(s) PROVE Moves(s)
    <2>1. cache'[s] = Null
          /\ UNCHANGED <<rowVars, reading, job, stripeVars, keys, recorded, adminWrites, now>>
      BY <1>1, <1>15 DEF CacheExpires, ReadTyped
    <2>2. QED
      BY <2>1 DEF Moves, SubMoves, KeyMoves, SnapMoves, RowMoves, Steady, rowVars, stripeVars
  <1>16. ASSUME JobStep PROVE Moves(s)
    <2>1. UNCHANGED <<reading, cache, stripeVars, keys, recorded, adminWrites, now>>
      BY <1>16 DEF JobStep, JobSelect, JobCommit
    <2>2. SubMoves(s) /\ KeyMoves(s) /\ SnapMoves(s) /\ Steady
      BY <2>1 DEF stripeVars, SubMoves, KeyMoves, SnapMoves, Steady
    <2>3. \/ /\ plan = "PREMIUM" /\ subId = Null /\ UNCHANGED rowVars
          \/ job /\ job' = FALSE /\ plan' = "FREE" /\ UNCHANGED subId
      BY <1>16 DEF JobStep, JobSelect, JobCommit
    <2>4. RowMoves(s)
      BY <2>1, <2>3 DEF stripeVars, rowVars, RowMoves
    <2>5. QED
      BY <2>2, <2>4 DEF Moves
  <1>17. ASSUME Staff PROVE Moves(s)
    <2>1. /\ adminWrites' = adminWrites + 1
          /\ UNCHANGED <<reading, cache, job, stripeVars, keys, recorded, now>>
      BY <1>17 DEF Staff, AdminSetsPlan, AdminUpdatesUser
    <2>2. adminWrites' # 0
      BY <1>1, <2>1
    <2>3. QED
      BY <2>1, <2>2 DEF Moves, SubMoves, KeyMoves, SnapMoves, RowMoves, Steady, stripeVars
  <1>18. ASSUME UNCHANGED vars PROVE Moves(s)
    BY <1>18 DEF vars, Moves, SubMoves, KeyMoves, SnapMoves, RowMoves, Steady
  <1>19. Cancel \/ Reactivate =>
            \E op \in {"cancel", "reactivate"}, ending \in BOOLEAN : Modify(op, ending)
    BY DEF Cancel, Reactivate
  <1>20. \A u \in Subs : u = s
    BY <1>1
  <1>21. QED
    BY <1>2, <1>3, <1>4, <1>5, <1>6, <1>7, <1>8, <1>9, <1>11, <1>12, <1>13, <1>14, <1>15, <1>16,
       <1>17, <1>18, <1>19, <1>20, Zenon DEF Next, Request, Read

-----------------------------------------------------------------------------
(* Each part of the invariant, step by step. *)

\* Events that say nothing the new status does not bear out.
Honest(s, status, types) ==
    /\ status # "none"
    /\ Gone(s) => status \in DeadStatus
    /\ sub[s].status \notin Unpaid => status \notin Unpaid
    /\ \A k \in 1..Len(types) :
         /\ types[k] = "created" <=> (k = 1 /\ sub[s].status = "none")
         /\ types[k] = "deleted" => status \in DeadStatus
         /\ types[k] = "dispute" => disputed'
         /\ types[k] = "invoice_paid" => status \notin Unpaid

LEMMA TruthTold ==
  ASSUME StripeTyped, NEW s \in Subs, NEW status, NEW types \in Seq(EventType), Len(types) > 0,
         Told(s, status, types), Truthful(s), Honest(s, status, types), disputed => disputed'
  PROVE  Truthful(s)'
  <1>1. /\ events' \in Seq(EventRow) /\ Len(events') = Len(events) + Len(types)
        /\ \A n \in 1..Len(events) : events'[n] = events[n]
        /\ \A n \in 1..Len(types) :
             /\ events'[Len(events) + n].type = types[n]
             /\ events'[Len(events) + n].status = status
        /\ sub'[s].status = status
    BY DEF Told, TurnsTo, Tells
  <1>2. /\ Len(events) \in Nat /\ Len(types) \in Nat /\ Len(types) > 0
        /\ events \in Seq(EventRow) /\ (events = <<>> <=> Len(events) = 0)
    BY DEF StripeTyped
  <1>3. events' # <<>>
    BY <1>1, <1>2
  <1>4. \A n \in DOMAIN events' :
          \/ n \in DOMAIN events /\ events'[n] = events[n]
          \/ \E k \in 1..Len(types) :
               /\ n = Len(events) + k /\ events'[n].type = types[k] /\ events'[n].status = status
    <2> TAKE n \in DOMAIN events'
    <2>1. n \in 1..Len(events')
      BY <1>1
    <2>2. CASE n \in 1..Len(events)
      BY <1>1, <1>2, <2>2
    <2>3. CASE ~(n \in 1..Len(events))
      <3>1. n - Len(events) \in 1..Len(types) /\ n = Len(events) + (n - Len(events))
        BY <1>1, <1>2, <2>1, <2>3
      <3>2. QED
        BY <1>1, <3>1
    <2>4. QED
      BY <2>2, <2>3
  <1>5. Gone(s)' <=> status \in DeadStatus
    BY <1>1 DEF Gone
  <1>6. ASSUME NEW n \in DOMAIN events'
        PROVE  /\ events'[n].type = "created" <=> n = 1
               /\ events'[n].type = "deleted" \/ events'[n].status \in DeadStatus => Gone(s)'
               /\ events'[n].type = "dispute" => disputed'
               /\ events'[n].type = "invoice_paid" => sub'[s].status \notin Unpaid
    <2>1. CASE n \in DOMAIN events /\ events'[n] = events[n]
      BY <1>1, <1>5, <2>1 DEF Truthful, Honest
    <2>2. CASE \E k \in 1..Len(types) :
                 /\ n = Len(events) + k /\ events'[n].type = types[k] /\ events'[n].status = status
      <3>1. PICK k \in 1..Len(types) :
                 /\ n = Len(events) + k /\ events'[n].type = types[k] /\ events'[n].status = status
        BY <2>2
      <3>2. n = 1 <=> (k = 1 /\ events = <<>>)
        BY <1>2, <3>1
      <3>3. events = <<>> <=> sub[s].status = "none"
        BY DEF Truthful
      <3>4. QED
        BY <1>1, <1>5, <3>1, <3>2, <3>3 DEF Honest
    <2>3. QED
      BY <1>4, <2>1, <2>2
  <1>7. sub'[s].status # "none"
    BY <1>1 DEF Honest
  <1>8. QED
    BY <1>3, <1>6, <1>7 DEF Truthful

LEMMA Statuses ==
  /\ \A x \in ActiveStatus : x \notin DeadStatus /\ x \notin Unpaid
  /\ \A x \in DeadStatus : x \notin Unpaid
  /\ "active" \in ActiveStatus /\ "past_due" \in ActiveStatus
  /\ "unpaid" \in DeadStatus /\ "canceled" \in DeadStatus /\ "incomplete_expired" \in DeadStatus
  /\ "none" \in Unpaid /\ "incomplete" \in Unpaid
  /\ "none" \notin DeadStatus /\ "incomplete" \notin DeadStatus
  /\ "none" \notin ActiveStatus /\ "incomplete" \notin ActiveStatus
  BY DEF ActiveStatus, DeadStatus, Unpaid

LEMMA TruthfulStep ==
  ASSUME StripeTyped, NEW s \in Subs, Truthful(s), SubMoves(s)
  PROVE  Truthful(s)'
  <1>1. ASSUME StripeSays(s), UNCHANGED disputed PROVE Truthful(s)'
    <2>1. CASE sub[s].status = "incomplete" /\ Told(s, "active", <<"updated", "invoice_paid">>)
      <3>1. Honest(s, "active", <<"updated", "invoice_paid">>) /\ Len(<<"updated", "invoice_paid">>) > 0
        BY <1>1, <2>1, Statuses DEF Honest, Gone
      <3>2. QED
        BY <1>1, <2>1, <3>1, TruthTold, Lists
    <2>2. CASE sub[s].status = "none" /\ Told(s, "active", <<"created", "updated", "invoice_paid">>)
      <3>1. Honest(s, "active", <<"created", "updated", "invoice_paid">>) /\ Len(<<"created", "updated", "invoice_paid">>) > 0
        BY <1>1, <2>2, Statuses DEF Honest, Gone
      <3>2. QED
        BY <1>1, <2>2, <3>1, TruthTold, Lists
    <2>3. CASE sub[s].status = "incomplete" /\ Told(s, "incomplete_expired", <<"updated">>)
      <3>1. Honest(s, "incomplete_expired", <<"updated">>) /\ Len(<<"updated">>) > 0
        BY <1>1, <2>3, Statuses DEF Honest, Gone
      <3>2. QED
        BY <1>1, <2>3, <3>1, TruthTold, Lists
    <2>4. CASE sub[s].status \in ActiveStatus /\ Told(s, "active", <<"updated", "invoice_paid">>)
      <3>1. Honest(s, "active", <<"updated", "invoice_paid">>) /\ Len(<<"updated", "invoice_paid">>) > 0
        BY <1>1, <2>4, Statuses DEF Honest, Gone
      <3>2. QED
        BY <1>1, <2>4, <3>1, TruthTold, Lists
    <2>5. CASE sub[s].status \in ActiveStatus /\ Told(s, "past_due", <<"updated", "invoice_failed">>)
      <3>1. Honest(s, "past_due", <<"updated", "invoice_failed">>) /\ Len(<<"updated", "invoice_failed">>) > 0
        BY <1>1, <2>5, Statuses DEF Honest, Gone
      <3>2. QED
        BY <1>1, <2>5, <3>1, TruthTold, Lists
    <2>6. CASE sub[s].status \in ActiveStatus /\ Told(s, "unpaid", <<"updated">>)
      <3>1. Honest(s, "unpaid", <<"updated">>) /\ Len(<<"updated">>) > 0
        BY <1>1, <2>6, Statuses DEF Honest, Gone
      <3>2. QED
        BY <1>1, <2>6, <3>1, TruthTold, Lists
    <2>7. CASE sub[s].status \in ActiveStatus /\ Told(s, "canceled", <<"deleted">>)
      <3>1. Honest(s, "canceled", <<"deleted">>) /\ Len(<<"deleted">>) > 0
        BY <1>1, <2>7, Statuses DEF Honest, Gone
      <3>2. QED
        BY <1>1, <2>7, <3>1, TruthTold, Lists
    <2>8. QED
      BY <1>1, <2>1, <2>2, <2>3, <2>4, <2>5, <2>6, <2>7 DEF StripeSays
  <1>2. ASSUME sub[s].status \in ActiveStatus, disputed', Told(s, sub[s].status, <<"dispute">>)
        PROVE  Truthful(s)'
    <2>1. Honest(s, sub[s].status, <<"dispute">>) /\ Len(<<"dispute">>) > 0
      BY <1>2, Statuses DEF Honest, Gone
    <2>2. QED
      BY <1>2, <2>1, TruthTold, Lists
  <1>3. ASSUME sub[s].status = "none", UNCHANGED disputed, Told(s, "incomplete", <<"created">>)
        PROVE  Truthful(s)'
    <2>1. Honest(s, "incomplete", <<"created">>) /\ Len(<<"created">>) > 0
      BY <1>3, Statuses DEF Honest, Gone
    <2>2. QED
      BY <1>3, <2>1, TruthTold, Lists
  <1>4. ASSUME EndsOtherwise(s), UNCHANGED disputed PROVE Truthful(s)'
    <2>1. Honest(s, sub[s].status, <<"updated">>) /\ Len(<<"updated">>) > 0
      BY <1>4, Statuses DEF Honest, Gone, EndsOtherwise
    <2>2. QED
      BY <1>4, <2>1, TruthTold, Lists DEF EndsOtherwise
  <1>5. ASSUME UNCHANGED <<sub, events, disputed>> PROVE Truthful(s)'
    BY <1>5 DEF Truthful, Gone
  <1>6. QED
    BY <1>1, <1>2, <1>3, <1>4, <1>5 DEF SubMoves

LEMMA Onward ==
  ASSUME NEW s \in Subs, SubMoves(s)
  PROVE  /\ Gone(s) => Gone(s)'
         /\ sub[s].status \in ActiveStatus /\ ~Gone(s)' => sub'[s].status \in ActiveStatus
         /\ sub[s].status # "none" => sub'[s].status # "none"
         /\ disputed => disputed'
         /\ sub'[s].status \in ActiveStatus =>
              sub[s].status \in ActiveStatus \/ s \in offered \/ sub[s].status = "none"
  <1>1. \A status, types : Told(s, status, types) => sub'[s].status = status
    BY DEF Told, TurnsTo
  <1>2. CASE StripeSays(s) /\ UNCHANGED disputed
    BY <1>1, <1>2, Statuses DEF StripeSays, Gone
  <1>3. CASE /\ sub[s].status \in ActiveStatus /\ disputed'
             /\ Told(s, sub[s].status, <<"dispute">>)
    BY <1>1, <1>3, Statuses DEF Gone
  <1>4. CASE /\ sub[s].status = "none" /\ UNCHANGED disputed
             /\ Told(s, "incomplete", <<"created">>)
    BY <1>1, <1>4, Statuses DEF Gone
  <1>5. CASE EndsOtherwise(s) /\ UNCHANGED disputed
    BY <1>1, <1>5, Statuses DEF EndsOtherwise, Gone
  <1>6. CASE UNCHANGED <<sub, events, disputed>>
    BY <1>6 DEF Gone
  <1>7. QED
    BY <1>2, <1>3, <1>4, <1>5, <1>6 DEF SubMoves

LEMMA SeenStep ==
  ASSUME NEW s \in Subs, Seen(s), SubMoves(s), SnapMoves(s)
  PROVE  Seen(s)'
  <1>1. Gone(s) => Gone(s)'
    BY Onward
  <1>2. CASE UNCHANGED reading /\ (cache' = cache \/ cache'[s] = Null)
    BY <1>1, <1>2 DEF Seen
  <1>3. ASSUME NEW r \in Readers, UNCHANGED sub,
               \A u \in Readers \ {r} : reading'[u] = reading[u],
               \/ /\ UNCHANGED cache
                  /\ reading'[r].snap = Null \/ reading'[r].snap.status = sub[s].status
               \/ reading'[r].snap = Null /\ cache'[s] = reading[r].snap
        PROVE  Seen(s)'
    <2>1. Gone(s)' <=> Gone(s)
      BY <1>3 DEF Gone
    <2>2. cache'[s] # Null /\ cache'[s].status \in DeadStatus => Gone(s)
      BY <1>3 DEF Seen
    <2>3. reading'[r].snap # Null /\ reading'[r].snap.status \in DeadStatus => Gone(s)
      BY <1>3 DEF Gone
    <2>4. ASSUME NEW u \in Readers
          PROVE  reading'[u].snap # Null /\ reading'[u].snap.status \in DeadStatus => Gone(s)
      <3>1. CASE u = r
        BY <2>3, <3>1
      <3>2. CASE u # r
        BY <1>3, <3>2 DEF Seen
      <3>3. QED
        BY <3>1, <3>2
    <2>5. QED
      BY <2>1, <2>2, <2>4 DEF Seen
  <1>4. QED
    BY <1>2, <1>3 DEF SnapMoves

LEMMA KeyedStep ==
  ASSUME NEW s \in Subs, Keyed(s), SubMoves(s), KeyMoves(s)
  PROVE  Keyed(s)'
  <1> SUFFICES ASSUME ConfirmKey(s) \in keys'
               PROVE  /\ sub'[s].status # "none"
                      /\ sub'[s].status \in ActiveStatus => s \in offered'
    BY DEF Keyed, ConfirmKey
  <1>1. CASE sub'[s].status = "incomplete"
    BY <1>1, Statuses
  <1>2. CASE ConfirmKey(s) \in keys
    BY <1>2, Onward DEF Keyed, KeyMoves
  <1>3. QED
    BY <1>1, <1>2 DEF KeyMoves

LEMMA RowStep ==
  ASSUME Typed, NEW s \in Subs, Subs = {s}, Moves(s),
         Truthful(s), Seen(s), Keyed(s), Row(s), Undisturbed', ~Gone(s)'
  PROVE  Known(s)' /\ Shown(s)'
  <1>1. SubMoves(s) /\ KeyMoves(s) /\ SnapMoves(s) /\ RowMoves(s) /\ Steady
    BY DEF Moves
  <1>2. /\ Undisturbed /\ ~Gone(s) /\ ordered' = ordered /\ adminWrites' = 0
        /\ sub[s].status \in ActiveStatus => sub'[s].status \in ActiveStatus
    BY <1>1, Onward DEF Steady, Undisturbed
  <1>3. Known(s) /\ Shown(s) /\ Null # s
    BY <1>2, Constants DEF Row
  <1>4. recorded \subseteq DOMAIN events /\ (1 \in recorded => sub[s].status # "none")
    BY DEF Typed, RestTyped, Truthful
  \* A key of its own appears only before the first event.
  <1>5. 1 \in recorded /\ ConfirmKey(s) \in keys' => ConfirmKey(s) \in keys
    BY <1>1, <1>4 DEF KeyMoves
  <1>6. ASSUME UNCHANGED <<plan, subId, offered, recorded, job>>
        PROVE  Shown(s)'
    BY <1>2, <1>3, <1>5, <1>6 DEF Shown, ConfirmKey
  <1>7. CASE /\ UNCHANGED <<plan, subId, offered, recorded, job>>
             /\ \A r \in Readers : reading'[r] # IdleRead => reading[r] # IdleRead
    <2>1. Known(s)'
      BY <1>3, <1>7 DEF Known
    <2>2. QED
      BY <1>6, <1>7, <2>1
  <1>8. CASE /\ plan = "FREE" /\ subId' = s /\ offered' = offered \cup {s}
             /\ sub[s].status = "none" \/ ConfirmKey(s) \in keys
             /\ UNCHANGED <<plan, recorded, job, reading>>
    <2>1. Known(s)'
      BY <1>8 DEF Known
    <2>2. ~(1 \in recorded) /\ ~job
      BY <1>3, <1>4, <1>8 DEF Shown
    <2>3. Shown(s)'
      BY <1>3, <1>8, <2>2 DEF Shown
    <2>4. QED
      BY <2>1, <2>3
  <1>9. CASE /\ \E n \in DOMAIN events : WebhookMoves(n)
             /\ UNCHANGED <<reading, job, offered, keys, sub>>
    <2>1. PICK n \in DOMAIN events : WebhookMoves(n)
      BY <1>9
    <2>2. UNCHANGED <<reading, job, offered, keys, sub>>
      BY <1>9
    <2>3. /\ recorded' = recorded \cup {n} /\ Handled(events[n])
          /\ ordered => \A m \in 1..(n - 1) : m \in recorded
      BY <2>1 DEF WebhookMoves
    <2>4. /\ events[n].type = "created" <=> n = 1
          /\ events[n].type # "deleted" /\ events[n].status \notin DeadStatus
          /\ events[n].type # "dispute"
          /\ events[n].type = "invoice_paid" => sub[s].status \in ActiveStatus
      <3>1. sub[s].status \in SubStatus
        BY SubIs DEF Typed
      <3>2. sub[s].status \notin Unpaid => sub[s].status \in ActiveStatus
        BY <1>2, <3>1 DEF Gone, Unpaid, SubStatus
      <3>3. QED
        BY <1>2, <3>2 DEF Truthful, Undisturbed
    <2>5. events[n].sub = s /\ n \in Nat /\ n >= 1
      BY EventIs DEF Typed
    <2>6. plan # "ADMIN"
      BY <1>3 DEF Shown
    <2>7. CASE n = 1
      <3>1. plan' = "PREMIUM" /\ subId' = s
        BY <2>3, <2>4, <2>5, <2>6, <2>7 DEF Handled, SetPlan
      <3>2. Known(s)'
        BY <3>1 DEF Known
      <3>3. Shown(s)'
        BY <1>2, <1>3, <2>2, <3>1 DEF Shown, ConfirmKey
      <3>4. QED
        BY <3>2, <3>3
    <2>8. CASE n # 1
      <3>1. /\ 1 \in recorded' <=> 1 \in recorded
            /\ ordered => 1 \in recorded
        BY <2>3, <2>5, <2>8
      <3>2. /\ subId' = subId
            /\ plan' = plan \/ (plan' = "PREMIUM" /\ sub[s].status \in ActiveStatus)
        BY <2>3, <2>4, <2>6, <2>8 DEF Handled, SetPlan
      <3>3. Known(s)'
        BY <1>3, <2>2, <3>1, <3>2 DEF Known
      <3>4. ordered => subId = s
        BY <1>3, <3>1 DEF Known
      <3>5. Shown(s)'
        BY <1>2, <1>3, <2>2, <3>1, <3>2, <3>4 DEF Shown, ConfirmKey
      <3>6. QED
        BY <3>3, <3>5
    <2>9. QED
      BY <2>7, <2>8
  <1>10. CASE \E snap \in {cache[s]} \cup {reading[r].snap : r \in Readers} :
                /\ snap # Null /\ Heals(snap)
                /\ subId = s \/ \E r \in Readers : reading[r] # IdleRead
                /\ \A r \in Readers : reading'[r] # IdleRead => reading[r] # IdleRead
                /\ UNCHANGED <<recorded, job, offered, keys, sub>>
    <2>1. PICK snap \in {cache[s]} \cup {reading[r].snap : r \in Readers} :
                snap # Null /\ Heals(snap)
      BY <1>10
    <2>2. /\ subId = s \/ \E r \in Readers : reading[r] # IdleRead
          /\ \A r \in Readers : reading'[r] # IdleRead => reading[r] # IdleRead
          /\ UNCHANGED <<recorded, job, offered, keys, sub>>
      BY <1>10
    <2>3. subId = s
      BY <1>3, <2>2 DEF Known
    <2>4. snap.status \notin DeadStatus
      BY <1>2, <2>1 DEF Seen
    <2>5. subId' = s /\ (plan' = "PREMIUM" \/ plan' = plan)
      BY <2>1, <2>3, <2>4 DEF Heals
    <2>6. Known(s)'
      BY <2>5 DEF Known
    <2>7. Shown(s)'
      BY <1>2, <1>3, <2>2, <2>5 DEF Shown, ConfirmKey
    <2>8. QED
      BY <2>6, <2>7
  <1>11. CASE /\ subId = s
              /\ UNCHANGED <<plan, subId, offered, recorded, job, keys, sub>>
    <2>1. Known(s)'
      BY <1>11 DEF Known
    <2>2. QED
      BY <1>6, <1>11, <2>1
  <1>12. CASE /\ plan = "PREMIUM" /\ subId = Null
              /\ UNCHANGED <<plan, subId, offered, recorded, reading, keys, sub>>
    <2>1. Known(s)'
      BY <1>3, <1>12 DEF Known
    <2>2. s \notin offered
      BY <1>3, <1>12 DEF Known
    <2>3. Shown(s)'
      BY <1>2, <1>3, <1>12, <2>2 DEF Shown, ConfirmKey
    <2>4. QED
      BY <2>1, <2>3
  <1>13. CASE /\ job /\ ~job' /\ plan' = "FREE"
              /\ UNCHANGED <<subId, offered, recorded, reading, keys, sub>>
    <2>1. Known(s)'
      BY <1>3, <1>13 DEF Known
    <2>2. /\ s \notin offered /\ ~ordered /\ sub[s].status \in ActiveStatus
          /\ ConfirmKey(s) \notin keys
      BY <1>3, <1>13 DEF Shown, Keyed
    <2>3. Shown(s)'
      BY <1>2, <1>13, <2>2 DEF Shown, ConfirmKey
    <2>4. QED
      BY <2>1, <2>3
  <1>14. QED
    BY <1>1, <1>2, <1>7, <1>8, <1>9, <1>10, <1>11, <1>12, <1>13 DEF RowMoves

LEMMA InStepHolds == Spec => [](\A s \in Subs : Subs = {s} => InStep(s))
  <1>1. Init => \A s \in Subs : InStep(s)
    <2> SUFFICES ASSUME Init, NEW s \in Subs PROVE InStep(s)
      OBVIOUS
    <2>1. sub[s].status = "none" /\ \A r \in Readers : reading[r] = IdleRead
      BY DEF Init
    <2>2. Truthful(s)
      BY <2>1 DEF Init, Truthful
    <2>3. Seen(s) /\ Keyed(s)
      BY <2>1, Idles DEF Init, Seen, Keyed
    <2>4. Known(s) /\ Shown(s)
      BY <2>1 DEF Init, Known, Shown
    <2>5. QED
      BY <2>2, <2>3, <2>4 DEF InStep, Row
  <1>2. ASSUME Typed, NEW s \in Subs, Subs = {s}, InStep(s), [Next]_vars
        PROVE  InStep(s)'
    <2>1. Moves(s) /\ SubMoves(s) /\ KeyMoves(s) /\ SnapMoves(s) /\ StripeTyped
      BY <1>2, EveryMove DEF Moves, Typed
    <2>2. Truthful(s) /\ Seen(s) /\ Keyed(s) /\ Row(s)
      BY <1>2 DEF InStep
    <2>3. Truthful(s)' /\ Seen(s)' /\ Keyed(s)'
      BY <2>1, <2>2, TruthfulStep, SeenStep, KeyedStep
    <2>4. Row(s)'
      BY <1>2, <2>1, <2>2, RowStep DEF Row
    <2>5. QED
      BY <2>3, <2>4 DEF InStep
  <1>3. Typed /\ (\A s \in Subs : Subs = {s} => InStep(s)) /\ [Next]_vars
        => (\A s \in Subs : Subs = {s} => InStep(s))'
    BY <1>2
  <1>4. Init => \A s \in Subs : Subs = {s} => InStep(s)
    BY <1>1
  <1>5. QED
    BY <1>3, <1>4, TypesHold, PTL DEF Spec

-----------------------------------------------------------------------------
(* What it was for. *)

LEMMA TypesAre == Typed => TypeOK
  <1> SUFFICES ASSUME Typed PROVE TypeOK
    OBVIOUS
  <1>1. RowTyped /\ ReadTyped /\ StripeTyped /\ RestTyped
    BY DEF Typed
  <1>2. ASSUME NEW r \in Readers
        PROVE  \/ reading[r] = IdleRead
               \/ /\ reading[r].phase \in {"asked", "answered"}
                  /\ reading[r].sub \in Subs /\ reading[r].expiry \in Time
                  /\ reading[r].snap \in Snapshot \cup {Null}
    <2>1. reading[r] = IdleRead \/ reading[r] \in ReadRow
      BY <1>1 DEF ReadTyped
    <2>2. QED
      BY <2>1 DEF ReadRow, Phases
  <1>3. /\ sub \in [Subs -> [status : SubStatus, end : Time, ending : BOOLEAN]]
        /\ events \in Seq([type : EventType, sub : Subs, status : SubStatus, end : Time])
        /\ keys \subseteq [op : {"confirm", "cancel", "reactivate"}, sub : Subs]
        /\ offered \subseteq Subs /\ checkout \subseteq Subs
    BY <1>1 DEF StripeTyped, SubRow, EventRow, Ops
  <1>4. QED
    BY <1>1, <1>2, <1>3 DEF RowTyped, ReadTyped, RestTyped, TypeOK

\* Every variable keeps its type, whatever the number of subscriptions.
THEOREM TypeCorrect == Spec => []TypeOK
  BY TypesHold, TypesAre, PTL

\* A user with one subscription who pays is PREMIUM, and the row has the id, once the
\* events are in: HandleCreated's event is among them, and neither a stale snapshot nor the
\* job takes away what it gave.
THEOREM PayingIsPremium == Spec => []ServedWhilePaid
  <1>1. ASSUME Typed, \A s \in Subs : Subs = {s} => InStep(s)
        PROVE  ServedWhilePaid
    <2> SUFFICES ASSUME NEW s \in Subs, Subs = {s}, Settled, Undisturbed,
                        sub[s].status \in ActiveStatus, ordered \/ s \in offered
                 PROVE  plan = "PREMIUM" /\ subId = s
      BY DEF ServedWhilePaid, OneSub
    <2>1. Truthful(s) /\ Row(s) /\ ~Gone(s)
      BY <1>1, Statuses DEF InStep, Gone
    <2>2. events # <<>> /\ events \in Seq(EventRow)
      BY <1>1, <2>1, Statuses DEF Truthful, Typed, StripeTyped
    <2>3. 1 \in recorded
      BY <2>2 DEF Settled
    <2>4. QED
      BY <2>1, <2>3 DEF Row, Known, Shown
  <1>2. QED
    BY <1>1, TypesHold, InStepHolds, PTL

\* One whose payment the app took and who looks FREE has the id that reconcile_plan_with_stripe
\* asks Stripe about.
THEOREM PayingIsHealed == Spec => []PaidUserHealed
  <1>1. ASSUME Typed, \A s \in Subs : Subs = {s} => InStep(s)
        PROVE  PaidUserHealed
    <2> SUFFICES ASSUME NEW s \in Subs, Subs = {s}, Undisturbed, s \in offered,
                        sub[s].status = "active"
                 PROVE  subId # Null
      BY <1>1 DEF PaidUserHealed, OneSub, Typed, StripeTyped
    <2>1. Row(s) /\ ~Gone(s)
      BY <1>1, Statuses DEF InStep, Gone
    <2>2. subId = s
      BY <2>1 DEF Row, Known
    <2>3. QED
      BY <2>2, Constants
  <1>2. QED
    BY <1>1, TypesHold, InStepHolds, PTL

-----------------------------------------------------------------------------
(* The PREMIUM a read puts back after the end, with at most two reads at once. *)

IsLive(snap) == snap # Null /\ snap.status \in ActiveStatus

NoneLive == \A r \in Readers : ~IsLive(reading[r].snap)

\* The subscription is dead, and no read still holds that it lived.
Over(s) == Gone(s) /\ NoneLive

NeverPaid == Unpaid \cup {"incomplete_expired"}

\* Nobody has seen one alive that was never paid.
Blank(s) == sub[s].status \in NeverPaid => NoneLive /\ ~IsLive(cache[s])

\* The key of a confirm does not outlive the first period.
Young(s) ==
    ConfirmKey(s) \in keys =>
        sub[s].end > now /\ sub[s].status \in {"incomplete", "active", "incomplete_expired"}

\* What lived, or is seen alive, has an end.
Dated(s) ==
    /\ sub[s].status # "none" => sub[s].end # 0
    /\ IsLive(cache[s]) => cache[s].end # 0
    /\ \A r \in Readers : IsLive(reading[r].snap) => reading[r].snap.end # 0

IsEnd(e) == e.type = "deleted" \/ (e.type = "updated" /\ e.status \in DeadStatus)

\* The end is the last that Stripe tells.
LastWord(s) == Gone(s) => events # <<>> /\ IsEnd(events[Len(events)])

Queued == ordered => \A n \in recorded : \A m \in 1..n : m \in recorded

Past(s) == Blank(s) /\ Young(s) /\ Dated(s) /\ LastWord(s) /\ Queued

\* A step of Stripe, and what it does to the end.
Billed(s, status, end) ==
    \/ status = sub[s].status /\ end = sub[s].end /\ status # "none"
    \/ sub[s].status = "none" /\ status \in {"incomplete", "active"} /\ end = now + 1
    \/ /\ sub[s].status = "incomplete" /\ end = sub[s].end
       /\ status = "incomplete_expired" \/ (status = "active" /\ s \in offered)
    \/ sub[s].status = "active" /\ sub[s].end <= now /\ status \in ActiveStatus /\ end = sub[s].end + 1
    \/ sub[s].status = "active" /\ sub[s].end <= now /\ status = "canceled" /\ end = sub[s].end
    \/ /\ sub[s].status = "past_due" /\ end = sub[s].end
       /\ status \in {"active", "unpaid", "canceled"}

\* What a step does to the subscription and to the key.
Trades(s) ==
    \/ sub' = sub
    \/ Billed(s, sub'[s].status, sub'[s].end) /\ UNCHANGED <<reading, cache>>

KeyKept(s) ==
    ConfirmKey(s) \in keys' =>
        /\ now' = now
        /\ \/ ConfirmKey(s) \in keys
           \/ sub'[s].status = "incomplete" /\ sub'[s].end = now + 1

LEMMA EndsSay ==
  ASSUME StripeTyped, NEW s \in Subs, NEW ending, sub' = [sub EXCEPT ![s].ending = ending]
  PROVE  sub'[s].status = sub[s].status /\ sub'[s].end = sub[s].end
  BY DEF StripeTyped, SubRow

LEMMA BecomesSays ==
  ASSUME StripeTyped, NEW s \in Subs, NEW status, NEW end, Becomes(s, status, end)
  PROVE  sub'[s].status = status /\ sub'[s].end = end
  BY DEF StripeTyped, SubRow, Becomes

LEMMA StripeBills ==
  ASSUME Typed, NEW s \in Subs, Subs = {s}, Stripe
  PROVE  /\ Billed(s, sub'[s].status, sub'[s].end) /\ ~Gone(s)
         /\ UNCHANGED <<rowVars, reading, cache, job, offered, checkout, keys, recorded, ordered,
                        adminWrites, now>>
  <1>1. StripeTyped /\ sub[s].status \in SubStatus
    BY SubIs DEF Typed
  <1>2. UNCHANGED <<rowVars, reading, cache, job, offered, checkout, keys, recorded, ordered,
                    adminWrites, now>>
    BY Zenon DEF Stripe
  <1>3. \/ Pays(s) \/ PaysOnPage(s) \/ GivesUp(s) \/ Renews(s) \/ DunningEnds(s) \/ PeriodEnds(s)
        \/ Dispute(s)
    BY Zenon DEF Stripe
  <1>4. ASSUME Pays(s) PROVE Billed(s, sub'[s].status, sub'[s].end) /\ ~Gone(s)
    BY <1>1, <1>4, BecomesSays, Statuses DEF Pays, Billed, Gone
  <1>5. ASSUME PaysOnPage(s) PROVE Billed(s, sub'[s].status, sub'[s].end) /\ ~Gone(s)
    BY <1>1, <1>5, BecomesSays, Statuses DEF PaysOnPage, Billed, Gone
  <1>6. ASSUME GivesUp(s) PROVE Billed(s, sub'[s].status, sub'[s].end) /\ ~Gone(s)
    BY <1>1, <1>6, BecomesSays, Statuses DEF GivesUp, Billed, Gone
  <1>7. ASSUME Renews(s) PROVE Billed(s, sub'[s].status, sub'[s].end) /\ ~Gone(s)
    BY <1>1, <1>7, BecomesSays, Statuses DEF Renews, Due, Billed, Gone
  <1>8. ASSUME DunningEnds(s) PROVE Billed(s, sub'[s].status, sub'[s].end) /\ ~Gone(s)
    BY <1>1, <1>8, BecomesSays, Statuses DEF DunningEnds, Billed, Gone
  <1>9. ASSUME PeriodEnds(s) PROVE Billed(s, sub'[s].status, sub'[s].end) /\ ~Gone(s)
    BY <1>1, <1>9, BecomesSays, Statuses DEF PeriodEnds, Due, Billed, Gone
  <1>10. ASSUME Dispute(s) PROVE Billed(s, sub'[s].status, sub'[s].end) /\ ~Gone(s)
    BY <1>1, <1>10, Statuses DEF Dispute, Billed, Gone
  <1>11. QED
    BY <1>2, <1>3, <1>4, <1>5, <1>6, <1>7, <1>8, <1>9, <1>10

\* What a snapshot does to the row, the expiry included.
Puts(snap, loaded) ==
    \/ /\ snap.status \in ActiveStatus
       /\ plan' = "PREMIUM" /\ UNCHANGED subId
       /\ expiry' = IF snap.end # loaded THEN snap.end ELSE expiry
    \/ /\ snap.status \in DeadStatus
       /\ UNCHANGED plan /\ subId' = Null
       /\ expiry' = IF loaded # 0 THEN 0 ELSE expiry
    \/ /\ snap.status \notin ActiveStatus /\ snap.status \notin DeadStatus
       /\ UNCHANGED <<plan, subId, expiry>>

LEMMA PutsSo ==
  ASSUME NEW snap, NEW loaded, ApplySnapshot(snap, loaded)
  PROVE  Puts(snap, loaded)
  <1>1. CASE snap.status \in ActiveStatus
    <2>1. snap.status \notin DeadStatus
      BY <1>1, Statuses
    <2>2. QED
      BY <1>1, <2>1, Zenon DEF ApplySnapshot, Puts
  <1>2. CASE snap.status \in DeadStatus
    <2>1. snap.status \notin ActiveStatus
      BY <1>2, Statuses
    <2>2. plan' = plan /\ subId' = Null /\ expiry' = IF 0 # loaded THEN 0 ELSE expiry
      BY <1>2, <2>1, Zenon DEF ApplySnapshot
    <2>3. QED
      BY <1>2, <2>2 DEF Puts
  <1>3. CASE snap.status \notin ActiveStatus /\ snap.status \notin DeadStatus
    <2>1. UNCHANGED rowVars
      BY <1>3, Zenon DEF ApplySnapshot
    <2>2. QED
      BY <1>3, <2>1 DEF Puts, rowVars
  <1>4. QED
    BY <1>1, <1>2, <1>3

\* The steps once more, as they look to the row and to the reads.
Outside(s) ==
    /\ UNCHANGED <<plan, subId, expiry, reading, job, recorded>>
    /\ cache' = cache \/ cache'[s] = Null

Stores(s) ==
    /\ plan = "FREE" /\ subId' = s
    /\ sub'[s].status = "incomplete" \/ (sub' = sub /\ ConfirmKey(s) \in keys)
    /\ UNCHANGED <<plan, expiry, reading, cache, job, recorded>>

Hears(n) ==
    /\ WebhookMoves(n)
    /\ UNCHANGED <<reading, cache, job, sub, events>>

Cached(s) ==
    /\ plan = "FREE" /\ subId = s /\ cache[s] # Null /\ Puts(cache[s], expiry)
    /\ UNCHANGED <<reading, cache, job, recorded, sub, events>>

Only(r) == \A u \in Readers \ {r} : reading'[u] = reading[u]

Starts(r, s) ==
    /\ plan = "FREE" /\ subId = s /\ cache[s] = Null /\ Only(r)
    /\ reading'[r].snap = Null /\ reading'[r].expiry = expiry
    /\ UNCHANGED <<plan, subId, expiry, cache, job, recorded, sub, events>>

Answers(r) ==
    /\ reading[r] # IdleRead /\ Only(r)
    /\ reading'[r].expiry = reading[r].expiry
    /\ UNCHANGED <<plan, subId, expiry, cache, job, recorded, sub, events>>

Finishes(r, s) ==
    /\ reading[r] # IdleRead /\ Only(r) /\ reading'[r] = IdleRead
    /\ \/ reading[r].snap = Null /\ UNCHANGED <<plan, subId, expiry, cache>>
       \/ /\ reading[r].snap # Null /\ cache'[s] = reading[r].snap
          /\ Puts(reading[r].snap, reading[r].expiry)
    /\ UNCHANGED <<job, recorded, sub, events>>

Selects ==
    /\ plan = "PREMIUM" /\ subId = Null
    /\ UNCHANGED <<plan, subId, expiry, reading, cache, recorded, sub, events>>

Commits ==
    /\ job /\ ~job' /\ plan' = "FREE" /\ expiry' = 0
    /\ UNCHANGED <<subId, reading, cache, recorded, sub, events>>

Turns(s) ==
    \/ Outside(s) \/ Stores(s) \/ Cached(s) \/ Selects \/ Commits
    \/ \E n \in DOMAIN events : Hears(n)
    \/ \E r \in Readers : Starts(r, s) \/ Answers(r) \/ Finishes(r, s)

LEMMA EveryTurn ==
  ASSUME Typed, NEW s \in Subs, Subs = {s}, [Next]_vars
  PROVE  /\ adminWrites' = 0 => Turns(s)
         /\ Trades(s) /\ KeyKept(s)
  <1> DEFINE Goal == (adminWrites' = 0 => Turns(s)) /\ Trades(s) /\ KeyKept(s)
  <1>1. /\ Null # s /\ \A u \in Subs : u = s
        /\ StripeTyped /\ ReadTyped /\ RowTyped /\ adminWrites \in Nat /\ now \in Nat
    BY Constants DEF Typed, RestTyped
  <1>2. ASSUME Outside(s), Trades(s), KeyKept(s) PROVE Goal
    BY <1>2 DEF Turns
  <1>3. ASSUME UNCHANGED <<keys, now>> PROVE KeyKept(s)
    BY <1>3 DEF KeyKept, ConfirmKey
  <1>4. ASSUME UNCHANGED sub PROVE Trades(s)
    BY <1>4 DEF Trades
  <1>5. ASSUME UNCHANGED readLeaves PROVE Trades(s) /\ KeyKept(s) /\ UNCHANGED <<job, recorded, sub, events>>
    BY <1>3, <1>4, <1>5 DEF readLeaves, stripeVars
  <1>6. ASSUME Stripe PROVE Goal
    <2>1. /\ Billed(s, sub'[s].status, sub'[s].end)
          /\ UNCHANGED <<rowVars, reading, cache, job, recorded, keys, now>>
      BY <1>1, <1>6, StripeBills
    <2>2. Outside(s) /\ Trades(s)
      BY <2>1 DEF Outside, Trades, rowVars
    <2>3. QED
      BY <1>2, <1>3, <2>1, <2>2
  <1>7. ASSUME KeysExpire PROVE Goal
    <2>1. keys' = {} /\ UNCHANGED <<plan, subId, expiry, reading, cache, job, recorded, sub>>
      BY <1>7 DEF KeysExpire, rowVars, stripeVars
    <2>2. QED
      BY <1>2, <1>4, <2>1 DEF Outside, KeyKept
  <1>8. ASSUME Tick PROVE Goal
    <2>1. keys' = {} /\ cache'[s] = Null /\ UNCHANGED <<plan, subId, expiry, reading, job, recorded, sub>>
      BY <1>8 DEF Tick, rowVars
    <2>2. QED
      BY <1>2, <1>4, <2>1 DEF Outside, KeyKept
  <1>9. ASSUME Confirm(s) PROVE Goal
    <2>1. /\ \/ subId' = s /\ offered' = offered \cup {s}
             \/ UNCHANGED <<subId, offered>>
          /\ plan = "FREE" /\ UNCHANGED <<plan, expiry, reading, cache, job, recorded, now>>
      BY <1>9 DEF Confirm
    <2>2. \/ /\ sub[s].status = "none" /\ Becomes(s, "incomplete", now + 1)
             /\ keys' = keys \cup {ConfirmKey(s)}
          \/ ConfirmKey(s) \in keys /\ UNCHANGED <<sub, events, keys>>
      BY <1>9, Zenon DEF Confirm, ConfirmKey
    <2>3. CASE /\ sub[s].status = "none" /\ Becomes(s, "incomplete", now + 1)
               /\ keys' = keys \cup {ConfirmKey(s)}
      <3>1. sub'[s].status = "incomplete" /\ sub'[s].end = now + 1
        BY <1>1, <2>3, BecomesSays
      <3>2. Trades(s) /\ KeyKept(s)
        BY <2>1, <2>3, <3>1 DEF Trades, Billed, KeyKept
      <3>3. Outside(s) \/ Stores(s)
        BY <2>1, <3>1 DEF Outside, Stores
      <3>4. QED
        BY <3>2, <3>3 DEF Turns
    <2>4. CASE ConfirmKey(s) \in keys /\ UNCHANGED <<sub, events, keys>>
      <3>1. Outside(s) \/ Stores(s)
        BY <2>1, <2>4 DEF Outside, Stores
      <3>2. QED
        BY <1>3, <1>4, <2>1, <2>4, <3>1 DEF Turns
    <2>5. QED
      BY <2>2, <2>3, <2>4
  <1>10. ASSUME CreateCheckoutSession(s) PROVE Goal
    <2>1. UNCHANGED <<plan, subId, expiry, reading, cache, job, recorded, sub, keys, now>>
      BY <1>10 DEF CreateCheckoutSession, rowVars
    <2>2. QED
      BY <1>2, <1>3, <1>4, <2>1 DEF Outside
  <1>11. ASSUME ChangesInPortal(s) PROVE Goal
    <2>1. /\ sub[s].status \in ActiveStatus /\ sub' = [sub EXCEPT ![s].ending = ~@]
          /\ UNCHANGED <<plan, subId, expiry, reading, cache, job, recorded, keys, now>>
      BY <1>11, Zenon DEF ChangesInPortal, rowVars
    <2>2. sub'[s].status = sub[s].status /\ sub'[s].end = sub[s].end
      BY <1>1, <2>1, EndsSay
    <2>3. Trades(s)
      BY <2>1, <2>2, Statuses DEF Trades, Billed
    <2>4. QED
      BY <1>2, <1>3, <2>1, <2>3 DEF Outside
  <1>12. ASSUME NEW op \in {"cancel", "reactivate"}, NEW ending \in BOOLEAN, Modify(op, ending)
         PROVE  Goal
    <2>1. /\ subId \in Subs
          /\ \/ /\ sub[s].status \in ActiveStatus \cup {"incomplete"}
                /\ sub' = [sub EXCEPT ![s].ending = ending]
                /\ keys' = keys \cup {[op |-> op, sub |-> s]}
             \/ UNCHANGED <<sub, keys>>
          /\ UNCHANGED <<plan, subId, expiry, reading, cache, job, recorded, now>>
      <3>1. subId = s
        BY <1>1, <1>12 DEF Modify, RowTyped
      <3>2. QED
        BY <1>12, <3>1, Zenon DEF Modify, rowVars
    <2>2. CASE UNCHANGED <<sub, keys>>
      BY <1>2, <1>3, <1>4, <2>1, <2>2 DEF Outside
    <2>3. CASE /\ sub[s].status \in ActiveStatus \cup {"incomplete"}
               /\ sub' = [sub EXCEPT ![s].ending = ending]
               /\ keys' = keys \cup {[op |-> op, sub |-> s]}
      <3>1. sub'[s].status = sub[s].status /\ sub'[s].end = sub[s].end
        BY <1>1, <2>3, EndsSay
      <3>2. Trades(s)
        BY <2>1, <2>3, <3>1, Statuses DEF Trades, Billed
      <3>3. ConfirmKey(s) # [op |-> op, sub |-> s]
        BY DEF ConfirmKey
      <3>4. KeyKept(s)
        BY <2>1, <2>3, <3>3 DEF KeyKept
      <3>5. QED
        BY <1>2, <2>1, <3>2, <3>4 DEF Outside
    <2>4. QED
      BY <2>1, <2>2, <2>3
  <1>13. ASSUME Webhook PROVE Goal
    <2>1. PICK n \in DOMAIN events : WebhookMoves(n)
      BY <1>13, WebhookSays
    <2>2. UNCHANGED webhookLeaves
      BY <1>13, WebhookSays
    <2>3. Hears(n)
      BY <2>1, <2>2 DEF Hears, webhookLeaves
    <2>4. QED
      BY <1>3, <1>4, <2>2, <2>3 DEF webhookLeaves, Turns
  <1>14. ASSUME ReadCached PROVE Goal
    <2>1. /\ subId = s /\ plan = "FREE" /\ UNCHANGED <<reading, cache, readLeaves>>
      BY <1>1, <1>14, ReadCachedSays
    <2>2. cache[s] # Null /\ ApplySnapshot(cache[s], expiry)
      BY <1>14, <2>1, Zenon DEF ReadCached
    <2>3. Cached(s)
      BY <1>5, <2>1, <2>2, PutsSo DEF Cached
    <2>4. QED
      BY <1>5, <2>1, <2>3 DEF Turns
  <1>15. ASSUME NEW r \in Readers, ReadStart(r) PROVE Goal
    <2>1. /\ subId = s /\ plan = "FREE" /\ UNCHANGED <<rowVars, cache, readLeaves>>
      BY <1>1, <1>15, ReadStartSays
    <2>2. /\ cache[s] = Null
          /\ reading' = [reading EXCEPT ![r] = [phase |-> "asked", sub |-> subId,
                                                expiry |-> expiry, snap |-> Null]]
      BY <1>15, <2>1, Zenon DEF ReadStart
    <2>3. Only(r) /\ reading'[r].snap = Null /\ reading'[r].expiry = expiry
      BY <1>1, <2>2 DEF Only, ReadTyped
    <2>4. Starts(r, s)
      BY <1>5, <2>1, <2>2, <2>3 DEF Starts, rowVars
    <2>5. QED
      BY <1>5, <2>1, <2>4 DEF Turns
  <1>16. ASSUME NEW r \in Readers, StripeAnswers(r) PROVE Goal
    <2>1. PICK new \in ReadRow : new.expiry = reading[r].expiry /\ ReadsOn(r, new)
      BY <1>16, AnswerSays
    <2>2. reading[r] \in ReadRow /\ UNCHANGED <<rowVars, cache, readLeaves>>
      BY <1>16, AnswerSays
    <2>3. reading[r] # IdleRead
      BY <2>2, Idles DEF ReadRow, Phases
    <2>4. Answers(r)
      BY <1>5, <2>1, <2>2, <2>3 DEF Answers, Only, ReadsOn, rowVars
    <2>5. QED
      BY <1>5, <2>2, <2>4 DEF Turns
  <1>17. ASSUME NEW r \in Readers, ReadFinish(r) PROVE Goal
    <2>1. reading[r] \in ReadRow /\ ReadsOn(r, IdleRead) /\ UNCHANGED readLeaves
      BY <1>17, FinishSays
    <2>2. reading[r].sub = s /\ reading[r] # IdleRead
      BY <1>1, <2>1, Idles DEF ReadRow, Phases
    <2>3. \/ reading[r].snap = Null /\ UNCHANGED <<rowVars, cache>>
          \/ /\ reading[r].snap # Null /\ cache' = [cache EXCEPT ![s] = reading[r].snap]
             /\ ApplySnapshot(reading[r].snap, reading[r].expiry)
      BY <1>17, <2>2, Zenon DEF ReadFinish
    <2>4. cache' = [cache EXCEPT ![s] = reading[r].snap] => cache'[s] = reading[r].snap
      BY <1>1 DEF ReadTyped
    <2>5. Finishes(r, s)
      BY <1>5, <2>1, <2>2, <2>3, <2>4, PutsSo DEF Finishes, Only, ReadsOn, rowVars
    <2>6. QED
      BY <1>5, <2>1, <2>5 DEF Turns
  <1>18. ASSUME CacheExpires(s) PROVE Goal
    <2>1. /\ cache'[s] = Null
          /\ UNCHANGED <<plan, subId, expiry, reading, job, recorded, sub, keys, now>>
      BY <1>1, <1>18 DEF CacheExpires, ReadTyped, rowVars, stripeVars
    <2>2. QED
      BY <1>2, <1>3, <1>4, <2>1 DEF Outside
  <1>19. ASSUME JobStep PROVE Goal
    <2>1. UNCHANGED <<reading, cache, stripeVars, keys, recorded, now>>
      BY <1>19 DEF JobStep, JobSelect, JobCommit
    <2>2. Selects \/ Commits
      <3>1. CASE JobSelect
        BY <2>1, <3>1 DEF JobSelect, Selects, rowVars, stripeVars
      <3>2. CASE JobCommit
        BY <2>1, <3>2 DEF JobCommit, Commits, stripeVars
      <3>3. QED
        BY <1>19, <3>1, <3>2 DEF JobStep
    <2>3. QED
      BY <1>3, <1>4, <2>1, <2>2 DEF Turns, stripeVars
  <1>20. ASSUME Staff PROVE Goal
    <2>1. /\ adminWrites' = adminWrites + 1 /\ UNCHANGED <<sub, keys, now>>
      BY <1>20 DEF Staff, AdminSetsPlan, AdminUpdatesUser, stripeVars
    <2>2. adminWrites' # 0
      BY <1>1, <2>1
    <2>3. QED
      BY <1>3, <1>4, <2>1, <2>2
  <1>21. ASSUME UNCHANGED vars PROVE Goal
    <2>1. UNCHANGED <<plan, subId, expiry, reading, cache, job, recorded, sub, keys, now>>
      BY <1>21 DEF vars
    <2>2. QED
      BY <1>2, <1>3, <1>4, <2>1 DEF Outside
  <1>22. Cancel \/ Reactivate =>
            \E op \in {"cancel", "reactivate"}, ending \in BOOLEAN : Modify(op, ending)
    BY DEF Cancel, Reactivate
  <1>23. \A u \in Subs : u = s
    BY <1>1
  <1> HIDE DEF Goal
  <1>24. Goal
    BY <1>6, <1>7, <1>8, <1>9, <1>10, <1>11, <1>12, <1>13, <1>14, <1>15, <1>16, <1>17, <1>18,
       <1>19, <1>20, <1>21, <1>22, <1>23, Zenon DEF Next, Request, Read
  <1>25. QED
    BY <1>24 DEF Goal

-----------------------------------------------------------------------------
(* What is past stays so. *)

\* Once it is over Stripe has no more to tell, and an event it tells is not yet recorded.
LEMMA Silent ==
  ASSUME Typed, NEW s \in Subs, SubMoves(s)
  PROVE  /\ Gone(s) => UNCHANGED <<sub, events>>
         /\ recorded' = recorded /\ Settled' => UNCHANGED <<sub, events>>
         /\ ~Gone(s) /\ Gone(s)' => events' # <<>> /\ IsEnd(events'[Len(events')])
  <1>1. /\ StripeTyped /\ events \in Seq(EventRow) /\ Len(events) \in Nat
        /\ recorded \subseteq DOMAIN events
    BY DEF Typed, StripeTyped, RestTyped
  <1>2. ASSUME NEW status, NEW types \in Seq(EventType), Told(s, status, types), Len(types) > 0
        PROVE  /\ sub'[s].status = status
               /\ events' # <<>> /\ Len(events') = Len(events) + Len(types)
               /\ events'[Len(events')].type = types[Len(types)]
               /\ events'[Len(events')].status = status
               /\ ~(recorded' = recorded /\ Settled')
    <2>1. /\ sub'[s].status = status /\ Len(types) \in Nat
          /\ events' \in Seq(EventRow) /\ Len(events') = Len(events) + Len(types)
          /\ \A n \in 1..Len(types) :
               /\ events'[Len(events) + n].type = types[n]
               /\ events'[Len(events) + n].status = status
      BY <1>2 DEF Told, TurnsTo, Tells
    <2>2. Len(types) \in 1..Len(types)
      BY <1>2, <2>1
    <2>3. Len(events') \in DOMAIN events' /\ Len(events') \notin DOMAIN events /\ events' # <<>>
      BY <1>1, <1>2, <2>1
    <2>4. ~(recorded' = recorded /\ Settled')
      BY <1>1, <2>3 DEF Settled
    <2>5. QED
      BY <2>1, <2>2, <2>3, <2>4
  <1>3. /\ Len(<<"updated">>) > 0 /\ Len(<<"deleted">>) > 0 /\ Len(<<"created">>) > 0
        /\ Len(<<"dispute">>) > 0 /\ Len(<<"updated", "invoice_paid">>) > 0
        /\ Len(<<"updated", "invoice_failed">>) > 0
        /\ Len(<<"created", "updated", "invoice_paid">>) > 0
        /\ <<"updated">>[Len(<<"updated">>)] = "updated"
        /\ <<"deleted">>[Len(<<"deleted">>)] = "deleted"
    OBVIOUS
  <1> DEFINE Loud == /\ ~Gone(s) /\ ~(recorded' = recorded /\ Settled')
                     /\ Gone(s)' => events' # <<>> /\ IsEnd(events'[Len(events')])
  <1>4. ASSUME NEW status, NEW types \in Seq(EventType), Told(s, status, types), Len(types) > 0,
               ~Gone(s),
               status \notin DeadStatus \/ types = <<"updated">> \/ types = <<"deleted">>
        PROVE  Loud
    <2>1. /\ sub'[s].status = status /\ events' # <<>>
          /\ events'[Len(events')].type = types[Len(types)]
          /\ events'[Len(events')].status = status
          /\ ~(recorded' = recorded /\ Settled')
      BY <1>2, <1>4
    <2>2. Gone(s)' <=> status \in DeadStatus
      BY <2>1 DEF Gone
    <2>3. status \in DeadStatus => IsEnd(events'[Len(events')])
      BY <1>3, <1>4, <2>1 DEF IsEnd
    <2>4. QED
      BY <1>4, <2>1, <2>2, <2>3
  <1> HIDE DEF Loud
  <1>5. ASSUME StripeSays(s) PROVE Loud
    <2>1. ~Gone(s)
      BY <1>5, Statuses DEF StripeSays, Gone
    <2>2. Told(s, "active", <<"updated", "invoice_paid">>) => Loud
      BY <1>3, <1>4, <2>1, Lists, Statuses, Zenon
    <2>3. Told(s, "active", <<"created", "updated", "invoice_paid">>) => Loud
      BY <1>3, <1>4, <2>1, Lists, Statuses, Zenon
    <2>4. Told(s, "incomplete_expired", <<"updated">>) => Loud
      BY <1>3, <1>4, <2>1, Lists, Zenon
    <2>5. Told(s, "past_due", <<"updated", "invoice_failed">>) => Loud
      BY <1>3, <1>4, <2>1, Lists, Statuses, Zenon
    <2>6. Told(s, "unpaid", <<"updated">>) => Loud
      BY <1>3, <1>4, <2>1, Lists, Zenon
    <2>7. Told(s, "canceled", <<"deleted">>) => Loud
      BY <1>3, <1>4, <2>1, Lists, Zenon
    <2>8. QED
      BY <1>5, <2>2, <2>3, <2>4, <2>5, <2>6, <2>7 DEF StripeSays
  <1>6. ASSUME sub[s].status \in ActiveStatus, Told(s, sub[s].status, <<"dispute">>) PROVE Loud
    <2>1. ~Gone(s) /\ sub[s].status \notin DeadStatus
      BY <1>6, Statuses DEF Gone
    <2>2. QED
      BY <1>3, <1>4, <1>6, <2>1, Lists, Zenon
  <1>7. ASSUME sub[s].status = "none", Told(s, "incomplete", <<"created">>) PROVE Loud
    <2>1. ~Gone(s)
      BY <1>7, Statuses DEF Gone
    <2>2. QED
      BY <1>3, <1>4, <1>7, <2>1, Lists, Statuses, Zenon
  <1>8. ASSUME EndsOtherwise(s) PROVE Loud
    <2>1. ~Gone(s) /\ sub[s].status \notin DeadStatus
      BY <1>8, Statuses DEF Gone, EndsOtherwise
    <2>2. QED
      BY <1>3, <1>4, <1>8, <2>1, Lists, Zenon DEF EndsOtherwise
  <1>9. Loud \/ UNCHANGED <<sub, events>>
    BY <1>5, <1>6, <1>7, <1>8 DEF SubMoves
  <1>10. UNCHANGED <<sub, events>> => (Gone(s)' => Gone(s))
    BY DEF Gone
  <1>11. QED
    BY <1>9, <1>10 DEF Loud

LEMMA LiveOnly ==
  ASSUME NEW s \in Subs, SnapMoves(s), NoneLive,
         sub[s].status \notin ActiveStatus \/ UNCHANGED <<reading, cache>>
  PROVE  NoneLive' /\ (~IsLive(cache[s]) => ~IsLive(cache'[s]))
  <1>1. CASE UNCHANGED reading /\ (cache' = cache \/ cache'[s] = Null)
    BY <1>1 DEF NoneLive, IsLive
  <1>2. ASSUME NEW r \in Readers, sub[s].status \notin ActiveStatus,
               \A u \in Readers \ {r} : reading'[u] = reading[u],
               \/ /\ UNCHANGED cache
                  /\ \/ reading'[r].snap = Null
                     \/ reading'[r].snap.status = sub[s].status
               \/ reading'[r].snap = Null /\ cache'[s] = reading[r].snap
        PROVE  NoneLive' /\ (~IsLive(cache[s]) => ~IsLive(cache'[s]))
    <2>1. ~IsLive(reading'[r].snap) /\ (~IsLive(cache[s]) => ~IsLive(cache'[s]))
      BY <1>2 DEF NoneLive, IsLive
    <2>2. \A u \in Readers : ~IsLive(reading'[u].snap)
      BY <1>2, <2>1 DEF NoneLive
    <2>3. QED
      BY <2>1, <2>2 DEF NoneLive
  <1>3. QED
    BY <1>1, <1>2 DEF SnapMoves

LEMMA OverStays ==
  ASSUME NEW s \in Subs, SubMoves(s), SnapMoves(s), Over(s)
  PROVE  Over(s)'
  <1>1. Gone(s)' /\ sub[s].status \notin ActiveStatus
    BY Onward, Statuses DEF Over, Gone
  <1>2. NoneLive'
    BY <1>1, LiveOnly DEF Over
  <1>3. QED
    BY <1>1, <1>2 DEF Over

LEMMA BlankStep ==
  ASSUME NEW s \in Subs, SnapMoves(s), Trades(s), Blank(s)
  PROVE  Blank(s)'
  <1> SUFFICES ASSUME sub'[s].status \in NeverPaid
               PROVE  NoneLive' /\ ~IsLive(cache'[s])
    BY DEF Blank
  <1>1. sub[s].status \in NeverPaid
    BY DEF Trades, Billed, NeverPaid, Unpaid, ActiveStatus
  <1>2. sub[s].status \notin ActiveStatus /\ NoneLive /\ ~IsLive(cache[s])
    BY <1>1 DEF Blank, NeverPaid, Unpaid, ActiveStatus
  <1>3. QED
    BY <1>2, LiveOnly

LEMMA YoungStep ==
  ASSUME Typed, NEW s \in Subs, Trades(s), KeyKept(s), Young(s)
  PROVE  Young(s)'
  <1> SUFFICES ASSUME ConfirmKey(s) \in keys'
               PROVE  /\ sub'[s].end > now'
                      /\ sub'[s].status \in {"incomplete", "active", "incomplete_expired"}
    BY DEF Young, ConfirmKey
  <1>1. now' = now /\ now \in Int /\ sub[s].end \in Int
    BY SubIs, Constants DEF KeyKept, Typed, RestTyped
  <1>2. CASE sub'[s].status = "incomplete" /\ sub'[s].end = now + 1
    BY <1>1, <1>2
  <1>3. CASE ConfirmKey(s) \in keys
    <2>1. sub[s].end > now /\ sub[s].status \in {"incomplete", "active", "incomplete_expired"}
      BY <1>3 DEF Young
    <2>2. CASE sub' = sub
      BY <1>1, <2>1, <2>2
    <2>3. CASE Billed(s, sub'[s].status, sub'[s].end)
      <3>1. ~(sub[s].end <= now)
        BY <1>1, <2>1
      <3>2. /\ sub'[s].end = sub[s].end
            /\ sub'[s].status \in {"incomplete", "active", "incomplete_expired"}
        BY <2>1, <2>3, <3>1 DEF Billed
      <3>3. QED
        BY <1>1, <2>1, <3>2
    <2>4. QED
      BY <2>2, <2>3 DEF Trades
  <1>4. QED
    BY <1>2, <1>3 DEF KeyKept

LEMMA DatedStep ==
  ASSUME Typed, NEW s \in Subs, SnapMoves(s), Trades(s), Dated(s)
  PROVE  Dated(s)'
  <1>1. now + 1 # 0 /\ sub[s].end \in Nat
    BY SubIs, Constants DEF Typed, RestTyped
  <1>2. sub'[s].status # "none" => sub'[s].end # 0
    <2>1. CASE sub' = sub
      BY <2>1 DEF Dated
    <2>2. CASE Billed(s, sub'[s].status, sub'[s].end)
      <3>1. sub[s].status # "none" => sub[s].end # 0
        BY DEF Dated
      <3>2. sub[s].end + 1 # 0
        BY <1>1
      <3>3. QED
        BY <1>1, <2>2, <3>1, <3>2 DEF Billed
    <2>3. QED
      BY <2>1, <2>2 DEF Trades
  <1>3. sub[s].status \in ActiveStatus => sub[s].end # 0
    BY Statuses DEF Dated
  <1>4. CASE UNCHANGED reading /\ (cache' = cache \/ cache'[s] = Null)
    BY <1>2, <1>4 DEF Dated, IsLive
  <1>5. ASSUME NEW r \in Readers,
               \A u \in Readers \ {r} : reading'[u] = reading[u],
               \/ /\ UNCHANGED cache
                  /\ \/ reading'[r].snap = Null
                     \/ /\ reading'[r].snap.status = sub[s].status
                        /\ reading'[r].snap.end = sub[s].end
               \/ reading'[r].snap = Null /\ cache'[s] = reading[r].snap
        PROVE  Dated(s)'
    <2>1. IsLive(cache'[s]) => cache'[s].end # 0
      BY <1>5 DEF Dated, IsLive
    <2>2. IsLive(reading'[r].snap) => reading'[r].snap.end # 0
      BY <1>3, <1>5 DEF IsLive
    <2>3. \A u \in Readers : IsLive(reading'[u].snap) => reading'[u].snap.end # 0
      BY <1>5, <2>2 DEF Dated
    <2>4. QED
      BY <1>2, <2>1, <2>3 DEF Dated
  <1>6. QED
    BY <1>4, <1>5 DEF SnapMoves

LEMMA LastWordStep ==
  ASSUME Typed, NEW s \in Subs, SubMoves(s), LastWord(s)
  PROVE  LastWord(s)'
  <1>1. CASE Gone(s)
    BY <1>1, Silent DEF LastWord
  <1>2. CASE ~Gone(s)
    BY <1>2, Silent DEF LastWord
  <1>3. QED
    BY <1>1, <1>2

-----------------------------------------------------------------------------
(* The row, from before the first event to after the last. *)

Busy(r) == reading[r] # IdleRead

IsDead(snap) == snap # Null /\ snap.status \in DeadStatus

\* Before the first event is in: FREE has no expiry, a read that has shown the row PREMIUM,
\* or the subscription dead, leaves at most one other in flight, and a PREMIUM without an
\* id, which is all the job selects, leaves none.
Unheard(s) ==
    recorded = {} =>
        /\ plan = "FREE" => expiry = 0 /\ (subId = s => ~IsLive(cache[s]))
        /\ plan = "PREMIUM" \/ subId = Null \/ IsDead(cache[s]) =>
             \A q, r \in Readers : Busy(q) /\ Busy(r) => q = r
        /\ plan = "PREMIUM" /\ subId = Null => Gone(s) /\ \A r \in Readers : ~Busy(r)
        /\ job => plan = "PREMIUM" /\ subId = Null

\* Only the job, which no read that saw it alive can follow, leaves the row FREE with the
\* id; so a read that loads an expiry finds the subscription dead.
Stalled(s) ==
    /\ job /\ subId = s => Over(s)
    /\ recorded # {} /\ plan = "FREE" /\ subId = s => Over(s)
    /\ \A r \in Readers : reading[r].expiry # 0 => Over(s)

\* After the last event: a row with the id is FREE and stays so, and what a read puts back
\* no other takes away.
Closed(s) ==
    Settled /\ Gone(s) =>
        /\ subId = s => plan = "FREE" /\ NoneLive /\ ~IsLive(cache[s])
        /\ plan = "PREMIUM" => expiry # 0 /\ \A r \in Readers : reading[r].expiry = 0

Usual == plan \in {"FREE", "PREMIUM"}

Through(s) == plan \in {"FREE", "PREMIUM"} /\ Unheard(s) /\ Stalled(s) /\ Closed(s)

\* What every step of an undisturbed user with ordered events can count on.
Course(s) ==
    /\ Typed /\ Subs = {s} /\ Null # s /\ ordered /\ Undisturbed
    /\ InStep(s) /\ Past(s)
    /\ SubMoves(s) /\ SnapMoves(s)
    /\ Through(s)

LEMMA Courses ==
  ASSUME NEW s \in Subs, Course(s)
  PROVE  /\ Over(s) => Over(s)'
         /\ Gone(s) => Gone(s)' /\ UNCHANGED <<sub, events>> /\ sub[s].status \notin ActiveStatus
         /\ recorded' = recorded /\ Settled' => Settled /\ UNCHANGED <<sub, events>>
         /\ recorded' = recorded /\ Settled' /\ Gone(s)' => Settled /\ Gone(s)
         /\ UNCHANGED sub => (Gone(s)' <=> Gone(s))
  <1>1. SubMoves(s) /\ SnapMoves(s) /\ Typed
    BY DEF Course
  <1>2. Over(s) => Over(s)'
    BY <1>1, OverStays
  <1>3. Gone(s) => Gone(s)' /\ UNCHANGED <<sub, events>> /\ sub[s].status \notin ActiveStatus
    BY <1>1, Onward, Silent, Statuses DEF Gone
  <1>4. recorded' = recorded /\ Settled' => UNCHANGED <<sub, events>>
    BY <1>1, Silent
  <1>5. recorded' = recorded /\ UNCHANGED <<sub, events>> => (Settled' <=> Settled)
    BY DEF Settled
  <1>6. UNCHANGED sub => (Gone(s)' <=> Gone(s))
    BY DEF Gone
  <1>7. QED
    BY <1>2, <1>3, <1>4, <1>5, <1>6

LEMMA OutsideStep ==
  ASSUME NEW s \in Subs, Course(s), Outside(s)
  PROVE  Through(s)'
  <1>1. /\ UNCHANGED <<plan, subId, expiry, reading, job, recorded>>
        /\ IsLive(cache'[s]) => IsLive(cache[s])
        /\ IsDead(cache'[s]) => IsDead(cache[s])
    BY DEF Outside, IsLive, IsDead
  <1>2. Unheard(s) /\ Stalled(s) /\ Closed(s) /\ plan \in {"FREE", "PREMIUM"}
    BY DEF Course, Through
  <1>3. Unheard(s)'
    BY <1>1, <1>2, Courses DEF Unheard, Busy
  <1>4. Stalled(s)'
    BY <1>1, <1>2, Courses DEF Stalled
  <1>5. NoneLive => NoneLive'
    BY <1>1 DEF NoneLive
  <1>6. Closed(s)'
    BY <1>1, <1>2, <1>5, Courses DEF Closed
  <1>7. QED
    BY <1>1, <1>2, <1>3, <1>4, <1>6 DEF Through

\* A retry of the confirm gives the row an id it has already, or one nobody ever paid for.
LEMMA StoresStep ==
  ASSUME NEW s \in Subs, Course(s), Stores(s), Blank(s)'
  PROVE  Through(s)'
  <1>1. /\ plan = "FREE" /\ subId' = s
        /\ UNCHANGED <<plan, expiry, reading, cache, job, recorded>>
        /\ sub'[s].status = "incomplete" \/ (sub' = sub /\ ConfirmKey(s) \in keys)
    BY DEF Stores
  <1>2. Unheard(s) /\ Stalled(s) /\ Closed(s)
    BY DEF Course, Through
  <1>3. Young(s) /\ Keyed(s) /\ Row(s) /\ Queued /\ ordered /\ Undisturbed /\ Null # s /\ Typed
    BY DEF Course, Past, InStep
  <1>4. subId = s \/ (NoneLive /\ ~IsLive(cache[s]))
    <2>1. CASE sub'[s].status \in NeverPaid
      BY <1>1, <2>1 DEF Blank, NoneLive
    <2>2. CASE sub'[s].status \notin NeverPaid
      <3>1. sub' = sub /\ ConfirmKey(s) \in keys
        BY <1>1, <2>2 DEF NeverPaid, Unpaid
      <3>2. sub[s].status = "active"
        BY <1>3, <2>2, <3>1 DEF Young, NeverPaid, Unpaid
      <3>3. s \in offered /\ ~Gone(s)
        BY <1>3, <3>1, <3>2, Statuses DEF Keyed, Gone
      <3>4. subId = s
        BY <1>3, <3>3 DEF Row, Known
      <3>5. QED
        BY <3>4
    <2>3. QED
      BY <2>1, <2>2
  <1>5. recorded # {} => 1 \in recorded
    <2>1. \A n \in recorded : n \in Nat /\ n >= 1
      BY <1>3 DEF Typed, RestTyped, StripeTyped
    <2>2. \A n \in recorded : 1 \in 1..n
      BY <2>1
    <2>3. QED
      BY <1>3, <2>2 DEF Queued
  <1>6. job \/ recorded # {} => Gone(s)
    BY <1>1, <1>3, <1>5 DEF Row, Shown
  <1>7. (job \/ recorded # {}) /\ subId # s => Over(s)
    BY <1>4, <1>6 DEF Over
  <1>8. Unheard(s)'
    BY <1>1, <1>2, <1>3, <1>4 DEF Unheard, Busy
  <1>9. Stalled(s)'
    BY <1>1, <1>2, <1>7, Courses DEF Stalled
  <1>10. NoneLive' <=> NoneLive
    BY <1>1 DEF NoneLive
  <1>11. Closed(s)'
    BY <1>1, <1>2, <1>4, <1>10, Courses DEF Closed
  <1>12. QED
    BY <1>1, <1>8, <1>9, <1>11 DEF Through

LEMMA HearsStep ==
  ASSUME NEW s \in Subs, Course(s), NEW n \in DOMAIN events, Hears(n)
  PROVE  Through(s)'
  <1>1. /\ UNCHANGED <<reading, cache, job, sub, events>>
        /\ n \notin recorded /\ recorded' = recorded \cup {n} /\ Handled(events[n])
    BY DEF Hears, WebhookMoves
  <1>2. /\ Stalled(s) /\ plan \in {"FREE", "PREMIUM"}
        /\ Truthful(s) /\ Queued /\ LastWord(s) /\ ordered /\ Undisturbed /\ Null # s /\ Typed
    BY DEF Course, Through, InStep, Past
  <1>3. /\ \A m \in 1..(n - 1) : m \in recorded
        /\ recorded \subseteq DOMAIN events /\ events \in Seq(EventRow)
    BY <1>2 DEF Hears, WebhookMoves, Typed, RestTyped, StripeTyped
  <1>4. /\ n \in Nat /\ n >= 1 /\ n <= Len(events) /\ Len(events) \in Nat
        /\ DOMAIN events = 1..Len(events) /\ events[n].sub = s
    BY <1>2, <1>3, EventIs DEF Typed, Course
  <1>5. /\ events[n].type = "created" <=> n = 1
        /\ events[n].type # "dispute"
    BY <1>2 DEF Truthful, Undisturbed
  <1>6. recorded' # {} /\ (recorded = {} <=> n = 1)
    <2>1. n # 1 => 1 \in recorded
      BY <1>3, <1>4
    <2>2. ASSUME n = 1, NEW m \in recorded PROVE FALSE
      <3>1. m \in 1..Len(events)
        BY <1>3, <1>4
      <3>2. 1 \in 1..m
        BY <3>1
      <3>3. QED
        BY <1>1, <1>2, <2>2, <3>2 DEF Queued
    <2>3. QED
      BY <1>1, <2>1, <2>2
  <1>7. Usual'
    BY <1>1, <1>2, <1>5 DEF Handled, SetPlan, Usual
  <1>8. Unheard(s)'
    BY <1>6 DEF Unheard
  <1>9. Stalled(s)'
    <2>1. ASSUME job', subId' = s PROVE Over(s)
      <3>1. CASE n = 1
        BY <1>1, <1>6, <2>1, <3>1 DEF Course, Through, Unheard, Over, NoneLive, Busy, IsLive, IdleRead
      <3>2. CASE n # 1
        <4>1. subId' = subId \/ subId' = Null
          BY <1>1, <1>5, <3>2 DEF Handled
        <4>2. QED
          BY <1>1, <1>2, <2>1, <4>1 DEF Stalled
      <3>3. QED
        BY <3>1, <3>2
    <2>2. ASSUME plan' = "FREE", subId' = s PROVE Over(s)
      <3>1. plan' = plan /\ subId' = subId /\ n # 1
        BY <1>1, <1>2, <1>5, <2>2 DEF Handled, SetPlan
      <3>2. QED
        BY <1>2, <1>6, <2>2, <3>1 DEF Stalled
    <2>3. QED
      BY <1>1, <1>2, <2>1, <2>2, Courses DEF Stalled
  <1>10. Closed(s)'
    <2> SUFFICES ASSUME Settled', Gone(s)' PROVE plan' = "FREE" /\ subId' = Null
      BY <1>2 DEF Closed
    <2>1. Gone(s) /\ recorded' = 1..Len(events)
      BY <1>1, <1>4, Courses DEF Settled
    <2>2. n = Len(events)
      <3>1. ASSUME n # Len(events) PROVE FALSE
        <4>1. Len(events) \in 1..Len(events) /\ n \in 1..Len(events)
          BY <1>4
        <4>2. Len(events) \in recorded
          BY <1>1, <2>1, <3>1, <4>1
        <4>3. QED
          BY <1>1, <1>2, <4>1, <4>2 DEF Queued
      <3>2. QED
        BY <3>1
    <2>3. IsEnd(events[n])
      BY <1>2, <2>1, <2>2 DEF LastWord
    <2>4. QED
      BY <1>1, <1>2, <2>3 DEF IsEnd, Handled, SetPlan
  <1>11. QED
    BY <1>7, <1>8, <1>9, <1>10 DEF Through, Usual

LEMMA CachedStep ==
  ASSUME NEW s \in Subs, Course(s), Cached(s)
  PROVE  Through(s)'
  <1>1. /\ plan = "FREE" /\ subId = s /\ cache[s] # Null /\ Puts(cache[s], expiry)
        /\ UNCHANGED <<reading, cache, job, recorded, sub, events>>
    BY DEF Cached
  <1>2. Unheard(s) /\ Stalled(s) /\ Closed(s) /\ Null # s
    BY DEF Course, Through
  <1>3. (NoneLive' <=> NoneLive) /\ (Settled' <=> Settled)
    BY <1>1 DEF NoneLive, Settled
  <1>4. CASE UNCHANGED <<plan, subId, expiry>>
    BY <1>1, <1>4, OutsideStep DEF Outside
  <1>5. CASE /\ cache[s].status \in ActiveStatus
             /\ plan' = "PREMIUM" /\ subId' = subId
    <2>1. IsLive(cache[s])
      BY <1>1, <1>5 DEF IsLive
    <2>2. recorded # {} /\ ~(Settled /\ Gone(s))
      BY <1>1, <1>2, <2>1 DEF Unheard, Closed
    <2>3. Unheard(s)'
      BY <1>1, <2>2 DEF Unheard
    <2>4. Stalled(s)'
      BY <1>1, <1>2, <1>5, Courses DEF Stalled
    <2>5. Closed(s)'
      BY <1>1, <1>3, <2>2, Courses DEF Closed
    <2>6. QED
      BY <1>5, <2>3, <2>4, <2>5 DEF Through
  <1>6. CASE /\ cache[s].status \in DeadStatus
             /\ plan' = plan /\ subId' = Null /\ expiry' = IF expiry # 0 THEN 0 ELSE expiry
    <2>1. IsDead(cache[s]) /\ expiry' = 0
      BY <1>1, <1>6 DEF IsDead
    <2>2. Unheard(s)'
      BY <1>1, <1>2, <1>6, <2>1, Courses DEF Unheard, Busy
    <2>3. Stalled(s)'
      BY <1>1, <1>2, <1>6, Courses DEF Stalled
    <2>4. Closed(s)'
      BY <1>1, <1>2, <1>6 DEF Closed
    <2>5. QED
      BY <1>1, <1>6, <2>2, <2>3, <2>4 DEF Through
  <1>7. QED
    BY <1>1, <1>4, <1>5, <1>6 DEF Puts

LEMMA StartsStep ==
  ASSUME NEW s \in Subs, Course(s), NEW r \in Readers, Starts(r, s)
  PROVE  Through(s)'
  <1>1. /\ plan = "FREE" /\ subId = s /\ cache[s] = Null
        /\ \A u \in Readers \ {r} : reading'[u] = reading[u]
        /\ reading'[r].snap = Null /\ reading'[r].expiry = expiry
        /\ UNCHANGED <<plan, subId, expiry, cache, job, recorded, sub, events>>
    BY DEF Starts, Only
  <1>2. Unheard(s) /\ Stalled(s) /\ Closed(s) /\ Null # s
    BY DEF Course, Through
  <1>3. NoneLive => NoneLive'
    BY <1>1 DEF NoneLive, IsLive
  <1>4. Settled' <=> Settled
    BY <1>1 DEF Settled
  <1>5. Unheard(s)'
    BY <1>1, <1>2 DEF Unheard, IsLive, IsDead
  <1>6. Stalled(s)'
    <2>1. ASSUME NEW u \in Readers, reading'[u].expiry # 0 PROVE Over(s)
      <3>1. CASE u = r
        BY <1>1, <1>2, <2>1, <3>1 DEF Unheard, Stalled
      <3>2. CASE u # r
        BY <1>1, <1>2, <2>1, <3>2 DEF Stalled
      <3>3. QED
        BY <3>1, <3>2
    <2>2. QED
      BY <1>1, <1>2, <2>1, Courses DEF Stalled
  <1>7. Closed(s)'
    BY <1>1, <1>2, <1>3, <1>4, Courses DEF Closed
  <1>8. QED
    BY <1>1, <1>5, <1>6, <1>7 DEF Through

LEMMA AnswersStep ==
  ASSUME NEW s \in Subs, Course(s), NEW r \in Readers, Answers(r)
  PROVE  Through(s)'
  <1>1. /\ Busy(r) /\ \A u \in Readers \ {r} : reading'[u] = reading[u]
        /\ reading'[r].expiry = reading[r].expiry
        /\ UNCHANGED <<plan, subId, expiry, cache, job, recorded, sub, events>>
    BY DEF Answers, Only, Busy
  <1>2. Unheard(s) /\ Stalled(s) /\ Closed(s) /\ SnapMoves(s) /\ plan \in {"FREE", "PREMIUM"}
    BY DEF Course, Through
  <1>3. /\ \A u \in Readers : reading'[u].expiry = reading[u].expiry
        /\ \A u \in Readers : Busy(u)' => Busy(u)
    BY <1>1 DEF Busy
  <1>4. Gone(s) /\ NoneLive => NoneLive'
    BY <1>2, LiveOnly, Courses
  <1>5. Settled' <=> Settled
    BY <1>1 DEF Settled
  <1>6. Unheard(s)'
    <2>1. ASSUME recorded = {}, plan = "PREMIUM" \/ subId = Null \/ IsDead(cache[s]),
                 NEW p \in Readers, NEW q \in Readers, Busy(p)', Busy(q)'
          PROVE  p = q
      BY <1>2, <1>3, <2>1 DEF Unheard
    <2>2. ASSUME recorded = {}, plan = "PREMIUM", subId = Null PROVE FALSE
      BY <1>1, <1>2, <2>2 DEF Unheard
    <2>3. QED
      BY <1>1, <1>2, <2>1, <2>2 DEF Unheard
  <1>7. Stalled(s)'
    BY <1>1, <1>2, <1>3, Courses DEF Stalled
  <1>8. Closed(s)'
    BY <1>1, <1>2, <1>3, <1>4, <1>5, Courses DEF Closed
  <1>9. QED
    BY <1>1, <1>2, <1>6, <1>7, <1>8 DEF Through

\* A read that ends: here no other two can be in flight.
LEMMA FinishesStep ==
  ASSUME NEW s \in Subs, Course(s), AtMostTwoReads, NEW r \in Readers, Finishes(r, s)
  PROVE  Through(s)'
  <1>1. /\ Busy(r) /\ \A u \in Readers \ {r} : reading'[u] = reading[u]
        /\ reading'[r] = IdleRead
        /\ \/ reading[r].snap = Null /\ UNCHANGED <<plan, subId, expiry, cache>>
           \/ /\ reading[r].snap # Null /\ cache'[s] = reading[r].snap
              /\ Puts(reading[r].snap, reading[r].expiry)
        /\ UNCHANGED <<job, recorded, sub, events>>
    BY DEF Finishes, Only, Busy
  <1>2. /\ Unheard(s) /\ Stalled(s) /\ Closed(s) /\ plan \in {"FREE", "PREMIUM"} /\ Null # s
        /\ Dated(s) /\ Row(s) /\ Seen(s) /\ Undisturbed
    BY DEF Course, Through, Past, InStep
  <1>3. /\ \A u \in Readers : reading'[u].expiry = reading[u].expiry \/ reading'[u].expiry = 0
        /\ \A u \in Readers : Busy(u)' => Busy(u) /\ u # r
        /\ NoneLive => NoneLive'
    BY <1>1 DEF Busy, NoneLive, IsLive, IdleRead
  <1>4. \A p, q \in Readers : Busy(p)' /\ Busy(q)' => p = q
    BY <1>3 DEF AtMostTwoReads
  <1>5. (\A p, q \in Readers : Busy(p) /\ Busy(q) => p = q) => \A u \in Readers : ~Busy(u)'
    BY <1>1, <1>3
  <1>6. Settled' <=> Settled
    BY <1>1 DEF Settled
  <1>7. recorded = {} /\ plan = "PREMIUM" /\ subId = Null => FALSE
    BY <1>1, <1>2 DEF Unheard
  <1>8. CASE UNCHANGED <<plan, subId, expiry, cache>>
    <2>1. Unheard(s)'
      BY <1>1, <1>2, <1>4, <1>7, <1>8 DEF Unheard
    <2>2. Stalled(s)'
      BY <1>1, <1>2, <1>3, <1>8, Courses DEF Stalled
    <2>3. Closed(s)'
      BY <1>1, <1>2, <1>3, <1>6, <1>8, Courses DEF Closed
    <2>4. QED
      BY <1>2, <1>8, <2>1, <2>2, <2>3 DEF Through
  <1>9. CASE /\ reading[r].snap # Null /\ cache'[s] = reading[r].snap
             /\ reading[r].snap.status \in ActiveStatus
             /\ plan' = "PREMIUM" /\ subId' = subId
             /\ expiry' = IF reading[r].snap.end # reading[r].expiry
                          THEN reading[r].snap.end ELSE expiry
    <2>1. IsLive(reading[r].snap) /\ ~NoneLive /\ ~Over(s)
      BY <1>9 DEF IsLive, NoneLive, Over
    <2>2. \A u \in Readers : reading[u].expiry = 0
      BY <1>2, <2>1 DEF Stalled
    <2>3. expiry' # 0
      BY <1>2, <1>9, <2>1, <2>2 DEF Dated
    <2>4. subId = Null => Gone(s)
      BY <1>1, <1>2 DEF Row, Known, Busy
    <2>5. Unheard(s)'
      <3>1. recorded = {} /\ subId = Null => \A u \in Readers : ~Busy(u)'
        BY <1>2, <1>5 DEF Unheard
      <3>2. recorded = {} => ~job
        BY <1>2, <1>7 DEF Unheard
      <3>3. QED
        BY <1>1, <1>4, <1>9, <2>4, <3>1, <3>2, Courses DEF Unheard
    <2>6. Stalled(s)'
      BY <1>1, <1>2, <1>3, <1>9, <2>1, <2>2 DEF Stalled
    <2>7. Closed(s)'
      BY <1>1, <1>2, <1>3, <1>6, <1>9, <2>1, <2>2, <2>3, Courses DEF Closed
    <2>8. QED
      BY <1>9, <2>5, <2>6, <2>7 DEF Through
  <1>10. CASE /\ reading[r].snap # Null /\ cache'[s] = reading[r].snap
              /\ reading[r].snap.status \in DeadStatus
              /\ plan' = plan /\ subId' = Null
              /\ expiry' = IF reading[r].expiry # 0 THEN 0 ELSE expiry
    <2>1. Gone(s) /\ Gone(s)'
      BY <1>1, <1>2, <1>10, Courses DEF Seen
    <2>2. Unheard(s)'
      <3>1. recorded = {} /\ plan = "PREMIUM" => \A u \in Readers : ~Busy(u)'
        BY <1>2, <1>5 DEF Unheard
      <3>2. recorded = {} => ~job
        BY <1>2, <1>7 DEF Unheard
      <3>3. recorded = {} /\ plan = "FREE" => expiry' = 0
        BY <1>2, <1>10 DEF Unheard
      <3>4. QED
        BY <1>1, <1>2, <1>4, <1>10, <2>1, <3>1, <3>2, <3>3 DEF Unheard
    <2>3. Stalled(s)'
      BY <1>1, <1>2, <1>3, <1>10, Courses DEF Stalled
    <2>4. Closed(s)'
      BY <1>1, <1>2, <1>3, <1>6, <1>10, <2>1 DEF Closed
    <2>5. QED
      BY <1>2, <1>10, <2>2, <2>3, <2>4 DEF Through
  <1>11. CASE /\ reading[r].snap # Null /\ cache'[s] = reading[r].snap
              /\ reading[r].snap.status \notin ActiveStatus
              /\ UNCHANGED <<plan, subId, expiry>>
    <2>1. ~IsLive(cache'[s])
      BY <1>11 DEF IsLive
    <2>2. Unheard(s)'
      BY <1>1, <1>2, <1>4, <1>7, <1>11, <2>1 DEF Unheard
    <2>3. Stalled(s)'
      BY <1>1, <1>2, <1>3, <1>11, Courses DEF Stalled
    <2>4. Closed(s)'
      BY <1>1, <1>2, <1>3, <1>6, <1>11, <2>1, Courses DEF Closed
    <2>5. QED
      BY <1>2, <1>11, <2>2, <2>3, <2>4 DEF Through
  <1>12. QED
    BY <1>1, <1>8, <1>9, <1>10, <1>11 DEF Puts

LEMMA JobTurn ==
  ASSUME NEW s \in Subs, Course(s), Selects \/ Commits
  PROVE  Through(s)'
  <1>1. UNCHANGED <<subId, reading, cache, recorded, sub, events>>
    BY DEF Selects, Commits
  <1>2. Unheard(s) /\ Stalled(s) /\ Closed(s) /\ plan \in {"FREE", "PREMIUM"} /\ Null # s
    BY DEF Course, Through
  <1>3. (NoneLive' <=> NoneLive) /\ (Settled' <=> Settled)
    BY <1>1 DEF NoneLive, Settled
  <1>4. CASE Selects
    <2>1. plan = "PREMIUM" /\ subId = Null /\ UNCHANGED <<plan, expiry>>
      BY <1>4 DEF Selects
    <2>2. Unheard(s)'
      BY <1>1, <1>2, <2>1, Courses DEF Unheard, Busy
    <2>3. Stalled(s)'
      BY <1>1, <1>2, <2>1, Courses DEF Stalled
    <2>4. Closed(s)'
      BY <1>1, <1>2, <1>3, <2>1, Courses DEF Closed
    <2>5. QED
      BY <1>2, <2>1, <2>2, <2>3, <2>4 DEF Through
  <1>5. CASE Commits
    <2>1. job /\ ~job' /\ plan' = "FREE" /\ expiry' = 0
      BY <1>5 DEF Commits
    <2>2. Unheard(s)'
      BY <1>1, <1>2, <2>1 DEF Unheard, Busy
    <2>3. Stalled(s)'
      BY <1>1, <1>2, <2>1, Courses DEF Stalled
    <2>4. Closed(s)'
      BY <1>1, <1>2, <1>3, <2>1, Courses DEF Closed
    <2>5. QED
      BY <2>1, <2>2, <2>3, <2>4 DEF Through
  <1>6. QED
    BY <1>4, <1>5

LEMMA QueuedStep ==
  ASSUME Typed, [Next]_vars, Queued
  PROVE  Queued'
  <1>1. CASE Webhook
    <2>1. PICK n \in DOMAIN events : WebhookMoves(n)
      BY <1>1, WebhookSays
    <2>2. ordered' = ordered /\ n \in Nat /\ n >= 1
      BY <1>1, WebhookSays, EventIs DEF webhookLeaves, Typed
    <2>3. /\ recorded' = recorded \cup {n}
          /\ ordered => \A m \in 1..(n - 1) : m \in recorded
      BY <2>1 DEF WebhookMoves
    <2>4. \A m \in 1..n : m = n \/ m \in 1..(n - 1)
      BY <2>2
    <2>5. QED
      BY <2>2, <2>3, <2>4 DEF Queued
  <1>2. CASE UNCHANGED <<recorded, ordered>>
    BY <1>2 DEF Queued
  <1>3. Webhook \/ UNCHANGED <<recorded, ordered>>
    <2>1. Stripe \/ KeysExpire \/ Tick => UNCHANGED <<recorded, ordered>>
      BY Zenon DEF Stripe, KeysExpire, Tick, stripeVars
    <2>2. Request => UNCHANGED <<recorded, ordered>>
      BY Zenon DEF Request, Confirm, CreateCheckoutSession, ChangesInPortal, Cancel, Reactivate, Modify
    <2>3. Read => UNCHANGED <<recorded, ordered>>
      BY Zenon DEF Read, ReadCached, ReadStart, StripeAnswers, ReadFinish, stripeVars
    <2>4. JobStep => UNCHANGED <<recorded, ordered>>
      BY Zenon DEF JobStep, JobSelect, JobCommit, stripeVars
    <2>5. (\E s \in Subs : CacheExpires(s)) => UNCHANGED <<recorded, ordered>>
      BY Zenon DEF CacheExpires, stripeVars
    <2>6. Staff => UNCHANGED <<recorded, ordered>>
      BY Zenon DEF Staff, AdminSetsPlan, AdminUpdatesUser, stripeVars
    <2>7. UNCHANGED vars => UNCHANGED <<recorded, ordered>>
      BY Zenon DEF vars
    <2>8. QED
      BY <2>1, <2>2, <2>3, <2>4, <2>5, <2>6, <2>7 DEF Next
  <1>4. QED
    BY <1>1, <1>2, <1>3

LEMMA PastStep ==
  ASSUME Typed, NEW s \in Subs, Subs = {s}, [Next]_vars, Past(s)
  PROVE  Past(s)'
  <1>1. SubMoves(s) /\ SnapMoves(s) /\ Trades(s) /\ KeyKept(s)
    BY EveryMove, EveryTurn DEF Moves
  <1>2. Blank(s)' /\ Young(s)'
    BY <1>1, BlankStep, YoungStep DEF Past
  <1>3. Dated(s)' /\ LastWord(s)'
    BY <1>1, DatedStep, LastWordStep DEF Past
  <1>4. Queued'
    BY QueuedStep DEF Past
  <1>5. QED
    BY <1>2, <1>3, <1>4 DEF Past

\* What the property needs, of a user with one subscription.
Found(s) ==
    Past(s) /\ (AtMostTwoReads /\ ordered /\ Undisturbed => Through(s))

LEMMA FoundStep ==
  ASSUME Typed, NEW s \in Subs, Subs = {s}, [Next]_vars, InStep(s), Found(s)
  PROVE  Found(s)'
  <1>1. Past(s) /\ Past(s)'
    BY PastStep DEF Found
  <1>2. ASSUME AtMostTwoReads, ordered', Undisturbed' PROVE Through(s)'
    <2>1. SubMoves(s) /\ SnapMoves(s) /\ Steady
      BY EveryMove DEF Moves
    <2>2. ordered /\ Undisturbed /\ adminWrites' = 0
      BY <1>2, <2>1, Onward DEF Steady, Undisturbed
    <2>3. Course(s)
      BY <1>1, <1>2, <2>1, <2>2, Constants DEF Course, Found
    <2>4. Turns(s)
      BY <2>2, EveryTurn
    <2>5. Blank(s)'
      BY <1>1 DEF Past
    <2>6. QED
      BY <1>2, <2>3, <2>4, <2>5, OutsideStep, StoresStep, HearsStep, CachedStep, StartsStep,
         AnswersStep, FinishesStep, JobTurn DEF Turns
  <1>3. AtMostTwoReads' <=> AtMostTwoReads
    BY DEF AtMostTwoReads
  <1>4. QED
    BY <1>1, <1>2, <1>3 DEF Found

LEMMA FoundHolds == Spec => [](\A s \in Subs : Subs = {s} => Found(s))
  <1>1. Init => \A s \in Subs : Subs = {s} => Found(s)
    <2> SUFFICES ASSUME Init, NEW s \in Subs PROVE Found(s)
      OBVIOUS
    <2>1. /\ sub[s].status = "none" /\ sub[s].end = 0 /\ keys = {} /\ recorded = {} /\ ~job
          /\ plan = "FREE" /\ subId = Null /\ expiry = 0 /\ cache[s] = Null /\ events = <<>>
          /\ \A r \in Readers : reading[r] = IdleRead
      BY DEF Init
    <2>2. ~Gone(s) /\ NoneLive
      BY <2>1, Statuses, Idles DEF Gone, NoneLive, IsLive
    <2>3. Blank(s) /\ Young(s) /\ LastWord(s) /\ Queued
      BY <2>1, <2>2 DEF Blank, Young, LastWord, Queued, IsLive
    <2>4. Dated(s)
      BY <2>1, <2>2 DEF Dated, IsLive, NoneLive
    <2>5. Unheard(s)
      BY <2>1, Constants DEF Unheard, Busy
    <2>6. Stalled(s) /\ Closed(s)
      BY <2>1, <2>2 DEF Stalled, Closed, IdleRead
    <2>7. QED
      BY <2>1, <2>3, <2>4, <2>5, <2>6 DEF Found, Past, Through
  <1>2. Typed /\ (\A s \in Subs : Subs = {s} => InStep(s))
        /\ (\A s \in Subs : Subs = {s} => Found(s)) /\ [Next]_vars
        => (\A s \in Subs : Subs = {s} => Found(s))'
    BY FoundStep
  <1>3. QED
    BY <1>1, <1>2, TypesHold, InStepHolds, PTL DEF Spec

\* A PREMIUM that a read put back after the last subscription's end was processed has no id
\* and an expiry, which is what run_plan_expiration selects: no other read, snapshot, retried
\* confirm or commit of the job takes either away, as long as two reads at most are in flight.
THEOREM LeftoverIsFound == Spec => []LeftoverExpires
  <1>1. ASSUME Typed, \A s \in Subs : Subs = {s} => InStep(s),
               \A s \in Subs : Subs = {s} => Found(s)
        PROVE  LeftoverExpires
    <2> SUFFICES ASSUME NEW s \in Subs, Subs = {s}, AtMostTwoReads, ordered, Settled, Undisturbed,
                        ~Live(s), events # <<>>, plan = "PREMIUM"
                 PROVE  subId = Null /\ expiry # 0
      BY DEF LeftoverExpires, OneSub, AllDead
    <2>1. Truthful(s) /\ Through(s)
      BY <1>1 DEF InStep, Found
    <2>2. Gone(s)
      BY <1>1, <2>1, SubIs DEF Truthful, Live, Gone, SubStatus, Typed
    <2>3. subId # s /\ expiry # 0
      BY <2>1, <2>2 DEF Through, Closed
    <2>4. QED
      BY <1>1, <2>3 DEF Typed, RowTyped
  <1>2. QED
    BY <1>1, TypesHold, InStepHolds, FoundHolds, PTL

=============================================================================
