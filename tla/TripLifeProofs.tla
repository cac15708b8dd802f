---------------------------- MODULE TripLifeProofs ----------------------------
(***************************************************************************)
(* Proofs about TripSharing and TripLife, for any trips, guests, limit and  *)
(* bounds: type correctness; the seats of a trip (AtMostTwice,               *)
(* SeatsAreGranted); what a user sees of a trip (ListsWhatOpens); and that   *)
(* a ticket keeps its trip (TicketKeepsTrip).                                *)
(***************************************************************************)
EXTENDS TripLife, FiniteSetTheorems, TLAPS

-----------------------------------------------------------------------------
(* Type correctness. *)

\* What Load checked of the status it saw: only a status that another may follow, or
\* Following has no value for it.
SeenOK == req # NoReq /\ req.op = "status" => req.seen \in {"DRAFT", "PLANNED", "ONGOING"}

Typed == TypeOK /\ SeenOK

\* The handlers of shares and invites keep the types.
LEMMA SharingTypes ==
  ASSUME Typed, ShareStep  PROVE Typed'
  <1> USE SharingConstantsOK DEF Typed, TypeOK, SeenOK, SharingTypeOK, Users, InviteState,
          ShareStep, lifeVars, Notify, LiveInvites
  <1>1. ASSUME NEW t \in Shared, NEW g \in Guests, ShareWithAccount(t, g)  PROVE Typed'
    BY <1>1 DEF ShareWithAccount
  <1>2. ASSUME NEW t \in Shared, NEW g \in Guests, InviteByEmail(t, g)  PROVE Typed'
    BY <1>2 DEF InviteByEmail
  <1>3. ASSUME NEW t \in Shared, NEW g \in Guests, RevokeInvite(t, g)  PROVE Typed'
    BY <1>3 DEF RevokeInvite
  <1>4. ASSUME NEW t \in Shared, NEW g \in Guests, InviteExpires(t, g)  PROVE Typed'
    BY <1>4 DEF InviteExpires
  <1>5. ASSUME NEW t \in Shared, NEW u \in Users, RevokeShare(t, u)  PROVE Typed'
    BY <1>5 DEF RevokeShare
  <1>6. ASSUME NEW t \in Shared, NEW g \in Guests, NEW u \in Users, AcceptInvite(t, g, u)
        PROVE Typed'
    BY <1>6 DEF AcceptInvite
  <1>7. ASSUME NEW g \in Guests, SignUp(g)  PROVE Typed'
    BY <1>7 DEF SignUp, Claim
  <1>8. QED
    BY <1>1, <1>2, <1>3, <1>4, <1>5, <1>6, <1>7 DEF Sharing

\* So do the owner's requests.
LEMMA RequestTypes ==
  ASSUME Typed, Requests  PROVE Typed'
  <1> USE SharingConstantsOK, LifeConstantsOK DEF Typed, TypeOK, SeenOK, SharingTypeOK, Users,
          InviteState, sharingVars, Status, Date, Request, MayWrite, Notify
  <1>1. ASSUME NEW t \in Trips, NEW s \in Dates, NEW e \in Dates, CreateTrip(t, s, e)  PROVE Typed'
    BY <1>1 DEF CreateTrip
  <1>2. ASSUME NEW t \in Trips, NEW op \in {"update", "status", "delete"}, Load(op, t)
        PROVE Typed'
    BY <1>2 DEF Load, Exists
  <1>3. ASSUME NEW s \in Dates, NEW e \in Dates, UpdateTrip(s, e)  PROVE Typed'
    BY <1>3 DEF UpdateTrip
  <1>4. CASE UpdateTripStatus
    BY <1>4 DEF UpdateTripStatus, Following
  <1>5. CASE DeleteTrip
    BY <1>5 DEF DeleteTrip, Gone, Cascade
  <1>6. CASE Refused
    BY <1>6 DEF Refused
  <1>7. QED
    BY <1>1, <1>2, <1>3, <1>4, <1>5, <1>6 DEF Requests, Creations

\* And everything else.
LEMMA TypeStep == Typed /\ [Next]_vars => Typed'
  <1> SUFFICES ASSUME Typed, [Next]_vars  PROVE Typed'
    OBVIOUS
  <1> USE SharingConstantsOK, LifeConstantsOK DEF Typed, TypeOK, SeenOK, SharingTypeOK, Users,
          InviteState, sharingVars, Status, Date, Request, JobPhase, Booking, StartUp
  <1>1. CASE Requests
    BY <1>1, RequestTypes
  <1>2. CASE ShareStep
    BY <1>2, SharingTypes
  <1>3. CASE Bookings
    BY <1>3 DEF Bookings, MoneyHeld, OrderPlaced, OrderConfirmed
  <1>4. CASE JobStep
    <2>1. CASE JobStarts
      BY <2>1 DEF JobStarts, Starting
    <2>2. CASE JobCompletes
      BY <2>2 DEF JobCompletes
    <2>3. CASE JobNotifies
      BY <2>3 DEF JobNotifies
    <2>4. CASE GcSelects
      BY <2>4 DEF GcSelects
    <2>5. CASE GcDeletes
      BY <2>5 DEF GcDeletes, Gone, Cascade
    <2>6. QED
      BY <1>4, <2>1, <2>2, <2>3, <2>4, <2>5 DEF JobStep
  <1>5. CASE Midnight
    BY <1>5 DEF Midnight
  <1>6. CASE Crash
    BY <1>6 DEF Crash
  <1>7. CASE Admin
    <2>1. ASSUME NEW t \in Trips, AdminDeletesTrip(t)  PROVE Typed'
      BY <2>1 DEF AdminDeletesTrip, AdminActs, Gone, Cascade
    <2>2. ASSUME NEW t \in Trips, NEW st \in Status, AdminUpdatesTrip(t, st)  PROVE Typed'
      BY <2>2 DEF AdminUpdatesTrip, AdminActs
    <2>3. ASSUME NEW t \in Trips, NEW u \in Users, AdminDeletesShare(t, u)  PROVE Typed'
      BY <2>3 DEF AdminDeletesShare, AdminActs
    <2>4. QED
      BY <1>7, <2>1, <2>2, <2>3 DEF Admin
  <1>8. ASSUME NEW t \in Trips, NotificationsDeleted(t)  PROVE Typed'
    BY <1>8 DEF NotificationsDeleted, lifeVars
  <1>9. CASE UNCHANGED vars
    BY <1>9 DEF vars
  <1>10. QED
    BY <1>1, <1>2, <1>3, <1>4, <1>5, <1>6, <1>7, <1>8, <1>9 DEF Next

LEMMA TypeInit == Init => Typed
  BY LifeConstantsOK DEF Init, SharingInit, Typed, TypeOK, SeenOK, SharingTypeOK, Users, InviteState, Status, Date,
         JobPhase, Booking, StartUp

\* Every handler, job step and restart leaves the rows of trips, shares and invites, the
\* request being served and the job in the domains TypeOK gives them.
THEOREM TypeCorrect == Spec => []TypeOK
  <1>1. Typed => TypeOK
    BY DEF Typed
  <1>2. QED
    BY <1>1, TypeInit, TypeStep, PTL DEF Spec

-----------------------------------------------------------------------------
(* The seats of a trip. *)

\* What one step may do to the seats of a trip: nothing, a grant of the owner's, the hand
\* over of one invite to one user, or the loss of some.
Granted(t) == \E g \in Guests : ShareWithAccount(t, g) \/ InviteByEmail(t, g)

HandedOver(t) ==
    \E g \in LiveInvites(t), u \in Users :
        member'[t] \subseteq member[t] \cup {u} /\ LiveInvites(t)' = LiveInvites(t) \ {g}

Lost(t) == member'[t] \subseteq member[t] /\ LiveInvites(t)' \subseteq LiveInvites(t)

LEMMA SharingMovesSeats ==
  ASSUME Typed, ShareStep, NEW t \in Trips  PROVE Granted(t) \/ HandedOver(t) \/ Lost(t)
  <1> USE SharingConstantsOK DEF Typed, TypeOK, SharingTypeOK, Users, InviteState, LiveInvites
  <1>1. ASSUME NEW s \in Shared, NEW g \in Guests, ShareWithAccount(s, g) \/ InviteByEmail(s, g)
        PROVE Granted(t) \/ Lost(t)
    BY <1>1 DEF ShareWithAccount, InviteByEmail, Granted, Lost
  <1>2. ASSUME NEW s \in Shared, NEW g \in Guests, RevokeInvite(s, g) \/ InviteExpires(s, g)
        PROVE Lost(t)
    BY <1>2 DEF RevokeInvite, InviteExpires, Lost
  <1>3. ASSUME NEW s \in Shared, NEW u \in Users, RevokeShare(s, u)  PROVE Lost(t)
    BY <1>3 DEF RevokeShare, Lost
  <1>4. ASSUME NEW s \in Shared, NEW g \in Guests, NEW u \in Users, AcceptInvite(s, g, u)
        PROVE HandedOver(t) \/ Lost(t)
    <2>1. CASE s = t /\ invite[s][g] = "live"
      BY <1>4, <2>1 DEF AcceptInvite, HandedOver
    <2>2. CASE s # t \/ invite[s][g] # "live"
      BY <1>4, <2>2 DEF AcceptInvite, Lost
    <2>3. QED
      BY <2>1, <2>2
  <1>5. ASSUME NEW g \in Guests, SignUp(g)  PROVE HandedOver(t) \/ Lost(t)
    <2>1. CASE g \in LiveInvites(t) /\ Claim(g)
      BY <1>5, <2>1 DEF Claim, HandedOver
    <2>2. CASE g \notin LiveInvites(t) \/ UNCHANGED <<member, invite>>
      BY <1>5, <2>2 DEF SignUp, Claim, Lost
    <2>3. QED
      BY <1>5, <2>1, <2>2 DEF SignUp
  <1>6. QED
    BY <1>1, <1>2, <1>3, <1>4, <1>5 DEF ShareStep, Sharing

LEMMA OthersMoveNoSeats ==
  ASSUME Typed, [Next]_vars, ~ShareStep, NEW t \in Trips  PROVE Lost(t)
  <1> USE DEF Typed, TypeOK, SharingTypeOK, LiveInvites, Lost, sharingVars, lifeVars
  <1>1. CASE Requests
    BY <1>1 DEF Requests, Creations, CreateTrip, Load, UpdateTrip, UpdateTripStatus, DeleteTrip,
                Cascade, Refused
  <1>2. CASE Bookings
    BY <1>2 DEF Bookings, MoneyHeld, OrderPlaced, OrderConfirmed
  <1>3. CASE JobStep
    BY <1>3 DEF JobStep, JobStarts, JobCompletes, JobNotifies, GcSelects, GcDeletes, Cascade
  <1>4. CASE Midnight \/ Crash
    BY <1>4 DEF Midnight, Crash
  <1>5. CASE Admin
    BY <1>5 DEF Admin, AdminDeletesTrip, AdminUpdatesTrip, AdminDeletesShare, Cascade
  <1>6. CASE \E s \in Trips : NotificationsDeleted(s)
    BY <1>6 DEF NotificationsDeleted
  <1>7. CASE UNCHANGED vars
    BY <1>7 DEF vars
  <1>8. QED
    BY <1>1, <1>2, <1>3, <1>4, <1>5, <1>6, <1>7 DEF Next

LEMMA SeatMoves ==
  ASSUME Typed, [Next]_vars, NEW t \in Trips  PROVE Granted(t) \/ HandedOver(t) \/ Lost(t)
  BY SharingMovesSeats, OthersMoveNoSeats

\* The invites of a trip alone never exceed the limit: an invite counts them and the shares;
\* the shares may come to the limit beside them, since a share counts the shares only.
\* (The sets are finite because they grow one by one: Guests need not be.)
SeatsCounted(t) == IsFiniteSet(member[t]) /\ IsFiniteSet(LiveInvites(t))

SeatsInv ==
    \A t \in Trips :
        SeatsCounted(t) /\ Cardinality(LiveInvites(t)) <= Limit /\ Seats(t) <= 2 * Limit

LEMMA SeatsInit == Init => SeatsInv
  <1> SUFFICES ASSUME Init, NEW t \in Trips
               PROVE SeatsCounted(t) /\ Cardinality(LiveInvites(t)) <= Limit /\ Seats(t) <= 2 * Limit
    BY DEF SeatsInv
  <1>1. member[t] = {} /\ LiveInvites(t) = {}
    BY DEF Init, SharingInit, LiveInvites
  <1>2. QED
    BY <1>1, FS_EmptySet, SharingConstantsOK DEF SeatsCounted, Seats

\* A step that is not a grant gives no seat.
LEMMA NoSeatFromNothing ==
  ASSUME NEW t \in Trips, SeatsCounted(t), HandedOver(t) \/ Lost(t)
  PROVE /\ SeatsCounted(t)'
        /\ Cardinality(LiveInvites(t))' <= Cardinality(LiveInvites(t))
        /\ Seats(t)' <= Seats(t)
  <1> DEFINE M == member[t]  L == LiveInvites(t)
  <1>1. Cardinality(M) \in Nat /\ Cardinality(L) \in Nat
    BY FS_CardinalityType DEF SeatsCounted
  <1>2. CASE Lost(t)
    <2>1. IsFiniteSet(M') /\ IsFiniteSet(L') /\ Cardinality(M') <= Cardinality(M)
            /\ Cardinality(L') <= Cardinality(L)
      BY <1>2, FS_Subset DEF Lost, SeatsCounted
    <2>2. Cardinality(M') \in Nat /\ Cardinality(L') \in Nat
      BY <2>1, FS_CardinalityType
    <2>3. QED
      BY <1>1, <2>1, <2>2 DEF SeatsCounted, Seats, LiveInvites
  <1>3. CASE HandedOver(t)
    <2>1. PICK g \in L, u \in Users : M' \subseteq M \cup {u} /\ L' = L \ {g}
      BY <1>3 DEF HandedOver
    <2>2. IsFiniteSet(L') /\ Cardinality(L') = Cardinality(L) - 1
      BY <2>1, FS_RemoveElement DEF SeatsCounted
    <2>3. IsFiniteSet(M \cup {u}) /\ Cardinality(M \cup {u}) <= Cardinality(M) + 1
      <3>1. /\ IsFiniteSet(M \cup {u})
            /\ Cardinality(M \cup {u}) = IF u \in M THEN Cardinality(M) ELSE Cardinality(M) + 1
        BY FS_AddElement DEF SeatsCounted
      <3>2. QED
        BY <1>1, <3>1
    <2>4. IsFiniteSet(M') /\ Cardinality(M') <= Cardinality(M \cup {u})
      BY <2>1, <2>3, FS_Subset
    <2>5. Cardinality(M') \in Nat /\ Cardinality(L') \in Nat /\ Cardinality(M \cup {u}) \in Nat
      BY <2>2, <2>3, <2>4, FS_CardinalityType
    <2>6. QED
      BY <1>1, <2>2, <2>3, <2>4, <2>5 DEF SeatsCounted, Seats, LiveInvites
  <1>4. QED
    BY <1>2, <1>3

LEMMA SeatsStep == Typed /\ SeatsInv /\ [Next]_vars => SeatsInv'
  <1> SUFFICES ASSUME Typed, SeatsInv, [Next]_vars, NEW t \in Trips
               PROVE (SeatsCounted(t) /\ Cardinality(LiveInvites(t)) <= Limit
                       /\ Seats(t) <= 2 * Limit)'
    BY DEF SeatsInv
  <1> DEFINE M == member[t]  L == LiveInvites(t)
  <1>1. SeatsCounted(t) /\ Cardinality(L) <= Limit /\ Seats(t) <= 2 * Limit
    BY DEF SeatsInv
  <1>2. Cardinality(M) \in Nat /\ Cardinality(L) \in Nat
    BY <1>1, FS_CardinalityType DEF SeatsCounted
  <1>3. CASE HandedOver(t) \/ Lost(t)
    <2>1. SeatsCounted(t)' /\ Cardinality(L)' <= Cardinality(L) /\ Seats(t)' <= Seats(t)
      BY <1>1, <1>3, NoSeatFromNothing
    <2>2. Cardinality(M') \in Nat /\ Cardinality(L') \in Nat
      BY <2>1, FS_CardinalityType DEF SeatsCounted
    <2>3. QED
      BY <1>1, <1>2, <2>1, <2>2, SharingConstantsOK DEF Seats
  <1>4. ASSUME NEW g \in Guests, ShareWithAccount(t, g)
        PROVE (SeatsCounted(t) /\ Cardinality(L) <= Limit /\ Seats(t) <= 2 * Limit)'
    <2>1. M' = M \cup {g} /\ L' = L /\ g \notin M /\ Cardinality(M) < Limit
      BY <1>4 DEF ShareWithAccount, LiveInvites, Typed, TypeOK, SharingTypeOK
    <2>2. IsFiniteSet(M') /\ Cardinality(M') = Cardinality(M) + 1
      BY <1>1, <2>1, FS_AddElement DEF SeatsCounted
    <2>3. QED
      BY <1>1, <1>2, <2>1, <2>2, SharingConstantsOK DEF Seats, SeatsCounted
  <1>5. ASSUME NEW g \in Guests, InviteByEmail(t, g)
        PROVE (SeatsCounted(t) /\ Cardinality(L) <= Limit /\ Seats(t) <= 2 * Limit)'
    <2>1. M' = M /\ L' = L \cup {g} /\ g \notin L /\ Seats(t) < Limit
      BY <1>5 DEF InviteByEmail, LiveInvites, Typed, TypeOK, SharingTypeOK
    <2>2. IsFiniteSet(L') /\ Cardinality(L') = Cardinality(L) + 1
      BY <1>1, <2>1, FS_AddElement DEF SeatsCounted
    <2>3. QED
      BY <1>1, <1>2, <2>1, <2>2, SharingConstantsOK DEF Seats, SeatsCounted
  <1>6. QED
    BY <1>3, <1>4, <1>5, SeatMoves DEF Granted

LEMMA SeatsHold == Spec => [](Typed /\ SeatsInv)
  BY TypeInit, TypeStep, SeatsInit, SeatsStep, PTL DEF Spec

\* The two paths of create_share count differently and the acceptance of an invite counts
\* nothing, and yet no trip ever has more than twice the seats of the plan.
THEOREM TwiceAtMost == Spec => []AtMostTwice
  <1>1. SeatsInv => AtMostTwice
    BY DEF SeatsInv, AtMostTwice
  <1>2. QED
    BY <1>1, SeatsHold, PTL

\* A closed trip keeps its shares: revoke_share refuses, and a deletion makes it a trip
\* that is no longer there.
LEMMA ClosedKeepsShares ==
  ASSUME Typed, [Next]_vars, NEW t \in Trips,
         status[t] = "COMPLETED", status'[t] = "COMPLETED", ~Admin
  PROVE member[t] \subseteq member'[t]
  <1> USE DEF Typed, TypeOK, SharingTypeOK, sharingVars, lifeVars
  <1>1. CASE Requests
    BY <1>1 DEF Requests, Creations, CreateTrip, Load, UpdateTrip, UpdateTripStatus, DeleteTrip,
                Cascade, Gone, Refused
  <1>2. CASE Bookings
    BY <1>2 DEF Bookings, MoneyHeld, OrderPlaced, OrderConfirmed
  <1>3. CASE JobStep
    BY <1>3 DEF JobStep, JobStarts, JobCompletes, JobNotifies, GcSelects, GcDeletes, Cascade, Gone
  <1>4. CASE Midnight \/ Crash
    BY <1>4 DEF Midnight, Crash
  <1>5. CASE ShareStep
    BY <1>5, SharingConstantsOK
       DEF ShareStep, Sharing, ShareWithAccount, InviteByEmail, RevokeInvite, InviteExpires,
           RevokeShare, AcceptInvite, SignUp, Claim, Open
  <1>6. CASE \E s \in Trips : NotificationsDeleted(s)
    BY <1>6 DEF NotificationsDeleted
  <1>7. CASE UNCHANGED vars
    BY <1>7 DEF vars
  <1>8. QED
    BY <1>1, <1>2, <1>3, <1>4, <1>5, <1>6, <1>7 DEF Next

\* Whoever accepts, claims or lets an invite expire, and whatever the job and the staff
\* delete, a seat more on a trip is one the owner has just granted; and nobody but the staff
\* takes a guest out of a trip that stays closed.
THEOREM SeatsOnlyGranted == Spec => SeatsAreGranted
  <1> DEFINE A == \A t \in Trips :
        /\ Seats(t)' > Seats(t) => \E g \in Guests : ShareWithAccount(t, g) \/ InviteByEmail(t, g)
        /\ status[t] = "COMPLETED" /\ status'[t] = "COMPLETED" /\ ~Admin
               => member[t] \subseteq member'[t]
  <1>1. Typed /\ SeatsInv /\ [Next]_vars => A
    <2> SUFFICES ASSUME Typed, SeatsInv, [Next]_vars, NEW t \in Trips
                 PROVE /\ Seats(t)' > Seats(t) => Granted(t)
                       /\ status[t] = "COMPLETED" /\ status'[t] = "COMPLETED" /\ ~Admin
                              => member[t] \subseteq member'[t]
      BY DEF Granted
    <2>1. Granted(t) \/ (SeatsCounted(t)' /\ Seats(t)' <= Seats(t))
      BY SeatMoves, NoSeatFromNothing DEF SeatsInv
    <2>2. Seats(t) \in Nat
      BY FS_CardinalityType DEF SeatsInv, SeatsCounted, Seats
    <2>3. SeatsCounted(t)' => Seats(t)' \in Nat
      BY FS_CardinalityType DEF SeatsCounted, Seats
    <2>4. QED
      BY <2>1, <2>2, <2>3, ClosedKeepsShares
  <1>2. QED
    BY <1>1, SeatsHold, PTL DEF Spec, SeatsAreGranted

-----------------------------------------------------------------------------
(* What a user sees. *)

\* The list is a union of two queries, the groups are made by another and by their filter,
\* the page asks trip_access: for every user and trip, whatever its status, they say the same.
THEOREM ListsAgree == Spec => []ListsWhatOpens
  <1>1. TypeOK => ListsWhatOpens
    <2> SUFFICES ASSUME TypeOK, NEW t \in Trips, NEW u \in Users
                 PROVE /\ Rows(t, u) > 0 <=> Opens(t, u)
                       /\ Rows(t, u) > 1 => u = Owner
                       /\ \A group \in DOMAIN Shown : Listed(t, u, group) = Grouped(t, u, group)
      BY DEF ListsWhatOpens
    <2>1. status[t] \in Status
      BY DEF TypeOK
    <2>2. Rows(t, u) > 0 <=> Opens(t, u)
      BY DEF Rows, Opens, Role
    <2>3. Rows(t, u) > 1 => u = Owner
      BY DEF Rows
    <2>4. ASSUME NEW group \in DOMAIN Shown  PROVE Listed(t, u, group) = Grouped(t, u, group)
      <3>1. group \in {"planned", "ongoing", "completed"}
        BY <2>4 DEF Shown
      <3>2. CASE status[t] \in {"ABSENT", "DELETED"}
        BY <3>2 DEF Listed, Grouped, Rows
      <3>3. CASE status[t] \in {"DRAFT", "PLANNED"}
        BY <3>1, <3>3 DEF Listed, Grouped, Shown, Group
      <3>4. CASE status[t] = "ONGOING"
        BY <3>1, <3>4 DEF Listed, Grouped, Shown, Group
      <3>5. CASE status[t] = "COMPLETED"
        BY <3>1, <3>5 DEF Listed, Grouped, Shown, Group
      <3>6. QED
        BY <2>1, <3>2, <3>3, <3>4, <3>5 DEF Status
    <2>5. QED
      BY <2>2, <2>3, <2>4
  <1>2. QED
    BY <1>1, TypeCorrect, PTL

-----------------------------------------------------------------------------
(* Tickets. *)

\* The rows that go, go with no ticket; and every status written over another is that of a
\* trip which is there.
LEMMA TicketStep == Typed /\ TicketKeepsTrip /\ [Next]_vars => TicketKeepsTrip'
  <1> SUFFICES ASSUME Typed, TicketKeepsTrip, [Next]_vars, NEW t \in Trips,
                      booking'[t] = "ticketed"
               PROVE status'[t] \notin {"ABSENT", "DELETED"}
    BY DEF TicketKeepsTrip, Exists
  <1> USE DEF Typed, TypeOK, TicketKeepsTrip, Exists, Status
  <1>1. CASE Requests
    <2>1. CASE Creations
      BY <2>1 DEF Creations, CreateTrip
    <2>2. CASE UpdateTripStatus
      BY <2>2 DEF UpdateTripStatus, MayWrite, Following, SeenOK, Request
    <2>3. CASE DeleteTrip
      BY <2>3 DEF DeleteTrip, Gone
    <2>4. CASE UNCHANGED <<status, booking>>
      BY <2>4
    <2>5. QED
      BY <1>1, <2>1, <2>2, <2>3, <2>4 DEF Requests, Load, UpdateTrip, Refused
  <1>2. CASE Bookings
    BY <1>2 DEF Bookings, MoneyHeld, OrderPlaced, OrderConfirmed
  <1>3. CASE JobStep
    BY <1>3 DEF JobStep, JobStarts, JobCompletes, JobNotifies, GcSelects, GcDeletes, Gone
  <1>4. CASE Midnight \/ Crash
    BY <1>4 DEF Midnight, Crash
  <1>5. CASE Admin
    BY <1>5 DEF Admin, AdminDeletesTrip, AdminUpdatesTrip, AdminDeletesShare, Gone
  <1>6. CASE ShareStep
    BY <1>6 DEF ShareStep, Sharing, ShareWithAccount, InviteByEmail, RevokeInvite, InviteExpires,
                RevokeShare, AcceptInvite, SignUp, lifeVars
  <1>7. CASE \E s \in Trips : NotificationsDeleted(s)
    BY <1>7 DEF NotificationsDeleted, lifeVars
  <1>8. CASE UNCHANGED vars
    BY <1>8 DEF vars
  <1>9. QED
    BY <1>1, <1>2, <1>3, <1>4, <1>5, <1>6, <1>7, <1>8 DEF Next

\* A trip with a ticket is never deleted: not by its owner, nor the staff, nor the
\* collection of stale drafts, which looks at no booking and fails on the order's row.
THEOREM TicketsKeepTrips == Spec => []TicketKeepsTrip
  <1>1. Init => TicketKeepsTrip
    BY DEF Init, TicketKeepsTrip
  <1>2. QED
    BY <1>1, TypeInit, TypeStep, TicketStep, PTL DEF Spec

-----------------------------------------------------------------------------
(* Deletions. *)

\* While the job's transaction holds the rows it starts, nobody else changes them.
RowsWait == job.at = "locked" => \A t \in job.picked : status[t] = "PLANNED"

LEMMA RowsWaitStep == Typed /\ RowsWait /\ [Next]_vars => RowsWait'
  <1> SUFFICES ASSUME Typed, RowsWait, [Next]_vars  PROVE RowsWait'
    OBVIOUS
  <1> USE DEF Typed, TypeOK, RowsWait
  <1>1. CASE Requests
    BY <1>1 DEF Requests, Creations, CreateTrip, Load, UpdateTrip, UpdateTripStatus, DeleteTrip,
                Refused, MayWrite, Gone, Request
  <1>2. CASE Bookings
    BY <1>2 DEF Bookings, MoneyHeld, OrderPlaced, OrderConfirmed
  <1>3. CASE JobStep
    BY <1>3 DEF JobStep, JobStarts, Starting, JobCompletes, JobNotifies, GcSelects, GcDeletes
  <1>4. CASE Midnight \/ Crash
    BY <1>4 DEF Midnight, Crash, StartUp
  <1>5. CASE Admin
    BY <1>5 DEF Admin, AdminDeletesTrip, AdminUpdatesTrip, AdminDeletesShare, Gone
  <1>6. CASE ShareStep
    BY <1>6 DEF ShareStep, Sharing, ShareWithAccount, InviteByEmail, RevokeInvite, InviteExpires,
                RevokeShare, AcceptInvite, SignUp, lifeVars
  <1>7. CASE \E s \in Trips : NotificationsDeleted(s)
    BY <1>7 DEF NotificationsDeleted, lifeVars
  <1>8. CASE UNCHANGED vars
    BY <1>8 DEF vars
  <1>9. QED
    BY <1>1, <1>2, <1>3, <1>4, <1>5, <1>6, <1>7, <1>8 DEF Next

DeletedStaysDeleted ==
    [][\A t \in Trips : status[t] = "DELETED" => status'[t] = "DELETED"]_vars

\* The job writes ONGOING or COMPLETED over every row it holds: none of them can have been
\* deleted since it read it, so that no trip comes back.
THEOREM NoTripComesBack == Spec => DeletedStaysDeleted
  <1>1. Init => RowsWait
    BY DEF Init, StartUp, RowsWait
  <1>2. ASSUME Typed, RowsWait, [Next]_vars, NEW t \in Trips, status[t] = "DELETED"
        PROVE status'[t] = "DELETED"
    <2> USE DEF Typed, TypeOK, RowsWait
    <2>1. CASE Requests
      BY <1>2, <2>1 DEF Requests, Creations, CreateTrip, Load, UpdateTrip, UpdateTripStatus,
                        DeleteTrip, Refused, MayWrite, Gone, Exists, Request
    <2>2. CASE Bookings
      BY <1>2, <2>2 DEF Bookings, MoneyHeld, OrderPlaced, OrderConfirmed
    <2>3. CASE JobStep
      BY <1>2, <2>3 DEF JobStep, JobStarts, JobCompletes, JobNotifies, GcSelects, GcDeletes, Gone
    <2>4. CASE Midnight \/ Crash
      BY <1>2, <2>4 DEF Midnight, Crash
    <2>5. CASE Admin
      BY <1>2, <2>5 DEF Admin, AdminDeletesTrip, AdminUpdatesTrip, AdminDeletesShare, Gone, Exists
    <2>6. CASE ShareStep
      BY <1>2, <2>6 DEF ShareStep, Sharing, ShareWithAccount, InviteByEmail, RevokeInvite,
                        InviteExpires, RevokeShare, AcceptInvite, SignUp, lifeVars
    <2>7. CASE \E s \in Trips : NotificationsDeleted(s)
      BY <1>2, <2>7 DEF NotificationsDeleted, lifeVars
    <2>8. CASE UNCHANGED vars
      BY <1>2, <2>8 DEF vars
    <2>9. QED
      BY <1>2, <2>1, <2>2, <2>3, <2>4, <2>5, <2>6, <2>7, <2>8 DEF Next
  <1>3. Typed /\ RowsWait /\ [Next]_vars
          => \A t \in Trips : status[t] = "DELETED" => status'[t] = "DELETED"
    BY <1>2
  <1>4. QED
    BY <1>1, <1>3, TypeInit, TypeStep, RowsWaitStep, PTL DEF Spec, DeletedStaysDeleted

=============================================================================
