----------------------------- MODULE TripSharing -----------------------------
(***************************************************************************)
(* Who may open a trip besides its owner: the trip_shares rows, the invites  *)
(* mailed to people without an account (pending_invites), and sign-up, which *)
(* claims the invites addressed to the new account's e-mail.                 *)
(*                                                                           *)
(* The handlers are synchronous and the API runs in one process: each is one *)
(* step.  The owner's plan does not change here.  `status` and `noted` belong *)
(* to TripLife, which extends this module; a guest's role (EDITOR, VIEWER) is *)
(* left out: no property here tells them apart.                              *)
(***************************************************************************)
EXTENDS Integers, FiniteSets

CONSTANTS
    Trips,   \* trips of one owner
    Shared,  \* bound: the trips the owner may share
    Guests,  \* people the owner may invite, each with one e-mail
    Owner,   \* the owner of the trips
    Limit    \* PLAN_LIMITS[plan]["viewers_per_trip"]

ASSUME SharingConstantsOK == Owner \notin Guests /\ Limit \in Nat /\ Shared \subseteq Trips

VARIABLES
    status,      \* Trip.status; "ABSENT" before the row exists, "DELETED" after
    noted,       \* trips that a row of the notifications table refers to
    registered,  \* guests with an account
    member,      \* trip_shares: the users each trip is shared with
    invite       \* pending_invites: each guest's invite to each trip

sharingVars == <<registered, member, invite>>

Users == Guests \cup {Owner}

Status == {"ABSENT", "DRAFT", "PLANNED", "ONGOING", "COMPLETED", "DELETED"}

InviteState == {"none", "live", "expired"}

SharingTypeOK ==
    /\ registered \in SUBSET Guests
    /\ member \in [Trips -> SUBSET Users]
    /\ invite \in [Trips -> [Guests -> InviteState]]

SharingInit ==
    /\ registered \in SUBSET Guests
    /\ member = [t \in Trips |-> {}]
    /\ invite = [t \in Trips |-> [g \in Guests |-> "none"]]

LiveInvites(t) == {g \in Guests : invite[t][g] = "live"}

Invited(t) == {g \in Guests : invite[t][g] # "none"}

\* _resolve_trip_access: "none" is answered 404, as for a trip that does not exist.
Role(t, u) == IF status[t] \in {"ABSENT", "DELETED"} THEN "none"
              ELSE IF u = Owner THEN "OWNER"
              ELSE IF u \in member[t] THEN "GUEST" ELSE "none"

\* Mutant of Rows: the shared half of the union is lost.
RowsOwned(t, u) == IF status[t] \in {"ABSENT", "DELETED"} \/ u # Owner THEN 0 ELSE 1

\* get_trips_by_user: the trips owned, UNION ALL the trips shared; how often t is there.
Rows(t, u) == IF status[t] \in {"ABSENT", "DELETED"} THEN 0
              ELSE (IF u = Owner THEN 1 ELSE 0) + (IF u \in member[t] THEN 1 ELSE 0)

\* The page of a trip.
Opens(t, u) == Role(t, u) # "none"

\* status_map of the list's filter.
Shown == [planned |-> {"DRAFT", "PLANNED"}, ongoing |-> {"ONGOING"}, completed |-> {"COMPLETED"}]

\* The list of one group, as its filter gives it.
Listed(t, u, group) == IF status[t] \in Shown[group] THEN Rows(t, u) ELSE 0

\* get_grouped_trips: the group a trip is put in; what is neither goes with the planned.
Group(t) == CASE status[t] = "ONGOING" -> "ongoing"
              [] status[t] = "COMPLETED" -> "completed"
              [] OTHER -> "planned"

\* The same list, of the home page that shows the groups.
Grouped(t, u, group) == IF Group(t) = group THEN Rows(t, u) ELSE 0

\* Shares and unexpired invites, what _check_quota counts.
Seats(t) == Cardinality(member[t]) + Cardinality(LiveInvites(t))

\* _check_trip_not_completed: every other status may be shared, DRAFT included.
Open(t) == status[t] \in {"DRAFT", "PLANNED", "ONGOING"}

\* send_localized stores a row naming the trip unless the recipient turned the
\* category off.
Notify(t) == noted' \in {noted, noted \cup {t}}

\* create_share, the e-mail has an account: only the shares are counted.
ShareWithAccount(t, g) ==
    /\ Open(t) /\ g \in registered \ member[t]
    /\ Cardinality(member[t]) < Limit
    /\ member' = [member EXCEPT ![t] = @ \cup {g}]
    /\ Notify(t)
    /\ UNCHANGED <<status, registered, invite>>

\* Mutant of InviteByEmail: no quota.
InviteUncounted(t, g) ==
    /\ Open(t) /\ g \notin registered /\ invite[t][g] = "none"
    /\ invite' = [invite EXCEPT ![t][g] = "live"]
    /\ UNCHANGED <<status, noted, registered, member>>

\* create_share, no account: an invite, unless the e-mail has one, expired or not.
InviteByEmail(t, g) ==
    /\ Open(t) /\ g \notin registered
    /\ invite[t][g] = "none" /\ Seats(t) < Limit
    /\ invite' = [invite EXCEPT ![t][g] = "live"]
    /\ UNCHANGED <<status, noted, registered, member>>

RevokeShare(t, u) ==
    /\ Open(t) /\ u \in member[t]
    /\ member' = [member EXCEPT ![t] = @ \ {u}]
    /\ Notify(t)
    /\ UNCHANGED <<status, registered, invite>>

RevokeInvite(t, g) ==
    /\ Open(t) /\ invite[t][g] # "none"
    /\ invite' = [invite EXCEPT ![t][g] = "none"]
    /\ UNCHANGED <<status, noted, registered, member>>

\* Mutant of AcceptInvite: the invite is not deleted.
AcceptKeepingInvite(t, g, u) ==
    /\ u \in registered \cup {Owner} /\ invite[t][g] = "live"
    /\ member' = [member EXCEPT ![t] = @ \cup {u}]
    /\ UNCHANGED <<status, noted, registered, invite>>

\* accept_invite: whoever is signed in and has the link, the owner included.
AcceptInvite(t, g, u) ==
    /\ u \in registered \cup {Owner} /\ invite[t][g] # "none"
    /\ invite' = [invite EXCEPT ![t][g] = "none"]
    /\ member' = IF invite[t][g] = "expired" THEN member
                 ELSE [member EXCEPT ![t] = @ \cup {u}]
    /\ UNCHANGED <<status, noted, registered>>

\* claim_pending_invites: every live invite of the e-mail becomes a share.
Claim(g) ==
    /\ member' = [t \in Trips |-> IF g \in LiveInvites(t) THEN member[t] \cup {g} ELSE member[t]]
    /\ invite' = [t \in Trips |-> IF g \in LiveInvites(t) THEN [invite[t] EXCEPT ![g] = "none"]
                                  ELSE invite[t]]

\* create_and_setup_user: a failure of the claim is swallowed, the account exists all
\* the same.
SignUp(g) ==
    /\ g \notin registered /\ registered' = registered \cup {g}
    /\ Claim(g) \/ UNCHANGED <<member, invite>>
    /\ UNCHANGED <<status, noted>>

\* Seven days have gone by.
InviteExpires(t, g) ==
    /\ invite[t][g] = "live"
    /\ invite' = [invite EXCEPT ![t][g] = "expired"]
    /\ UNCHANGED <<status, noted, registered, member>>

Sharing ==
    \/ \E t \in Shared, g \in Guests :
          \/ ShareWithAccount(t, g) \/ InviteByEmail(t, g)
          \/ RevokeInvite(t, g) \/ InviteExpires(t, g)
    \/ \E t \in Shared, u \in Users : RevokeShare(t, u)
    \/ \E t \in Shared, g \in Guests, u \in Users : AcceptInvite(t, g, u)
    \/ \E g \in Guests : SignUp(g)

=============================================================================
