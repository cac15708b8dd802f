------------------------------- MODULE Sessions -------------------------------
(***************************************************************************)
(* The sessions of one user: the refresh_tokens table, rotated at each use   *)
(* with detection of reuse, and the mobile app on each of his devices, whose *)
(* interceptor refreshes when a request comes back 401.                      *)
(*                                                                           *)
(* The API's handlers do not await between their reads and their commit, and *)
(* run in one process: each is one step.  What is concurrent is the app: its *)
(* requests, its one refresh (_isRefreshing) and its logout.  An access      *)
(* token is a signed date: the server keeps nothing of it.                   *)
(***************************************************************************)
EXTENDS Integers, FiniteSets

CONSTANTS
    Devices,
    Active,      \* bound: the devices whose app works after its sign-in
    Slots,       \* bound: requests of one app under way at the same time
    MaxTokens,   \* bound: refresh tokens ever issued
    MaxMishaps,  \* bound: lost answers and killed apps
    NoToken, Logout, Nobody

ASSUME SessionsConstantsOK ==
    /\ Active \subseteq Devices /\ MaxTokens \in Nat \ {0} /\ MaxMishaps \in Nat
    /\ Logout # Nobody /\ {Logout, Nobody} \cap Slots = {} /\ NoToken \notin 1..MaxTokens

VARIABLES
    account,  \* the user's row; a new registration after it is gone is another user's
    row,      \* refresh_tokens, by order of issue; "none" before, "gone" when purged
    chain,    \* the token of the sign-in that a token descends from
    store,    \* secure storage of each device: access and refresh token
    call,     \* "late": a request sent with an access token that has expired
    refresh,  \* the app's refresh: its token, the request it is for, where it is
    leaving,  \* the app's logout: the refresh token it read first, where it is
    ended,    \* sign-ins ended by a revocation of all the user's tokens
    calm,     \* no logout, revocation, lost answer or kill so far
    alarm,    \* a reuse was detected
    mishaps

server == <<account, row, chain, ended, alarm>>
app == <<store, call, refresh, leaving>>
vars == <<server, app, calm, mishaps>>

Tokens == 1..MaxTokens

\* expires_at is 30 days away; the job purges 7 days after it.
State == {"none", "live", "revoked", "expired", "gone"}

Store == [access : {"none", "fresh", "stale"}, token : Tokens \cup {NoToken}]

Refresh == [at : {"no", "sent", "won", "failed"}, token : Tokens \cup {NoToken},
            by : Slots \cup {Logout, Nobody}]

Leaving == [at : {"no", "sent", "late", "served"}, token : Tokens \cup {NoToken}]

TypeOK ==
    /\ account \in {"none", "there", "deleted"}
    /\ row \in [Tokens -> State] /\ chain \in [Tokens -> Tokens \cup {NoToken}]
    /\ store \in [Devices -> Store] /\ call \in [Devices -> [Slots -> {"idle", "late"}]]
    /\ refresh \in [Devices -> Refresh] /\ leaving \in [Devices -> Leaving]
    /\ ended \subseteq Tokens /\ calm \in BOOLEAN /\ alarm \in BOOLEAN
    /\ mishaps \in 0..MaxMishaps
    /\ \A d \in Devices : store[d].access = "none" <=> store[d].token = NoToken

SignedOut == [access |-> "none", token |-> NoToken]

Idle == [at |-> "no", token |-> NoToken, by |-> Nobody]

Here == [at |-> "no", token |-> NoToken]

Init ==
    /\ account = "none"
    /\ row = [k \in Tokens |-> "none"] /\ chain = [k \in Tokens |-> NoToken]
    /\ store = [d \in Devices |-> SignedOut]
    /\ call = [d \in Devices |-> [s \in Slots |-> "idle"]]
    /\ refresh = [d \in Devices |-> Idle] /\ leaving = [d \in Devices |-> Here]
    /\ ended = {} /\ calm = TRUE /\ alarm = FALSE /\ mishaps = 0

Issued == {k \in Tokens : row[k] # "none"}

Live == {k \in Tokens : row[k] = "live"}

-----------------------------------------------------------------------------
(* api/auth/routes.py *)

\* create_refresh_token: the token issued next, for sign-in c or as one of its own.
NewToken(k, revoked, c) ==
    /\ k = Cardinality(Issued) + 1 /\ k \in Tokens
    /\ row' = [j \in Tokens |-> IF j = k THEN "live" ELSE IF j \in revoked THEN "revoked" ELSE row[j]]
    /\ chain' = [chain EXCEPT ![k] = c]

RevokeAll ==
    /\ row' = [k \in Tokens |-> IF k \in Live THEN "revoked" ELSE row[k]]
    /\ ended' = ended \cup {chain[k] : k \in Issued}

\* Mutant of Rotate: a revoked token is exchanged.
RotateRevoked(d, k) ==
    /\ row[k] \in {"live", "revoked"}
    /\ \E n \in Tokens :
          /\ NewToken(n, {k}, chain[k])
          /\ refresh' = [refresh EXCEPT ![d].at = "won", ![d].token = n]
    /\ UNCHANGED <<account, ended, alarm>>

\* refresh: a live token is exchanged for a new one.
Rotate(d, k) ==
    /\ row[k] = "live"
    /\ \E n \in Tokens :
          /\ NewToken(n, {k}, chain[k])
          /\ refresh' = [refresh EXCEPT ![d].at = "won", ![d].token = n]
    /\ UNCHANGED <<account, ended, alarm>>

\* refresh: one already revoked ends every session of the user.
DetectReuse(d, k) ==
    /\ row[k] = "revoked" /\ RevokeAll /\ alarm' = TRUE
    /\ refresh' = [refresh EXCEPT ![d].at = "failed"]
    /\ UNCHANGED <<account, chain>>

\* refresh: unknown or expired.
Reject(d, k) ==
    /\ row[k] \in {"expired", "gone"}
    /\ refresh' = [refresh EXCEPT ![d].at = "failed"]
    /\ UNCHANGED server

Serve(d) ==
    /\ refresh[d].at = "sent"
    /\ LET k == refresh[d].token IN Rotate(d, k) \/ DetectReuse(d, k) \/ Reject(d, k)
    /\ UNCHANGED <<store, call, leaving, calm, mishaps>>

\* The rate limit (5 per minute and IP, of all its users) or the network.
Refuse(d) ==
    /\ refresh[d].at = "sent" /\ refresh' = [refresh EXCEPT ![d].at = "failed"]
    /\ UNCHANGED <<server, store, call, leaving, calm, mishaps>>

\* The answer is lost, or the plan lookup after the commit raises.
AnswerLost(d) ==
    /\ refresh[d].at = "won" /\ mishaps < MaxMishaps
    /\ mishaps' = mishaps + 1 /\ calm' = FALSE
    /\ refresh' = [refresh EXCEPT ![d].at = "failed"]
    /\ UNCHANGED <<server, store, call, leaving>>

\* _build_auth_response: a session of its own, whose tokens the app stores.
NewSession(d) ==
    /\ store[d] = SignedOut /\ account' = "there"
    /\ \E k \in Tokens :
          /\ NewToken(k, {}, k)
          /\ store' = [store EXCEPT ![d] = [access |-> "fresh", token |-> k]]
    /\ UNCHANGED <<ended, alarm, call, refresh, leaving, calm, mishaps>>

Register(d) == account = "none" /\ NewSession(d)

\* With the right password: the social accounts get theirs from reset_password.
Login(d) == account = "there" /\ NewSession(d)

\* The account that has the verified address, or a new one.
GoogleSignIn(d) == account \in {"none", "there"} /\ NewSession(d)

AppleSignIn(d) == account \in {"none", "there"} /\ NewSession(d)

SignIn(d) == Register(d) \/ Login(d) \/ GoogleSignIn(d) \/ AppleSignIn(d)

\* get_current_user: a valid access token of a user who is still there.
Authenticated(d) == store[d].access = "fresh" /\ account = "there"

LogoutAll(d) ==
    /\ Authenticated(d) /\ RevokeAll /\ calm' = FALSE
    /\ UNCHANGED <<account, chain, alarm, app, mishaps>>

\* The app that asked keeps its tokens, revoked with the others.
ChangePassword(d) ==
    /\ Authenticated(d) /\ RevokeAll /\ calm' = FALSE
    /\ UNCHANGED <<account, chain, alarm, app, mishaps>>

\* delete_me: the rows go, and the app clears its storage.
DeleteMe(d) ==
    /\ Authenticated(d) /\ account' = "deleted" /\ calm' = FALSE
    /\ row' = [k \in Tokens |-> IF k \in Issued THEN "gone" ELSE "none"]
    /\ store' = [store EXCEPT ![d] = SignedOut]
    /\ UNCHANGED <<chain, ended, alarm, call, refresh, leaving, mishaps>>

\* purge_stale_refresh_tokens
Purge ==
    /\ \E k \in Tokens : row[k] \in {"revoked", "expired"}
    /\ \E old \in SUBSET {k \in Tokens : row[k] = "expired"} :
          row' = [k \in Tokens |-> IF row[k] = "revoked" \/ k \in old THEN "gone" ELSE row[k]]
    /\ UNCHANGED <<account, chain, ended, alarm, app, calm, mishaps>>

TokenExpires(k) ==
    /\ k \in Live /\ row' = [row EXCEPT ![k] = "expired"]
    /\ UNCHANGED <<account, chain, ended, alarm, app, calm, mishaps>>

-----------------------------------------------------------------------------
(* api_client.dart *)

\* JWT_ACCESS_TOKEN_EXPIRE_MINUTES
AccessExpires(d) ==
    /\ store[d].access = "fresh" /\ store' = [store EXCEPT ![d].access = "stale"]
    /\ UNCHANGED <<server, call, refresh, leaving, calm, mishaps>>

\* Requests with a valid access token change nothing here.
Request(d, s) ==
    /\ store[d].token # NoToken /\ ~Authenticated(d) /\ call[d][s] = "idle"
    /\ call' = [call EXCEPT ![d][s] = "late"]
    /\ UNCHANGED <<server, store, refresh, leaving, calm, mishaps>>

\* The caller's request ends, with an answer or an error; a logout goes on.
Returns(d, by, at) ==
    /\ call' = IF by \in Slots THEN [call EXCEPT ![d][by] = "idle"] ELSE call
    /\ leaving' = IF by = Logout THEN [leaving EXCEPT ![d].at = at] ELSE leaving

Waits(d, by) == IF by = Logout THEN leaving[d].at = "late" ELSE call[d][by] = "late"

\* Mutant of Unauthorized: the interceptor has no _isRefreshing.
UnauthorizedTwice(d, by) ==
    /\ by \in Slots \cup {Logout} /\ Waits(d, by) /\ store[d].token # NoToken
    /\ refresh' = [refresh EXCEPT ![d] = [at |-> "sent", token |-> store[d].token, by |-> by]]
    /\ UNCHANGED <<server, store, call, leaving, calm, mishaps>>

\* onError: 401.  The first one refreshes; one that comes meanwhile is an error.
Unauthorized(d, by) ==
    /\ by \in Slots \cup {Logout} /\ Waits(d, by) /\ refresh[d].by # by
    /\ IF refresh[d].at # "no"
         THEN Returns(d, by, "served") /\ UNCHANGED <<store, refresh>>
         ELSE IF store[d].token = NoToken
         THEN Returns(d, by, "served") /\ UNCHANGED <<store, refresh>>
         ELSE /\ refresh' = [refresh EXCEPT ![d] = [at |-> "sent", token |-> store[d].token, by |-> by]]
              /\ UNCHANGED <<store, call, leaving>>
    /\ UNCHANGED <<server, calm, mishaps>>

\* _tryRefreshToken: saveTokens, and the request is sent again, a logout with the token
\* it had read.
Refreshed(d) ==
    /\ refresh[d].at = "won" /\ refresh' = [refresh EXCEPT ![d] = Idle]
    /\ store' = [store EXCEPT ![d] = [access |-> "fresh", token |-> refresh[d].token]]
    /\ Returns(d, refresh[d].by, "sent")
    /\ UNCHANGED <<server, calm, mishaps>>

\* Mutants of SignOut: the tokens are kept; only the refresh token goes.
SignOutKeeping(d) ==
    /\ refresh[d].at = "failed" /\ refresh' = [refresh EXCEPT ![d] = Idle]
    /\ Returns(d, refresh[d].by, "served")
    /\ UNCHANGED <<server, store, calm, mishaps>>

SignOutHalf(d) ==
    /\ refresh[d].at = "failed" /\ refresh' = [refresh EXCEPT ![d] = Idle]
    /\ store' = [store EXCEPT ![d].token = NoToken]
    /\ Returns(d, refresh[d].by, "served")
    /\ UNCHANGED <<server, calm, mishaps>>

\* Any failure of the refresh: deleteToken, and the app shows its login page.  (The app
\* awaits the deletion of one key after the other with _isRefreshing already false; here
\* nothing comes in between.)
SignOut(d) ==
    /\ refresh[d].at = "failed" /\ refresh' = [refresh EXCEPT ![d] = Idle]
    /\ store' = [store EXCEPT ![d] = SignedOut]
    /\ Returns(d, refresh[d].by, "served")
    /\ UNCHANGED <<server, calm, mishaps>>

-----------------------------------------------------------------------------
(* auth_service.dart, logout *)

StartLogout(d) ==
    /\ leaving[d].at = "no" /\ store[d].token # NoToken /\ calm' = FALSE
    /\ leaving' = [leaving EXCEPT ![d] =
           [at |-> IF Authenticated(d) THEN "sent" ELSE "late", token |-> store[d].token]]
    /\ UNCHANGED <<server, store, call, refresh, mishaps>>

\* The API revokes the token of the request, if it is not revoked yet; or the call fails.
ServeLogout(d) ==
    /\ leaving[d].at = "sent" /\ leaving' = [leaving EXCEPT ![d].at = "served"]
    /\ LET k == leaving[d].token IN
       row' \in {row, [row EXCEPT ![k] = IF @ \in {"live", "expired"} THEN "revoked" ELSE @]}
    /\ UNCHANGED <<account, chain, ended, alarm, store, call, refresh, calm, mishaps>>

\* clearAll, whatever came of it.
EndLogout(d) ==
    /\ leaving[d].at = "served" /\ leaving' = [leaving EXCEPT ![d] = Here]
    /\ store' = [store EXCEPT ![d] = SignedOut]
    /\ UNCHANGED <<server, call, refresh, calm, mishaps>>

\* The app is killed; what is in secure storage remains.
Kill(d) ==
    /\ mishaps < MaxMishaps /\ mishaps' = mishaps + 1 /\ calm' = FALSE
    /\ call' = [call EXCEPT ![d] = [s \in Slots |-> "idle"]]
    /\ refresh' = [refresh EXCEPT ![d] = Idle] /\ leaving' = [leaving EXCEPT ![d] = Here]
    /\ UNCHANGED <<server, store>>

-----------------------------------------------------------------------------
RefreshStep(d) == Serve(d) \/ Refuse(d) \/ Refreshed(d) \/ SignOut(d)

LogoutStep(d) == ServeLogout(d) \/ EndLogout(d)

Next ==
    \/ Purge \/ \E k \in Tokens : TokenExpires(k)
    \/ \E d \in Devices : SignIn(d) \/ LogoutAll(d) \/ ChangePassword(d) \/ DeleteMe(d)
    \/ \E d \in Active :
          \/ RefreshStep(d) \/ LogoutStep(d) \/ AnswerLost(d) \/ Kill(d)
          \/ AccessExpires(d) \/ StartLogout(d)
          \/ \E s \in Slots : Request(d, s)
          \/ \E by \in Slots \cup {Logout} : Unauthorized(d, by)

Spec == Init /\ [][Next]_vars

\* What the app and the API have begun comes to its end, and an answer to each request.
FairSpec ==
    /\ Spec
    /\ \A d \in Active :
          /\ WF_vars(RefreshStep(d)) /\ WF_vars(LogoutStep(d))
          /\ \A by \in Slots \cup {Logout} : WF_vars(Unauthorized(d, by))

-----------------------------------------------------------------------------
\* change_password, logout_all and the detection of a reuse end every session there was:
\* no exchange under way, and none later, brings one of them back.
EndedStaysEnded == \A k \in Live : chain[k] \notin ended

\* The app's requests, however many come back 401 at once, never present a token twice:
\* a reuse is detected only after a logout, a revocation, a lost answer or a kill.
ReuseNeedsCause == alarm => ~calm

\* An app that finds its session dead shows the login page, or has a session by then
\* (once it is killed no more).
DeadSessionEnds ==
    \A d \in Active :
        (/\ refresh[d].at = "no" /\ store[d].token \in Tokens \ Live
         /\ (\E s \in Slots : call[d][s] = "late") /\ mishaps = MaxMishaps)
            ~> store[d].token \in Live \cup {NoToken}

=============================================================================
