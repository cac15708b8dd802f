---------------------------- MODULE SessionsProofs ----------------------------
(***************************************************************************)
(* Proofs about Sessions, for any devices, requests, number of tokens and    *)
(* mishaps: type correctness; that a session ended stays ended               *)
(* (EndedStaysEnded); that the app's own requests are never taken for a      *)
(* reuse (ReuseNeedsCause).                                                  *)
(***************************************************************************)
EXTENDS Sessions, FiniteSetTheorems, TLAPS

-----------------------------------------------------------------------------
(* Type correctness. *)

\* A refresh that was sent has a token, and one that was answered another; a token descends
\* from a sign-in that got one.
Tokened == \A d \in Devices : refresh[d].at \in {"sent", "won"} => refresh[d].token \in Tokens

Chained == \A k \in Issued : chain[k] \in Issued

Typed == TypeOK /\ Tokened /\ Chained

LEMMA TypeInit == Init => Typed
  <1> SUFFICES ASSUME Init  PROVE Typed
    OBVIOUS
  <1> USE DEF Init
  <1>1. row \in [Tokens -> State] /\ chain \in [Tokens -> Tokens \cup {NoToken}]
    BY DEF State
  <1>2. store \in [Devices -> Store] /\ call \in [Devices -> [Slots -> {"idle", "late"}]]
    BY DEF Store, SignedOut
  <1>3. refresh \in [Devices -> Refresh] /\ leaving \in [Devices -> Leaving]
    BY DEF Refresh, Idle, Leaving, Here
  <1>4. mishaps \in 0..MaxMishaps
    BY SessionsConstantsOK
  <1>5. Tokened /\ \A d \in Devices : store[d].access = "none" <=> store[d].token = NoToken
    BY DEF Tokened, Idle, SignedOut
  <1>6. Chained
    BY DEF Chained, Issued
  <1>7. QED
    BY <1>1, <1>2, <1>3, <1>4, <1>5, <1>6 DEF Typed, TypeOK

\* Three parts of it, each disturbed by other steps.
ServerTyped ==
    /\ account \in {"none", "there", "deleted"}
    /\ row \in [Tokens -> State] /\ chain \in [Tokens -> Tokens \cup {NoToken}]
    /\ ended \subseteq Tokens /\ alarm \in BOOLEAN
    /\ Chained

StoreTyped ==
    /\ store \in [Devices -> Store]
    /\ \A d \in Devices : store[d].access = "none" <=> store[d].token = NoToken

AppTyped ==
    /\ call \in [Devices -> [Slots -> {"idle", "late"}]] /\ leaving \in [Devices -> Leaving]
    /\ calm \in BOOLEAN /\ mishaps \in 0..MaxMishaps

RefreshTyped == refresh \in [Devices -> Refresh] /\ Tokened

LEMMA TypedParts == Typed <=> ServerTyped /\ StoreTyped /\ AppTyped /\ RefreshTyped
  BY DEF Typed, TypeOK, ServerTyped, StoreTyped, AppTyped, RefreshTyped

\* A token is issued with the chain of another, or its own.
LEMMA NewTokenTypes ==
  ASSUME ServerTyped, NEW k, NEW revoked \in SUBSET Issued, NEW c, c = k \/ c \in Issued,
         NewToken(k, revoked, c), UNCHANGED <<ended, alarm>>, account' \in {account, "there"}
  PROVE ServerTyped'
  <1> USE DEF ServerTyped, NewToken
  <1>1. k \in Tokens /\ c \in Tokens /\ account' \in {"none", "there", "deleted"}
    BY DEF Issued
  <1>2. row' \in [Tokens -> State] /\ chain' \in [Tokens -> Tokens \cup {NoToken}]
    BY <1>1 DEF State
  <1>3. k \in Issued' /\ \A j \in Tokens \ {k} : j \in Issued' <=> j \in Issued
    BY <1>1, <1>2 DEF Issued, State
  <1>4. Chained'
    BY <1>1, <1>2, <1>3 DEF Chained, Issued
  <1>5. QED
    BY <1>1, <1>2, <1>4

LEMMA RevokeAllTypes ==
  ASSUME ServerTyped, RevokeAll, UNCHANGED <<account, chain>>, alarm' \in BOOLEAN
  PROVE ServerTyped'
  <1> USE DEF ServerTyped, RevokeAll
  <1>1. row' \in [Tokens -> State]
    BY DEF State
  <1>2. Issued' = Issued
    BY DEF Issued, Live, State
  <1>3. Chained'
    BY <1>2 DEF Chained
  <1>4. ended' \subseteq Tokens
    BY DEF Chained, Issued
  <1>5. QED
    BY <1>1, <1>3, <1>4

\* The other changes of the rows issue none.
LEMMA SameTokensTypes ==
  ASSUME ServerTyped, row' \in [Tokens -> State], \A k \in Tokens : row'[k] = "none" <=> row[k] = "none",
         UNCHANGED <<chain, ended, alarm>>, account' \in {"none", "there", "deleted"}
  PROVE ServerTyped'
  <1>1. Issued' = Issued
    BY DEF Issued
  <1>2. QED
    BY <1>1 DEF ServerTyped, Chained

LEMMA ServerStep ==
  ASSUME Typed, [Next]_vars  PROVE ServerTyped'
  <1> USE DEF State
  <1>0. ServerTyped
    BY TypedParts
  <1>1. CASE UNCHANGED server
    BY <1>0, <1>1 DEF ServerTyped, Chained, Issued, server
  <1>2. CASE Purge
    <2>1. row' \in [Tokens -> State] /\ \A k \in Tokens : row'[k] = "none" <=> row[k] = "none"
      BY <1>0, <1>2 DEF Purge, ServerTyped
    <2>2. QED
      BY <1>0, <1>2, <2>1, SameTokensTypes DEF Purge, ServerTyped
  <1>3. ASSUME NEW k \in Tokens, TokenExpires(k)  PROVE ServerTyped'
    <2>1. row' \in [Tokens -> State] /\ \A j \in Tokens : row'[j] = "none" <=> row[j] = "none"
      BY <1>0, <1>3 DEF TokenExpires, ServerTyped, Live
    <2>2. QED
      BY <1>0, <1>3, <2>1, SameTokensTypes DEF TokenExpires, ServerTyped
  <1>4. ASSUME NEW d \in Devices, SignIn(d)  PROVE ServerTyped'
    <2>1. NewSession(d)
      BY <1>4 DEF SignIn, Register, Login, GoogleSignIn, AppleSignIn
    <2>2. QED
      BY <1>0, <2>1, NewTokenTypes DEF NewSession
  <1>5. ASSUME NEW d \in Devices, LogoutAll(d) \/ ChangePassword(d)  PROVE ServerTyped'
    BY <1>0, <1>5, RevokeAllTypes DEF LogoutAll, ChangePassword, ServerTyped
  <1>6. ASSUME NEW d \in Devices, DeleteMe(d)  PROVE ServerTyped'
    <2>1. row' \in [Tokens -> State] /\ \A j \in Tokens : row'[j] = "none" <=> row[j] = "none"
      BY <1>0, <1>6 DEF DeleteMe, ServerTyped, Issued
    <2>2. QED
      BY <1>0, <1>6, <2>1, SameTokensTypes DEF DeleteMe
  <1>7. ASSUME NEW d \in Devices, Serve(d)  PROVE ServerTyped'
    <2> DEFINE k == refresh[d].token
    <2>1. k \in Tokens
      BY <1>7 DEF Serve, Typed, Tokened
    <2>2. CASE Rotate(d, k)
      <3>1. chain[k] \in Issued /\ {k} \in SUBSET Issued
        BY <1>0, <2>1, <2>2 DEF Rotate, ServerTyped, Chained, Issued
      <3>2. QED
        BY <1>0, <2>2, <3>1, NewTokenTypes DEF Rotate
    <2>3. CASE DetectReuse(d, k)
      BY <1>0, <2>3, RevokeAllTypes DEF DetectReuse
    <2>4. CASE Reject(d, k)
      BY <1>1, <2>4 DEF Reject
    <2>5. QED
      BY <1>7, <2>2, <2>3, <2>4 DEF Serve
  <1>8. ASSUME NEW d \in Devices, ServeLogout(d)  PROVE ServerTyped'
    <2>1. row' \in [Tokens -> State] /\ \A j \in Tokens : row'[j] = "none" <=> row[j] = "none"
      BY <1>0, <1>8 DEF ServeLogout, ServerTyped
    <2>2. QED
      BY <1>0, <1>8, <2>1, SameTokensTypes DEF ServeLogout, ServerTyped
  <1>9. UNCHANGED vars => UNCHANGED server
    BY DEF vars
  <1>10. QED
    BY <1>1, <1>2, <1>3, <1>4, <1>5, <1>6, <1>7, <1>8, <1>9, SessionsConstantsOK
       DEF Next, RefreshStep, LogoutStep, Refuse, Refreshed, SignOut, EndLogout, AnswerLost, Kill,
           AccessExpires, StartLogout, Request, Unauthorized

LEMMA StoreStep ==
  ASSUME Typed, [Next]_vars  PROVE StoreTyped'
  <1> USE DEF StoreTyped, Store
  <1>0. StoreTyped
    BY TypedParts
  <1>1. CASE UNCHANGED store
    BY <1>0, <1>1
  <1>2. ASSUME NEW d \in Devices, NewSession(d)  PROVE StoreTyped'
    <2>1. PICK k \in Tokens : store' = [store EXCEPT ![d] = [access |-> "fresh", token |-> k]]
      BY <1>2 DEF NewSession
    <2>2. QED
      BY <1>0, <2>1, SessionsConstantsOK DEF Tokens
  <1>3. ASSUME NEW d \in Devices, store' = [store EXCEPT ![d] = SignedOut]  PROVE StoreTyped'
    BY <1>0, <1>3 DEF SignedOut
  <1>4. ASSUME NEW d \in Devices, Refreshed(d)  PROVE StoreTyped'
    <2>1. refresh[d].token \in Tokens
      BY <1>4 DEF Refreshed, Typed, Tokened
    <2>2. store' = [store EXCEPT ![d] = [access |-> "fresh", token |-> refresh[d].token]]
      BY <1>4 DEF Refreshed
    <2>3. QED
      BY <1>0, <2>1, <2>2, SessionsConstantsOK DEF Tokens
  <1>5. ASSUME NEW d \in Devices, AccessExpires(d)  PROVE StoreTyped'
    BY <1>0, <1>5 DEF AccessExpires
  <1>6. UNCHANGED vars => UNCHANGED store
    BY DEF vars, app
  <1>7. QED
    BY <1>1, <1>2, <1>3, <1>4, <1>5, <1>6, SessionsConstantsOK
       DEF Next, RefreshStep, LogoutStep, SignIn, Register, Login, GoogleSignIn, AppleSignIn,
           Purge, TokenExpires, LogoutAll, ChangePassword, DeleteMe, Serve, Refuse, SignOut,
           ServeLogout, EndLogout, AnswerLost, Kill, StartLogout, Request, Unauthorized, app

LEMMA AppStep ==
  ASSUME Typed, [Next]_vars  PROVE AppTyped'
  <1> USE SessionsConstantsOK DEF AppTyped
  <1>0. AppTyped
    BY TypedParts
  <1>1. CASE UNCHANGED <<call, leaving, mishaps>> /\ calm' \in {calm, FALSE}
    BY <1>0, <1>1
  <1>2. ASSUME NEW d \in Devices, NEW by, NEW at \in {"sent", "served"}, Returns(d, by, at),
               UNCHANGED <<calm, mishaps>>
        PROVE AppTyped'
    <2>1. leaving' \in [Devices -> Leaving]
      BY <1>0, <1>2 DEF Returns, Leaving
    <2>2. call' \in [Devices -> [Slots -> {"idle", "late"}]]
      BY <1>0, <1>2 DEF Returns
    <2>3. QED
      BY <1>0, <1>2, <2>1, <2>2
  <1>3. ASSUME NEW d \in Devices, StartLogout(d)  PROVE AppTyped'
    <2>1. leaving' \in [Devices -> Leaving]
      <3>1. store[d].token \in Tokens \cup {NoToken}
        BY DEF Typed, TypeOK, Store
      <3>2. QED
        BY <1>0, <1>3, <3>1 DEF StartLogout, Leaving
    <2>2. QED
      BY <1>0, <1>3, <2>1 DEF StartLogout
  <1>4. ASSUME NEW d \in Devices, LogoutStep(d)  PROVE AppTyped'
    <2>1. leaving' \in [Devices -> Leaving]
      BY <1>0, <1>4 DEF LogoutStep, ServeLogout, EndLogout, Leaving, Here
    <2>2. QED
      BY <1>0, <1>4, <2>1 DEF LogoutStep, ServeLogout, EndLogout
  <1>5. ASSUME NEW d \in Devices, Kill(d)  PROVE AppTyped'
    <2>1. leaving' \in [Devices -> Leaving]
      BY <1>0, <1>5 DEF Kill, Leaving, Here
    <2>2. mishaps' \in 0..MaxMishaps
      BY <1>0, <1>5 DEF Kill
    <2>3. call' \in [Devices -> [Slots -> {"idle", "late"}]] /\ calm' \in BOOLEAN
      BY <1>0, <1>5 DEF Kill
    <2>4. QED
      BY <2>1, <2>2, <2>3
  <1>6. ASSUME NEW d \in Devices, AnswerLost(d)  PROVE AppTyped'
    <2>1. mishaps' \in 0..MaxMishaps
      BY <1>0, <1>6 DEF AnswerLost
    <2>2. QED
      BY <1>0, <1>6, <2>1, Zenon DEF AnswerLost
  <1>7. ASSUME NEW d \in Devices, NEW s \in Slots, Request(d, s)  PROVE AppTyped'
    BY <1>0, <1>7 DEF Request
  <1>8. ASSUME NEW d \in Devices, NEW by, Unauthorized(d, by)  PROVE AppTyped'
    BY <1>1, <1>2, <1>8 DEF Unauthorized
  <1>9. ASSUME NEW d \in Devices, RefreshStep(d)  PROVE AppTyped'
    BY <1>1, <1>2, <1>9 DEF RefreshStep, Serve, Refuse, Refreshed, SignOut
  <1>10. ASSUME NEW d \in Devices, SignIn(d)  PROVE AppTyped'
    BY <1>1, <1>10 DEF SignIn, Register, Login, GoogleSignIn, AppleSignIn, NewSession
  <1>11. UNCHANGED vars => UNCHANGED <<call, leaving, mishaps, calm>>
    BY DEF vars, app
  <1>12. QED
    BY <1>1, <1>3, <1>4, <1>5, <1>6, <1>7, <1>8, <1>9, <1>10, <1>11
       DEF Next, Purge, TokenExpires, LogoutAll, ChangePassword, DeleteMe, AccessExpires, app

LEMMA RefreshTypes ==
  ASSUME Typed, [Next]_vars  PROVE RefreshTyped'
  <1> USE SessionsConstantsOK DEF RefreshTyped, Refresh, Tokened
  <1>0. RefreshTyped
    BY TypedParts
  <1>1. CASE UNCHANGED refresh
    BY <1>0, <1>1
  <1>2. ASSUME NEW d \in Devices, Serve(d)  PROVE RefreshTyped'
    <2>1. CASE refresh' = [refresh EXCEPT ![d].at = "failed"]
      BY <1>0, <2>1
    <2>2. ASSUME NEW n \in Tokens, refresh' = [refresh EXCEPT ![d].at = "won", ![d].token = n]
          PROVE RefreshTyped'
      BY <1>0, <2>2
    <2>3. QED
      BY <1>2, <2>1, <2>2 DEF Serve, Rotate, DetectReuse, Reject
  <1>3. ASSUME NEW d \in Devices, Refuse(d) \/ AnswerLost(d)  PROVE RefreshTyped'
    BY <1>0, <1>3 DEF Refuse, AnswerLost
  <1>4. ASSUME NEW d \in Devices, refresh' = [refresh EXCEPT ![d] = Idle]  PROVE RefreshTyped'
    BY <1>0, <1>4 DEF Idle
  <1>5. ASSUME NEW d \in Devices, NEW by \in Slots \cup {Logout}, Unauthorized(d, by)
        PROVE RefreshTyped'
    <2>1. store[d].token \in Tokens \cup {NoToken}
      BY DEF Typed, TypeOK, Store
    <2>2. QED
      BY <1>0, <1>5, <2>1 DEF Unauthorized
  <1>6. UNCHANGED vars => UNCHANGED refresh
    BY DEF vars, app
  <1>7. QED
    BY <1>1, <1>2, <1>3, <1>4, <1>5, <1>6
       DEF Next, RefreshStep, LogoutStep, SignIn, Register, Login, GoogleSignIn, AppleSignIn,
           NewSession, Purge, TokenExpires, LogoutAll, ChangePassword, DeleteMe, Refreshed, SignOut,
           ServeLogout, EndLogout, Kill, AccessExpires, StartLogout, Request, app

LEMMA TypeStep == Typed /\ [Next]_vars => Typed'
  <1>1. Typed' <=> (ServerTyped /\ StoreTyped /\ AppTyped /\ RefreshTyped)'
    BY TypedParts, PTL
  <1>2. QED
    BY <1>1, ServerStep, StoreStep, AppStep, RefreshTypes

\* Whatever the API, the purge and the apps do in between, the rows, what a device stores
\* and the refresh it has under way stay in their domains; a device has both tokens or none.
THEOREM TypeCorrect == Spec => []TypeOK
  <1>1. Typed => TypeOK
    BY DEF Typed
  <1>2. QED
    BY <1>1, TypeInit, TypeStep, PTL DEF Spec

-----------------------------------------------------------------------------
(* What a step does to the table of tokens. *)

\* A token is issued, for a sign-in of its own or for the one of a token that is live; all
\* are revoked; or some cease to be live.
Issues ==
    \E k \in Tokens, revoked \in SUBSET Live, c \in Tokens :
        /\ NewToken(k, revoked, c) /\ ended' = ended
        /\ c = k \/ \E j \in Live : c = chain[j]

Ends == RevokeAll /\ chain' = chain

Fades == chain' = chain /\ ended' = ended /\ Issued' = Issued /\ Live' \subseteq Live

LEMMA TableMoves ==
  ASSUME Typed, [Next]_vars  PROVE Issues \/ Ends \/ Fades
  <1>0. /\ row \in [Tokens -> State] /\ chain \in [Tokens -> Tokens \cup {NoToken}]
        /\ \A k \in Tokens : row[k] # "none" => chain[k] \in Tokens
    BY DEF Typed, TypeOK, Chained, Issued
  <1>1. CASE UNCHANGED <<row, chain, ended>>
    BY <1>1 DEF Fades, Issued, Live
  <1>2. CASE Purge
    BY <1>0, <1>2 DEF Purge, Fades, Issued, Live, State
  <1>3. ASSUME NEW k \in Tokens, TokenExpires(k)  PROVE Fades
    BY <1>0, <1>3 DEF TokenExpires, Fades, Issued, Live, State
  <1>4. ASSUME NEW d \in Devices, SignIn(d)  PROVE Issues
    <2>1. NewSession(d)
      BY <1>4 DEF SignIn, Register, Login, GoogleSignIn, AppleSignIn
    <2>2. PICK k \in Tokens : NewToken(k, {}, k)
      BY <2>1 DEF NewSession
    <2>3. QED
      BY <2>1, <2>2 DEF NewSession, Issues
  <1>5. ASSUME NEW d \in Devices, LogoutAll(d) \/ ChangePassword(d)  PROVE Ends
    BY <1>5 DEF LogoutAll, ChangePassword, Ends
  <1>6. ASSUME NEW d \in Devices, DeleteMe(d)  PROVE Fades
    BY <1>0, <1>6 DEF DeleteMe, Fades, Issued, Live
  <1>7. ASSUME NEW d \in Devices, Serve(d)  PROVE Issues \/ Ends \/ Fades
    <2> DEFINE k == refresh[d].token
    <2>1. k \in Tokens
      BY <1>7 DEF Serve, Typed, Tokened
    <2>2. CASE Rotate(d, k)
      <3>1. PICK n \in Tokens : NewToken(n, {k}, chain[k])
        BY <2>2 DEF Rotate
      <3>2. row[k] = "live" /\ ended' = ended
        BY <2>2 DEF Rotate
      <3>3. k \in Live /\ {k} \in SUBSET Live /\ chain[k] \in Tokens
        BY <1>0, <2>1, <3>2 DEF Live
      <3>4. QED
        BY <3>1, <3>2, <3>3 DEF Issues
    <2>3. CASE DetectReuse(d, k)
      BY <2>3 DEF DetectReuse, Ends
    <2>4. CASE Reject(d, k)
      BY <1>1, <2>4 DEF Reject, server
    <2>5. QED
      BY <1>7, <2>2, <2>3, <2>4 DEF Serve
  <1>8. ASSUME NEW d \in Devices, ServeLogout(d)  PROVE Fades
    BY <1>0, <1>8 DEF ServeLogout, Fades, Issued, Live, State
  <1>9. UNCHANGED vars => UNCHANGED <<row, chain, ended>>
    BY DEF vars, server
  <1>10. QED
    BY <1>1, <1>2, <1>3, <1>4, <1>5, <1>6, <1>7, <1>8, <1>9, SessionsConstantsOK
       DEF Next, RefreshStep, LogoutStep, Refuse, Refreshed, SignOut, EndLogout, AnswerLost, Kill,
           AccessExpires, StartLogout, Request, Unauthorized, server

\* Tokens are numbered as they are issued, and so the next one is new.
Numbered == \E n \in Nat : Issued = 1..n

LEMMA NextIsNew ==
  ASSUME Numbered, Typed, NEW k, NEW revoked \in SUBSET Issued, NEW c, NewToken(k, revoked, c)
  PROVE /\ k \in Tokens \ Issued /\ Issued' = Issued \cup {k} /\ Numbered'
        /\ Live' = (Live \ revoked) \cup {k}
        /\ chain'[k] = c /\ \A j \in Issued : chain'[j] = chain[j]
  <1>1. PICK n \in Nat : Issued = 1..n
    BY DEF Numbered
  <1>2. Cardinality(Issued) = n
    BY <1>1, FS_Interval
  <1>3. k = n + 1 /\ k \in Tokens
    BY <1>2 DEF NewToken
  <1>4. \A j \in Tokens : row'[j] = IF j = k THEN "live" ELSE IF j \in revoked THEN "revoked" ELSE row[j]
    BY DEF NewToken
  <1>5. Issued' = Issued \cup {k} /\ Live' = (Live \ revoked) \cup {k}
    BY <1>3, <1>4 DEF Issued, Live
  <1>6. Issued' = 1..(n + 1)
    BY <1>1, <1>3, <1>5
  <1>7. k \notin Issued
    BY <1>1, <1>3
  <1>8. chain'[k] = c /\ \A j \in Issued : chain'[j] = chain[j]
    BY <1>3, <1>7 DEF NewToken, Typed, TypeOK, Issued
  <1>9. Numbered'
    BY <1>1, <1>6 DEF Numbered
  <1>10. QED
    BY <1>3, <1>5, <1>7, <1>8, <1>9

LEMMA NumberedStep == Numbered /\ Typed /\ [Next]_vars => Numbered'
  <1> SUFFICES ASSUME Numbered, Typed, [Next]_vars  PROVE Numbered'
    OBVIOUS
  <1>1. CASE Issues
    <2>1. Live \subseteq Issued
      BY DEF Live, Issued
    <2>2. QED
      BY <1>1, <2>1, NextIsNew DEF Issues
  <1>2. CASE Ends
    BY <1>2 DEF Ends, RevokeAll, Issued, Live, Numbered
  <1>3. CASE Fades
    BY <1>3 DEF Fades, Numbered
  <1>4. QED
    BY <1>1, <1>2, <1>3, TableMoves

-----------------------------------------------------------------------------
(* A session ended stays ended. *)

\* A sign-in that was ended has issued its token: the next one is not taken for it.
EndedInv == EndedStaysEnded /\ ended \subseteq Issued

LEMMA EndedStep == EndedInv /\ Numbered /\ Typed /\ [Next]_vars => EndedInv'
  <1> SUFFICES ASSUME EndedInv, Numbered, Typed, [Next]_vars  PROVE EndedInv'
    OBVIOUS
  <1>0. Live \subseteq Issued /\ Issued \subseteq Tokens /\ \A k \in Issued : chain[k] \in Issued
    BY DEF Live, Issued, Typed, Chained
  <1>1. CASE Issues
    <2>1. PICK k \in Tokens, revoked \in SUBSET Live, c \in Tokens :
             /\ NewToken(k, revoked, c) /\ ended' = ended
             /\ c = k \/ \E j \in Live : c = chain[j]
      BY <1>1 DEF Issues
    <2> revoked \in SUBSET Issued
      BY <1>0
    <2>2. /\ k \notin Issued /\ Issued' = Issued \cup {k} /\ Live' = (Live \ revoked) \cup {k}
          /\ chain'[k] = c /\ \A j \in Live : chain'[j] = chain[j]
      BY <1>0, <2>1, NextIsNew
    <2>3. c \notin ended
      BY <1>0, <2>1, <2>2 DEF EndedInv, EndedStaysEnded
    <2>4. QED
      BY <2>1, <2>2, <2>3 DEF EndedInv, EndedStaysEnded
  <1>2. CASE Ends
    <2>1. Live' = {} /\ Issued' = Issued
      BY <1>2 DEF Ends, RevokeAll, Live, Issued
    <2>2. ended' \subseteq Issued
      BY <1>0, <1>2 DEF Ends, RevokeAll, EndedInv
    <2>3. QED
      BY <2>1, <2>2 DEF EndedInv, EndedStaysEnded
  <1>3. CASE Fades
    BY <1>3 DEF Fades, EndedInv, EndedStaysEnded
  <1>4. QED
    BY <1>1, <1>2, <1>3, TableMoves

LEMMA EndedInit == Init => EndedInv /\ Numbered
  <1> SUFFICES ASSUME Init  PROVE EndedInv /\ Numbered
    OBVIOUS
  <1>1. Issued = {} /\ Live = {} /\ ended = {}
    BY DEF Init, Issued, Live
  <1>2. {} = 1..0 /\ 0 \in Nat
    OBVIOUS
  <1>3. QED
    BY <1>1, <1>2 DEF EndedInv, EndedStaysEnded, Numbered

\* No exchange of a token, under way or later, and no sign-in brings back a session that a
\* change of password, a general logout or a detected reuse has ended.
THEOREM EndedForGood == Spec => []EndedStaysEnded
  <1>1. EndedInv => EndedStaysEnded
    BY DEF EndedInv
  <1>2. QED
    BY <1>1, TypeInit, TypeStep, EndedInit, NumberedStep, EndedStep, PTL DEF Spec

-----------------------------------------------------------------------------
(* The app's own requests are never taken for a reuse. *)

\* The token a device will present next, or has just been given.
Current(d) == IF refresh[d].at = "won" THEN refresh[d].token ELSE store[d].token

Usable(k) == k # NoToken => row[k] \notin {"none", "revoked"}

\* As long as nothing went wrong: a refresh is under way with the token the device stores,
\* the current token of each device is usable, and no other device has the same.
Quiet(d) ==
    /\ leaving[d].at = "no" /\ refresh[d].by # Logout
    /\ refresh[d].at = "sent" => refresh[d].token = store[d].token
    /\ Usable(Current(d))
    /\ \A e \in Devices \ {d} : Current(d) # NoToken => Current(e) # Current(d)

QuietInv == calm => ~alarm /\ \A d \in Devices : Quiet(d)

LEMMA QuietInit == Init => QuietInv
  BY SessionsConstantsOK DEF Init, QuietInv, Quiet, Usable, Current, SignedOut, Idle, Here

\* A step that revokes nothing and leaves the devices their tokens.
LEMMA SameTokensQuiet ==
  ASSUME QuietInv, calm, alarm' = alarm,
         \A k \in Tokens : row[k] \notin {"none", "revoked"} => row'[k] \notin {"none", "revoked"},
         Typed,
         \A d \in Devices : /\ leaving'[d].at = leaving[d].at /\ refresh'[d].by # Logout
                            /\ refresh'[d].at = "sent" => refresh'[d].token = store'[d].token
                            /\ Current(d)' \in {Current(d), NoToken}
  PROVE QuietInv'
  <1> SUFFICES ASSUME NEW d \in Devices  PROVE Quiet(d)'
    BY DEF QuietInv
  <1>1. Quiet(d) /\ \A e \in Devices : Current(e)' \in {Current(e), NoToken}
    BY DEF QuietInv
  <1>2. Current(d) \in Tokens \cup {NoToken}
    BY DEF Typed, TypeOK, Tokened, Store, Current
  <1>3. Usable(Current(d))'
    BY <1>1, <1>2 DEF Quiet, Usable
  <1>4. \A e \in Devices \ {d} : Current(d)' # NoToken => Current(e)' # Current(d)'
    BY <1>1 DEF Quiet
  <1>5. QED
    BY <1>1, <1>3, <1>4 DEF Quiet

\* A device that gets a token nobody has.
LEMMA NewTokenQuiet ==
  ASSUME QuietInv, calm, alarm' = alarm, Typed,
         NEW d \in Devices, NEW k \in Tokens \ Issued, row'[k] = "live",
         \A j \in Tokens \ {k} : row'[j] # row[j] => \A e \in Devices \ {d} : Current(e) # j,
         \A e \in Devices : leaving'[e].at = leaving[e].at /\ refresh'[e].by = refresh[e].by,
         \A e \in Devices \ {d} : refresh'[e] = refresh[e] /\ store'[e] = store[e],
         refresh'[d].at = "sent" => refresh'[d].token = store'[d].token,
         k = IF refresh'[d].at = "won" THEN refresh'[d].token ELSE store'[d].token
  PROVE QuietInv'
  <1>0. \A e \in Devices : Current(e) \in Tokens \cup {NoToken}
    BY DEF Typed, TypeOK, Tokened, Store, Current
  <1>1. \A e \in Devices : Quiet(e) /\ Current(e) # k
    BY <1>0, SessionsConstantsOK DEF QuietInv, Quiet, Usable, Issued, Tokens
  <1>2. Current(d)' = k /\ \A e \in Devices \ {d} : Current(e)' = Current(e)
    BY DEF Current
  <1>3. \A e \in Devices : Usable(Current(e))'
    BY <1>0, <1>1, <1>2 DEF Usable, Quiet
  <1>4. \A e \in Devices : \A f \in Devices \ {e} : Current(e)' # NoToken => Current(f)' # Current(e)'
    BY <1>1, <1>2 DEF Quiet
  <1>5. \A e \in Devices : leaving'[e].at = "no" /\ refresh'[e].by # Logout
    BY <1>1 DEF Quiet
  <1>6. \A e \in Devices : refresh'[e].at = "sent" => refresh'[e].token = store'[e].token
    BY <1>1 DEF Quiet
  <1>7. QED
    BY <1>3, <1>4, <1>5, <1>6 DEF QuietInv, Quiet

LEMMA ServeQuiet ==
  ASSUME QuietInv, calm, Typed, Numbered, NEW d \in Devices, Serve(d)  PROVE QuietInv'
  <1> DEFINE k == refresh[d].token
  <1>0. /\ \A e \in Devices : Quiet(e)
        /\ refresh \in [Devices -> Refresh] /\ store \in [Devices -> Store]
        /\ k \in Tokens /\ k = store[d].token /\ k = Current(d) /\ k # NoToken
    BY SessionsConstantsOK DEF Serve, QuietInv, Quiet, Typed, TypeOK, Tokened, Current, Tokens
  <1>1. row[k] # "revoked"
    BY <1>0 DEF Quiet, Usable
  <1>2. CASE Rotate(d, k)
    <2>1. PICK n \in Tokens : /\ NewToken(n, {k}, chain[k])
                              /\ refresh' = [refresh EXCEPT ![d].at = "won", ![d].token = n]
      BY <1>2 DEF Rotate
    <2>2. {k} \in SUBSET Issued
      BY <1>0, <1>2 DEF Rotate, Issued
    <2>3. n \in Tokens \ Issued
      BY <2>1, <2>2, NextIsNew
    <2>4. row'[n] = "live"
      BY <2>1 DEF NewToken
    <2>5. \A j \in Tokens \ {n} : row'[j] # row[j] => \A e \in Devices \ {d} : Current(e) # j
      BY <1>0, <2>1 DEF Quiet, NewToken
    <2>6. /\ refresh'[d].at = "won" /\ refresh'[d].token = n
          /\ \A e \in Devices : refresh'[e].by = refresh[e].by
          /\ \A e \in Devices \ {d} : refresh'[e] = refresh[e]
      BY <1>0, <2>1 DEF Refresh
    <2>7. UNCHANGED <<alarm, store, leaving>>
      BY <1>2 DEF Rotate, Serve
    <2>9. QED
      <3>1. /\ alarm' = alarm
            /\ \A e \in Devices : leaving'[e].at = leaving[e].at
            /\ \A e \in Devices \ {d} : store'[e] = store[e]
        BY <1>0, <2>7
      <3>2. QED
        BY <2>3, <2>4, <2>5, <2>6, <3>1, NewTokenQuiet
  <1>3. CASE Reject(d, k)
    <2>1. refresh' = [refresh EXCEPT ![d].at = "failed"] /\ UNCHANGED <<server, store, leaving>>
      BY <1>3 DEF Reject, Serve
    <2>2. \A e \in Devices : /\ refresh'[e].by # Logout
                             /\ refresh'[e].at = "sent" => refresh'[e].token = store'[e].token
                             /\ Current(e)' \in {Current(e), NoToken}
      BY <1>0, <2>1 DEF Quiet, Refresh, Current, Serve
    <2>3. QED
      BY <2>1, <2>2, SameTokensQuiet DEF server
  <1>4. QED
    BY <1>1, <1>2, <1>3 DEF Serve, DetectReuse

LEMMA QuietStep == QuietInv /\ Numbered /\ Typed /\ [Next]_vars => QuietInv'
  <1> SUFFICES ASSUME QuietInv, Numbered, Typed, [Next]_vars, calm'  PROVE QuietInv'
    BY DEF QuietInv
  <1>0. /\ row \in [Tokens -> State] /\ store \in [Devices -> Store]
        /\ refresh \in [Devices -> Refresh] /\ leaving \in [Devices -> Leaving]
        /\ calm \in BOOLEAN
    BY DEF Typed, TypeOK
  <1>1. ASSUME UNCHANGED <<server, store, leaving, refresh, calm>>  PROVE QuietInv'
    BY <1>1, SameTokensQuiet DEF server, QuietInv, Quiet, Current
  <1>2. ASSUME UNCHANGED <<app, alarm, calm>>,
               \A k \in Tokens : row[k] \notin {"none", "revoked"} => row'[k] \notin {"none", "revoked"}
        PROVE QuietInv'
    BY <1>2, SameTokensQuiet DEF app, QuietInv, Quiet, Current
  <1>3. CASE Purge
    <2>1. \A k \in Tokens : row[k] \notin {"none", "revoked"} => row'[k] \notin {"none", "revoked"}
      BY <1>3 DEF Purge
    <2>2. QED
      BY <1>2, <1>3, <2>1 DEF Purge
  <1>4. ASSUME NEW k \in Tokens, TokenExpires(k)  PROVE QuietInv'
    <2>1. \A j \in Tokens : row[j] \notin {"none", "revoked"} => row'[j] \notin {"none", "revoked"}
      BY <1>0, <1>4 DEF TokenExpires
    <2>2. QED
      BY <1>2, <1>4, <2>1 DEF TokenExpires
  <1>5. ASSUME NEW d \in Devices, SignIn(d)  PROVE QuietInv'
    <2>1. NewSession(d)
      BY <1>5 DEF SignIn, Register, Login, GoogleSignIn, AppleSignIn
    <2>2. PICK k \in Tokens : /\ NewToken(k, {}, k)
                              /\ store' = [store EXCEPT ![d] = [access |-> "fresh", token |-> k]]
      BY <2>1 DEF NewSession
    <2>3. UNCHANGED <<alarm, refresh, leaving, calm>>
      BY <2>1 DEF NewSession
    <2>11. store[d].token = NoToken
      BY <2>1 DEF NewSession, SignedOut
    <2>4. k \in Tokens \ Issued
      BY <2>2, NextIsNew
    <2>5. \A j \in Tokens : row'[j] = IF j = k THEN "live" ELSE IF j \in {} THEN "revoked" ELSE row[j]
      BY <2>2 DEF NewToken
    <2>6. store'[d].token = k /\ \A e \in Devices \ {d} : store'[e] = store[e]
      BY <1>0, <2>2
    <2>7. Quiet(d) /\ refresh[d].at # "sent"
      BY <2>3, <2>11, SessionsConstantsOK DEF QuietInv, Quiet, Typed, Tokened, Tokens
    <2>8. CASE refresh[d].at = "won"
      <3>1. \A j \in Tokens : row[j] \notin {"none", "revoked"} => row'[j] \notin {"none", "revoked"}
        BY <2>5
      <3>2. \A e \in Devices : Current(e)' \in {Current(e), NoToken}
        BY <2>3, <2>6, <2>8 DEF Current
      <3>3. QED
        BY <2>3, <2>6, <2>7, <3>1, <3>2, SameTokensQuiet DEF QuietInv, Quiet
    <2>9. CASE refresh[d].at # "won"
      <3>1. k = IF refresh'[d].at = "won" THEN refresh'[d].token ELSE store'[d].token
        BY <2>3, <2>6, <2>9
      <3>2. QED
        <4>1. row'[k] = "live" /\ \A j \in Tokens \ {k} : row'[j] = row[j]
          BY <2>5
        <4>2. refresh'[d].at # "sent" /\ \A e \in Devices : refresh'[e] = refresh[e] /\ leaving'[e] = leaving[e]
          BY <2>3, <2>7
        <4>3. alarm' = alarm /\ calm
          BY <2>3
        <4>4. QED
          BY <2>4, <2>6, <3>1, <4>1, <4>2, <4>3, NewTokenQuiet
    <2>10. QED
      BY <2>8, <2>9
  <1>6. ASSUME NEW d \in Devices, Serve(d)  PROVE QuietInv'
    BY <1>6, ServeQuiet DEF Serve
  <1>7. ASSUME NEW d \in Devices, Refuse(d)  PROVE QuietInv'
    <2>1. refresh' = [refresh EXCEPT ![d].at = "failed"] /\ UNCHANGED <<server, store, leaving, calm>>
      BY <1>7 DEF Refuse
    <2>2. \A e \in Devices : /\ refresh'[e].by # Logout
                             /\ refresh'[e].at = "sent" => refresh'[e].token = store'[e].token
                             /\ Current(e)' \in {Current(e), NoToken}
      BY <1>0, <1>7, <2>1 DEF QuietInv, Quiet, Refresh, Current, Refuse
    <2>3. QED
      BY <2>1, <2>2, SameTokensQuiet DEF server
  <1>8. ASSUME NEW d \in Devices, Refreshed(d)  PROVE QuietInv'
    <2>1. /\ refresh' = [refresh EXCEPT ![d] = Idle] /\ refresh[d].at = "won"
          /\ store' = [store EXCEPT ![d] = [access |-> "fresh", token |-> refresh[d].token]]
          /\ UNCHANGED <<server, calm>> /\ Quiet(d) /\ Returns(d, refresh[d].by, "sent")
      BY <1>8 DEF Refreshed, QuietInv
    <2>2. leaving' = leaving
      BY <2>1 DEF Returns, Quiet
    <2>3. \A e \in Devices : /\ refresh'[e].by # Logout
                             /\ refresh'[e].at = "sent" => refresh'[e].token = store'[e].token
                             /\ Current(e)' \in {Current(e), NoToken}
      BY <1>0, <2>1, SessionsConstantsOK DEF QuietInv, Quiet, Current, Idle
    <2>4. QED
      BY <2>1, <2>2, <2>3, SameTokensQuiet DEF server
  <1>9. ASSUME NEW d \in Devices, SignOut(d)  PROVE QuietInv'
    <2>1. /\ refresh' = [refresh EXCEPT ![d] = Idle]
          /\ store' = [store EXCEPT ![d] = SignedOut]
          /\ UNCHANGED <<server, calm>> /\ Quiet(d) /\ Returns(d, refresh[d].by, "served")
      BY <1>9 DEF SignOut, QuietInv
    <2>2. leaving' = leaving
      BY <2>1 DEF Returns, Quiet
    <2>3. \A e \in Devices : /\ refresh'[e].by # Logout
                             /\ refresh'[e].at = "sent" => refresh'[e].token = store'[e].token
                             /\ Current(e)' \in {Current(e), NoToken}
      BY <1>0, <2>1, SessionsConstantsOK DEF QuietInv, Quiet, Current, Idle, SignedOut
    <2>4. QED
      BY <2>1, <2>2, <2>3, SameTokensQuiet DEF server
  <1>10. ASSUME NEW d \in Devices, AccessExpires(d)  PROVE QuietInv'
    <2>1. /\ store' = [store EXCEPT ![d].access = "stale"]
          /\ UNCHANGED <<server, refresh, leaving, calm>>
      BY <1>10 DEF AccessExpires
    <2>2. \A e \in Devices : store'[e].token = store[e].token
      BY <1>0, <2>1 DEF Store
    <2>3. QED
      BY <2>1, <2>2, SameTokensQuiet DEF server, QuietInv, Quiet, Current
  <1>11. ASSUME NEW d \in Devices, NEW by \in Slots \cup {Logout}, Unauthorized(d, by)  PROVE QuietInv'
    <2>1. Quiet(d) /\ by # Logout /\ UNCHANGED <<server, store, calm>>
      BY <1>11 DEF Unauthorized, Waits, QuietInv, Quiet
    <2>2. leaving' = leaving
      BY <1>11, <2>1 DEF Unauthorized, Returns
    <2>3. CASE refresh' = refresh
      BY <1>1, <2>1, <2>2, <2>3
    <2>4. CASE refresh[d].at = "no"
                 /\ refresh' = [refresh EXCEPT ![d] = [at |-> "sent", token |-> store[d].token, by |-> by]]
      <3>1. \A e \in Devices : /\ refresh'[e].by # Logout
                               /\ refresh'[e].at = "sent" => refresh'[e].token = store'[e].token
                               /\ Current(e)' \in {Current(e), NoToken}
        BY <1>0, <2>1, <2>4 DEF QuietInv, Quiet, Current
      <3>2. QED
        BY <2>1, <2>2, <3>1, SameTokensQuiet DEF server
    <2>5. QED
      BY <1>11, <2>3, <2>4 DEF Unauthorized
  <1>12. ASSUME NEW d \in Devices, LogoutStep(d)  PROVE QuietInv'
    BY <1>12 DEF LogoutStep, ServeLogout, EndLogout, QuietInv, Quiet
  <1>13. ASSUME NEW d \in Devices, NEW s \in Slots, Request(d, s)  PROVE QuietInv'
    BY <1>1, <1>13 DEF Request
  <1>14. UNCHANGED vars => UNCHANGED <<server, store, leaving, refresh, calm>>
    BY DEF vars, app
  <1>15. QED
    BY <1>1, <1>3, <1>4, <1>5, <1>6, <1>7, <1>8, <1>9, <1>10, <1>11, <1>12, <1>13, <1>14,
       SessionsConstantsOK
       DEF Next, RefreshStep, LogoutAll, ChangePassword, DeleteMe, AnswerLost, Kill, StartLogout

\* However many requests come back 401, and whenever access tokens expire, tokens are purged
\* and the rate limit refuses: without a logout, a revocation, a lost answer or a kill, the
\* API takes no refresh for a stolen token.
THEOREM NoFalseAlarm == Spec => []ReuseNeedsCause
  <1>1. QuietInv /\ Typed => ReuseNeedsCause
    BY DEF QuietInv, ReuseNeedsCause
  <1>2. QED
    BY <1>1, TypeInit, TypeStep, EndedInit, NumberedStep, QuietInit, QuietStep, PTL DEF Spec

=============================================================================
