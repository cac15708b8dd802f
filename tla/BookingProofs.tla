---------------------------- MODULE BookingProofs ----------------------------
(***************************************************************************)
(* Proofs about the booking flow, for any sets of intents and workers, any  *)
(* amount and any bounds: type correctness, the claims in flight and what   *)
(* they back (ClaimsAreBacked, StatusIsBacked, TicketBeforeCharge),         *)
(* AppliedOnce, that BookingPayment implements PaymentPromise, and what one *)
(* worker adds to it: RefundReconciles and OneBookOrders.                   *)
(***************************************************************************)
EXTENDS BookingRefinement, FiniteSetTheorems, TLAPS

\* The type invariant: every handler, job step and outside event leaves each row,
\* request and Stripe object in the domain TypeOK gives it.
LEMMA TypeStep == TypeOK /\ [Next]_vars => TypeOK'
  <1> SUFFICES ASSUME TypeOK, [Next]_vars PROVE TypeOK'
    OBVIOUS
  <1> USE ConstantsOK DEF TypeOK, Request, Coroutine, Call, EventType, Event, Key,
          Status, PiState, rowVars, moneyVars
  <1>1. ASSUME NEW w \in Workers, NEW i \in Intents, AuthorizeStart(w, i) PROVE TypeOK'
    BY <1>1 DEF AuthorizeStart, Begin
  <1>2. ASSUME NEW w \in Workers, NEW i \in Intents, CaptureStart(w, i) PROVE TypeOK'
    BY <1>2 DEF CaptureStart, Begin
  <1>3. ASSUME NEW w \in Workers, NEW i \in Intents, CancelStart(w, i) PROVE TypeOK'
    BY <1>3 DEF CancelStart, Begin
  <1>4. ASSUME NEW w \in Workers, NEW i \in Intents, ConfirmTestStart(w, i) PROVE TypeOK'
    BY <1>4 DEF ConfirmTestStart, Begin
  <1>5. ASSUME NEW w \in Workers, NEW i \in Intents, BookStart(w, i) PROVE TypeOK'
    BY <1>5 DEF BookStart, Begin
  <1>6. ASSUME NEW w \in Workers, NEW i \in Intents, NEW amount \in 0..Amount,
               RefundStart(w, i, amount) PROVE TypeOK'
    BY <1>6 DEF RefundStart, Begin
  <1>7. ASSUME NEW w \in Workers, NEW e \in sent, WebhookStart(w, e) PROVE TypeOK'
    BY <1>7 DEF WebhookStart, Begin
  <1>8. ASSUME NEW r \in running, CallFails(r) PROVE TypeOK'
    BY <1>8 DEF CallFails, End
  <1>9. ASSUME NEW r \in running, AuthorizeCall(r) PROVE TypeOK'
    BY <1>9 DEF AuthorizeCall, At, Answered, Advance, End
  <1>10. ASSUME NEW r \in running, AuthorizeCommit(r) PROVE TypeOK'
    BY <1>10 DEF AuthorizeCommit, At, End
  <1>11. ASSUME NEW r \in running, CaptureCall(r) PROVE TypeOK'
    <2>1. running' \subseteq Request
      BY <1>11 DEF CaptureCall, StripeCaptures, Emit, At, Answered, Advance, End
    <2>2. CaptureKey(r.intent) \in Key
      BY DEF CaptureKey
    <2>3. keys' \subseteq Key
      BY <1>11, <2>2 DEF CaptureCall
    <2>4. sent' \subseteq Event /\ pi' \in [Intents -> PiState]
      BY <1>11 DEF CaptureCall, StripeCaptures, Emit
    <2>5. QED
      BY <1>11, <2>1, <2>3, <2>4 DEF CaptureCall
  <1>12. ASSUME NEW r \in running, CaptureCommit(r) PROVE TypeOK'
    BY <1>12 DEF CaptureCommit, SetStatus, At, End
  <1>13. ASSUME NEW r \in running, CancelCall(r) PROVE TypeOK'
    BY <1>13 DEF CancelCall, StripeCancels, Emit, At, Advance
  <1>14. ASSUME NEW r \in running, CancelCommit(r) PROVE TypeOK'
    BY <1>14 DEF CancelCommit, SetWhen, At, End
  <1>15. ASSUME NEW r \in running, RefundCall(r) PROVE TypeOK'
    <2>1. RefundKey(r) \in Key
      BY DEF RefundKey, Asked
    <2>2. running' \subseteq Request
      BY <1>15 DEF RefundCall, At, Answered, Advance, End
    <2>3. refunded' \in [Intents -> 0..Amount] /\ sent' \subseteq Event
      BY <1>15 DEF RefundCall, StripeRefunds, Emit
    <2>4. keys' \subseteq Key
      BY <1>15, <2>1 DEF RefundCall
    <2>5. QED
      BY <1>15, <2>2, <2>3, <2>4 DEF RefundCall
  <1>16. ASSUME NEW r \in running, RefundCommit(r) PROVE TypeOK'
    BY <1>16 DEF RefundCommit, SetStatus, At, End
  <1>17. ASSUME NEW r \in running, ConfirmTestCall(r) PROVE TypeOK'
    BY <1>17 DEF ConfirmTestCall, StripeAuthorizes, Emit, At, Answered, Advance, End
  <1>18. ASSUME NEW r \in running, ConfirmTestCommit(r) PROVE TypeOK'
    BY <1>18 DEF ConfirmTestCommit, SetWhen, At, End
  <1>19. ASSUME NEW r \in running, BookPend(r) PROVE TypeOK'
    BY <1>19 DEF BookPend, SetStatus, At, End, Advance
  <1>20. ASSUME NEW r \in running, BookRecord(r) PROVE TypeOK'
    BY <1>20 DEF BookRecord, At, Advance
  <1>21. ASSUME NEW r \in running, BookDone(r) PROVE TypeOK'
    BY <1>21 DEF BookDone, SetStatus, At, End, Advance
  <1>22. ASSUME NEW r \in running, BookFail(r) PROVE TypeOK'
    BY <1>22 DEF BookFail, SetStatus, At, End
  <1>23. ASSUME NEW r \in running, WebhookInsert(r) PROVE TypeOK'
    <2>1. Loaded(r) \in Status
      BY DEF Loaded
    <2>2. QED
      BY <1>23, <2>1 DEF WebhookInsert
  <1>24. ASSUME NEW r \in running, WebhookDuplicate(r) PROVE TypeOK'
    BY <1>24 DEF WebhookDuplicate, End
  <1>25. ASSUME NEW r \in running, WebhookApply(r) PROVE TypeOK'
    BY <1>25 DEF WebhookApply, EventOf, SetWhen, End, HandleAmountCapturableUpdated,
       HandleSucceeded, HandleCanceled, HandlePaymentFailed, HandleRefunded
  <1>26. ASSUME NEW c \in suspended, AmadeusAnswers(c) PROVE TypeOK'
    BY <1>26 DEF AmadeusAnswers, Resolve
  <1>27. ASSUME NEW c \in suspended, BookResume(c) PROVE TypeOK'
    BY <1>27 DEF BookResume, Begin
  <1>28. CASE ZombieSelect
    BY <1>28 DEF ZombieSelect
  <1>29. ASSUME NEW i \in Intents, ZombieCancel(i) PROVE TypeOK'
    BY <1>29 DEF ZombieCancel, StripeCancels, Emit
  <1>30. CASE ZombieCommit
    BY <1>30 DEF ZombieCommit, NoJob
  <1>31. ASSUME NEW i \in Intents, CreateIntent(i) PROVE TypeOK'
    BY <1>31 DEF CreateIntent, SetStatus
  <1>32. ASSUME NEW i \in Intents, CardApproved(i) PROVE TypeOK'
    BY <1>32 DEF CardApproved, StripeAuthorizes, Emit
  <1>33. ASSUME NEW i \in Intents, CardDeclined(i) PROVE TypeOK'
    BY <1>33 DEF CardDeclined, Emit
  <1>34. ASSUME NEW i \in Intents, StripeExpires(i) PROVE TypeOK'
    BY <1>34 DEF StripeExpires, StripeCancels, Emit
  <1>35. ASSUME NEW i \in Intents, Operator(i) PROVE TypeOK'
    BY <1>35 DEF Operator, StripeCaptures, StripeCancels, StripeRefunds, Emit
  <1>36. ASSUME NEW i \in Intents, GrowsOld(i) PROVE TypeOK'
    BY <1>36 DEF GrowsOld
  <1>37. ASSUME NEW r \in running, Abort(r) PROVE TypeOK'
    BY <1>37 DEF Abort, End
  <1>38. ASSUME NEW w \in Workers, Crash(w) PROVE TypeOK'
    BY <1>38 DEF Crash, NoJob
  <1>39. CASE UNCHANGED vars
    BY <1>39 DEF vars
  <1> HIDE DEF TypeOK, Request, Coroutine, Call, EventType, Event, Key,
          Status, PiState, rowVars, moneyVars
  <1> QED
    BY <1>1, <1>2, <1>3, <1>4, <1>5, <1>6, <1>7, <1>8, <1>9, <1>10, <1>11, <1>12,
       <1>13, <1>14, <1>15, <1>16, <1>17, <1>18, <1>19, <1>20, <1>21, <1>22, <1>23,
       <1>24, <1>25, <1>26, <1>27, <1>28, <1>29, <1>30, <1>31, <1>32, <1>33, <1>34,
       <1>35, <1>36, <1>37, <1>38, <1>39
    DEF Next, Arrival, RequestStep, PaymentStep, BookStep, WebhookStep, JobStep,
        Surroundings

\* TypeOK holds in every reachable state of the booking flow.
THEOREM Typing == Spec => []TypeOK
  <1>1. Init => TypeOK
    BY ConstantsOK DEF Init, TypeOK, NoJob, Status, PiState
  <1>2. QED
    BY <1>1, TypeStep, PTL DEF Spec

-----------------------------------------------------------------------------
(* Which steps move what. *)

\* Stripe's side and the flight orders move only in these steps.
LEMMA MoneyMoves ==
  ASSUME [Next]_vars
  PROVE  \/ UNCHANGED <<pi, refunded, keys, sent, ticketed>>
         \/ \E r \in running :
              \/ AuthorizeCall(r) \/ CaptureCall(r) \/ CancelCall(r)
              \/ RefundCall(r) \/ ConfirmTestCall(r) \/ BookRecord(r)
         \/ \E i \in Intents :
              \/ ZombieCancel(i) \/ CardApproved(i) \/ CardDeclined(i)
              \/ StripeExpires(i) \/ Operator(i)
  <1> USE DEF moneyVars, rowVars
  <1>1. CASE \E w \in Workers : Arrival(w)
    BY <1>1 DEF Arrival, AuthorizeStart, CaptureStart, CancelStart, ConfirmTestStart,
       BookStart, RefundStart, WebhookStart
  <1>2. CASE \E r \in running : PaymentStep(r)
    BY <1>2 DEF PaymentStep, CallFails, AuthorizeCommit, CaptureCommit, CancelCommit,
       RefundCommit, ConfirmTestCommit
  <1>3. CASE \E r \in running : BookStep(r) \/ WebhookStep(r)
    BY <1>3 DEF BookStep, BookPend, BookDone, BookFail, WebhookStep, WebhookInsert,
       WebhookDuplicate, WebhookApply
  <1>4. CASE \E c \in suspended : AmadeusAnswers(c) \/ BookResume(c)
    BY <1>4 DEF AmadeusAnswers, BookResume
  <1>5. CASE JobStep
    BY <1>5 DEF JobStep, ZombieSelect, ZombieCommit
  <1>6. CASE Surroundings
    BY <1>6 DEF Surroundings, CreateIntent, GrowsOld, Abort, Crash
  <1>7. CASE UNCHANGED vars
    BY <1>7 DEF vars
  <1>8. QED
    BY <1>1, <1>2, <1>3, <1>4, <1>5, <1>6, <1>7 DEF Next, RequestStep

\* A capture at Stripe is for good, and refunds, events and flight orders only add up.
LEMMA Monotone ==
  ASSUME TypeOK, [Next]_vars
  PROVE  /\ \A i \in Intents : /\ pi[i] = "succeeded" => pi'[i] = "succeeded"
                               /\ refunded[i] <= refunded'[i]
         /\ ticketed \subseteq ticketed' /\ sent \subseteq sent'
  <1> USE DEF TypeOK
  <1>1. CASE UNCHANGED <<pi, refunded, keys, sent, ticketed>>
    BY <1>1
  <1>2. ASSUME NEW r \in running,
               \/ AuthorizeCall(r) \/ CaptureCall(r) \/ CancelCall(r)
               \/ ConfirmTestCall(r) \/ BookRecord(r)
        PROVE  /\ refunded' = refunded
               /\ ticketed \subseteq ticketed' /\ sent \subseteq sent'
               /\ \A i \in Intents : pi[i] = "succeeded" => pi'[i] = "succeeded"
    BY <1>2 DEF AuthorizeCall, CaptureCall, CancelCall, ConfirmTestCall, BookRecord,
       StripeCaptures, StripeCancels, StripeAuthorizes, Emit, moneyVars, rowVars
  <1>3. ASSUME NEW r \in running, RefundCall(r)
        PROVE  /\ pi' = pi /\ ticketed' = ticketed /\ sent \subseteq sent'
               /\ \A i \in Intents : refunded[i] <= refunded'[i]
    BY <1>3, ConstantsOK DEF RefundCall, StripeRefunds, Emit, rowVars, Request
  <1>4. ASSUME NEW j \in Intents,
               \/ ZombieCancel(j) \/ CardApproved(j) \/ CardDeclined(j)
               \/ StripeExpires(j) \/ Operator(j)
        PROVE  /\ ticketed' = ticketed /\ sent \subseteq sent'
               /\ \A i \in Intents : /\ pi[i] = "succeeded" => pi'[i] = "succeeded"
                                     /\ refunded[i] <= refunded'[i]
    BY <1>4, ConstantsOK DEF ZombieCancel, CardApproved, CardDeclined, StripeExpires,
       Operator, StripeCaptures, StripeCancels, StripeAuthorizes, StripeRefunds, Emit,
       rowVars
  <1>5. QED
    BY <1>1, <1>2, <1>3, <1>4, MoneyMoves

\* The status and the stored charge move only in these steps.
LEMMA StatusMoves ==
  ASSUME [Next]_vars
  PROVE  \/ UNCHANGED <<status, hasCharge>>
         \/ \E r \in running :
              \/ CaptureCommit(r) \/ CancelCommit(r) \/ RefundCommit(r)
              \/ ConfirmTestCommit(r) \/ BookPend(r) \/ BookDone(r) \/ BookFail(r)
              \/ WebhookApply(r)
         \/ \E i \in Intents : CreateIntent(i)
         \/ ZombieCommit
  <1> USE DEF rowVars
  <1>1. CASE \E w \in Workers : Arrival(w)
    BY <1>1 DEF Arrival, AuthorizeStart, CaptureStart, CancelStart, ConfirmTestStart,
       BookStart, RefundStart, WebhookStart
  <1>2. CASE \E r \in running : PaymentStep(r)
    BY <1>2 DEF PaymentStep, CallFails, AuthorizeCall, AuthorizeCommit, CaptureCall,
       CancelCall, RefundCall, ConfirmTestCall
  <1>3. CASE \E r \in running : BookStep(r) \/ WebhookStep(r)
    BY <1>3 DEF BookStep, BookRecord, WebhookStep, WebhookInsert, WebhookDuplicate
  <1>4. CASE \E c \in suspended : AmadeusAnswers(c) \/ BookResume(c)
    BY <1>4 DEF AmadeusAnswers, BookResume
  <1>5. CASE JobStep
    BY <1>5 DEF JobStep, ZombieSelect, ZombieCancel
  <1>6. CASE Surroundings
    BY <1>6 DEF Surroundings, CardApproved, CardDeclined, StripeExpires, Operator,
       GrowsOld, Abort, Crash
  <1>7. CASE UNCHANGED vars
    BY <1>7 DEF vars
  <1>8. QED
    BY <1>1, <1>2, <1>3, <1>4, <1>5, <1>6, <1>7 DEF Next, RequestStep

-----------------------------------------------------------------------------
(* The inductive invariant: TypeOK, the three claims, and what they back. *)

IInv == TypeOK /\ ClaimsAreBacked /\ StatusIsBacked /\ TicketBeforeCharge

\* A key is stored with the effect it stands for, and effects stay.
LEMMA KeysStep ==
  ASSUME IInv, [Next]_vars
  PROVE  \A k \in keys' : KeyBacked(k)'
  <1> USE DEF IInv, ClaimsAreBacked, KeyBacked
  <1>1. \A k \in keys : KeyBacked(k)'
    BY Monotone, TypeStep, ConstantsOK DEF TypeOK, Key
  <1>2. CASE keys' = keys
    BY <1>1, <1>2
  <1>3. ASSUME NEW r \in running, CaptureCall(r)
        PROVE  \A k \in keys' : KeyBacked(k)'
    BY <1>1, <1>3 DEF CaptureCall, CaptureKey, StripeCaptures, TypeOK, Request
  <1>4. ASSUME NEW r \in running, RefundCall(r)
        PROVE  \A k \in keys' : KeyBacked(k)'
    <2>1. CASE RefundKey(r) \in keys
      BY <1>1, <1>4, <2>1 DEF RefundCall
    <2>2. CASE RefundKey(r) \notin keys
      <3>1. /\ StripeRefunds(r.intent, IF r.amount = 0 THEN Amount - refunded[r.intent]
                                                        ELSE r.amount)
            /\ keys' = keys \cup {RefundKey(r)}
        BY <1>4, <2>2 DEF RefundCall
      <3>2. r.already <= refunded[r.intent]
        BY <1>4 DEF RefundCall, At, RequestBacked
      <3>3. r.already + Asked(r) <= refunded'[r.intent]
        BY <3>1, <3>2, ConstantsOK DEF StripeRefunds, Asked, TypeOK, Request
      <3>4. QED
        BY <1>1, <3>1, <3>3 DEF RefundKey
    <2>3. QED
      BY <2>1, <2>2
  <1>5. QED
    BY <1>2, <1>3, <1>4, MoneyMoves
    DEF AuthorizeCall, CancelCall, ConfirmTestCall, BookRecord, ZombieCancel,
        CardApproved, CardDeclined, StripeExpires, Operator, moneyVars

\* An event is emitted with the effect it reports, and effects stay.
LEMMA EventsStep ==
  ASSUME IInv, [Next]_vars
  PROVE  \A e \in sent' : EventBacked(e)'
  <1> USE DEF IInv, ClaimsAreBacked, EventBacked
  <1>1. \A e \in sent : EventBacked(e)'
    BY Monotone, TypeStep, ConstantsOK DEF TypeOK, Event
  <1>2. CASE UNCHANGED <<pi, refunded, keys, sent, ticketed>>
    BY <1>1, <1>2
  <1>3. ASSUME NEW r \in running,
               \/ AuthorizeCall(r) \/ CaptureCall(r) \/ CancelCall(r)
               \/ ConfirmTestCall(r) \/ BookRecord(r)
        PROVE  \A e \in sent' : EventBacked(e)'
    BY <1>1, <1>3 DEF AuthorizeCall, CaptureCall, CancelCall, ConfirmTestCall,
       BookRecord, StripeCaptures, StripeCancels, StripeAuthorizes, Emit, moneyVars,
       TypeOK, Request
  <1>4. ASSUME NEW r \in running, RefundCall(r)
        PROVE  \A e \in sent' : EventBacked(e)'
    BY <1>1, <1>4, ConstantsOK DEF RefundCall, StripeRefunds, Emit, TypeOK, Request
  <1>5. ASSUME NEW i \in Intents,
               \/ ZombieCancel(i) \/ CardApproved(i) \/ CardDeclined(i)
               \/ StripeExpires(i) \/ Operator(i)
        PROVE  \A e \in sent' : EventBacked(e)'
    BY <1>1, <1>5, ConstantsOK DEF ZombieCancel, CardApproved, CardDeclined,
       StripeExpires, Operator, StripeCaptures, StripeCancels, StripeAuthorizes,
       StripeRefunds, Emit, TypeOK
  <1>6. QED
    BY <1>2, <1>3, <1>4, <1>5, MoneyMoves

\* A request claims no more than was true when it learned it, and that stays true.
LEMMA RequestsStep ==
  ASSUME IInv, [Next]_vars
  PROVE  \A q \in running' : RequestBacked(q)'
  <1> USE ConstantsOK DEF IInv, TypeOK, Request
  <1>1. \A q \in running : RequestBacked(q)'
    <2>1. TypeOK'
      BY TypeStep
    <2> SUFFICES ASSUME NEW q \in running PROVE RequestBacked(q)'
      OBVIOUS
    <2>3. RequestBacked(q)
      BY DEF ClaimsAreBacked
    <2>4. Asked(q)' = Asked(q) /\ EventOf(q)' = EventOf(q) /\ Asked(q) \in Nat
      BY DEF Asked, EventOf
    <2>5. QED
      BY <2>1, <2>3, <2>4, Monotone DEF RequestBacked
  <1>2. ASSUME NEW w \in Workers, Arrival(w) PROVE \A q \in running' : RequestBacked(q)'
    <2>1. ASSUME NEW i \in Intents,
                 \/ AuthorizeStart(w, i) \/ CancelStart(w, i)
                 \/ ConfirmTestStart(w, i) \/ BookStart(w, i)
          PROVE  \A q \in running' : RequestBacked(q)'
      BY <1>1, <2>1 DEF AuthorizeStart, CancelStart, ConfirmTestStart, BookStart, Begin,
         RequestBacked, EventType
    <2>2. ASSUME NEW i \in Intents, CaptureStart(w, i)
          PROVE  \A q \in running' : RequestBacked(q)'
      <3>1. Production => i \in ticketed
        BY <2>2 DEF CaptureStart, Capturable, StatusIsBacked
      <3>2. QED
        BY <1>1, <2>2, <3>1 DEF CaptureStart, Begin, RequestBacked, EventType, rowVars
    <2>3. ASSUME NEW i \in Intents, NEW amount \in 0..Amount, RefundStart(w, i, amount)
          PROVE  \A q \in running' : RequestBacked(q)'
      BY <1>1, <2>3 DEF RefundStart, Begin, RequestBacked, EventType, moneyVars
    <2>4. ASSUME NEW e \in sent, WebhookStart(w, e)
          PROVE  \A q \in running' : RequestBacked(q)'
      <3>1. e = [type |-> e.type, intent |-> e.intent, n |-> e.n] /\ e.type \in EventType
        BY DEF Event
      <3>2. sent' = sent
        BY <2>4 DEF WebhookStart, moneyVars
      <3>3. ASSUME NEW q \in running', q \notin running PROVE RequestBacked(q)'
        <4>1. q.op = e.type /\ q.step = "insert" /\ q.intent = e.intent /\ q.amount = e.n
          BY <2>4, <3>3 DEF WebhookStart, Begin
        <4>2. QED
          BY <3>1, <3>2, <4>1 DEF RequestBacked, EventType, EventOf
      <3>4. QED
        BY <1>1, <3>3
    <2>5. QED
      BY <1>2, <2>1, <2>2, <2>3, <2>4 DEF Arrival
  <1>3. ASSUME NEW r \in running, PaymentStep(r)
        PROVE  \A q \in running' : RequestBacked(q)'
    <2>1. ASSUME \/ CallFails(r) \/ AuthorizeCommit(r) \/ CaptureCommit(r)
                 \/ CancelCommit(r) \/ RefundCommit(r) \/ ConfirmTestCommit(r)
          PROVE  \A q \in running' : RequestBacked(q)'
      BY <1>1, <2>1 DEF CallFails, AuthorizeCommit, CaptureCommit, CancelCommit,
         RefundCommit, ConfirmTestCommit, End
    <2>2. ASSUME AuthorizeCall(r) \/ CancelCall(r) \/ ConfirmTestCall(r)
          PROVE  \A q \in running' : RequestBacked(q)'
      BY <1>1, <2>2 DEF AuthorizeCall, CancelCall, ConfirmTestCall, At, Answered,
         Advance, End, RequestBacked, EventType
    <2>3. ASSUME CaptureCall(r) PROVE \A q \in running' : RequestBacked(q)'
      <3>1. pi'[r.intent] = "succeeded"
        BY <2>3 DEF CaptureCall, StripeCaptures, CaptureKey, ClaimsAreBacked, KeyBacked
      <3>2. RequestBacked(r)'
        BY <1>1
      <3>3. QED
        BY <1>1, <2>3, <3>1, <3>2 DEF CaptureCall, At, Answered, Advance, End,
           RequestBacked, EventType
    <2>4. ASSUME RefundCall(r) PROVE \A q \in running' : RequestBacked(q)'
      <3>1. RefundKey(r) \in keys'
        BY <2>4 DEF RefundCall
      <3>2. r.already + Asked(r) <= refunded'[r.intent]
        BY <3>1, KeysStep DEF KeyBacked, RefundKey
      <3>3. RequestBacked(r)'
        BY <1>1
      <3>4. QED
        BY <1>1, <2>4, <3>2, <3>3 DEF RefundCall, At, Answered, Advance, End,
           RequestBacked, Asked, EventType
    <2>5. QED
      BY <1>3, <2>1, <2>2, <2>3, <2>4 DEF PaymentStep
  <1>4. ASSUME NEW r \in running, BookStep(r)
        PROVE  \A q \in running' : RequestBacked(q)'
    BY <1>1, <1>4 DEF BookStep, BookPend, BookRecord, BookDone, BookFail, At, Advance,
       End, RequestBacked, EventType
  <1>5. ASSUME NEW r \in running, WebhookStep(r)
        PROVE  \A q \in running' : RequestBacked(q)'
    <2>1. CASE WebhookInsert(r)
      <3>1. RequestBacked(r)'
        BY <1>1
      <3>2. QED
        BY <1>1, <2>1, <3>1 DEF WebhookInsert, RequestBacked, EventOf, Asked
    <2>2. CASE WebhookDuplicate(r) \/ WebhookApply(r)
      BY <1>1, <2>2 DEF WebhookDuplicate, WebhookApply, End
    <2>3. QED
      BY <1>5, <2>1, <2>2 DEF WebhookStep
  <1>6. ASSUME NEW c \in suspended, AmadeusAnswers(c) \/ BookResume(c)
        PROVE  \A q \in running' : RequestBacked(q)'
    BY <1>1, <1>6 DEF AmadeusAnswers, BookResume, Begin, RequestBacked, EventType
  <1>7. CASE JobStep
    BY <1>1, <1>7 DEF JobStep, ZombieSelect, ZombieCancel, ZombieCommit
  <1>8. CASE Surroundings
    BY <1>1, <1>8 DEF Surroundings, CreateIntent, CardApproved, CardDeclined,
       StripeExpires, Operator, GrowsOld, Abort, Crash, End
  <1>9. CASE UNCHANGED vars
    BY <1>1, <1>9 DEF vars
  <1>10. QED
    BY <1>2, <1>3, <1>4, <1>5, <1>6, <1>7, <1>8, <1>9 DEF Next, RequestStep

\* Every write of CAPTURED, REFUNDED, BOOKED or of the charge has its claim behind it.
LEMMA StatusStep ==
  ASSUME IInv, [Next]_vars
  PROVE  StatusIsBacked'
  <1> DEFINE Kept == \A i \in Intents :
                       /\ status[i] = "CAPTURED" \/ i \in hasCharge => pi'[i] = "succeeded"
                       /\ status[i] = "REFUNDED" => refunded'[i] = Amount
                       /\ status[i] = "BOOKED" => i \in ticketed'
  <1>1. TypeOK /\ TypeOK'
    BY TypeStep DEF IInv
  <1>2. Kept
    BY <1>1, Monotone, ConstantsOK DEF IInv, StatusIsBacked, TypeOK
  <1>3. \A r \in running : RequestBacked(r)
    BY DEF IInv, ClaimsAreBacked
  <1> USE DEF StatusIsBacked
  <1>4. CASE UNCHANGED <<status, hasCharge>>
    BY <1>2, <1>4
  <1>5. ASSUME NEW r \in running, CaptureCommit(r) PROVE StatusIsBacked'
    <2>1. pi[r.intent] = "succeeded"
      BY <1>3, <1>5 DEF CaptureCommit, At, RequestBacked
    <2>2. QED
      BY <1>1, <1>2, <1>5, <2>1 DEF CaptureCommit, SetStatus, moneyVars, TypeOK, Request
  <1>6. ASSUME NEW r \in running, RefundCommit(r) PROVE StatusIsBacked'
    <2>1. r.already + Asked(r) <= refunded[r.intent]
      BY <1>3, <1>6 DEF RefundCommit, At, RequestBacked
    <2>2. r.already + Asked(r) >= Amount => refunded[r.intent] = Amount
      BY <1>1, <2>1, ConstantsOK DEF Asked, TypeOK, Request
    <2>3. QED
      BY <1>1, <1>2, <1>6, <2>2 DEF RefundCommit, SetStatus, moneyVars, TypeOK, Request
  <1>7. ASSUME NEW r \in running, BookDone(r) PROVE StatusIsBacked'
    <2>1. r.intent \in ticketed
      BY <1>3, <1>7 DEF BookDone, At, RequestBacked
    <2>2. QED
      BY <1>1, <1>2, <1>7, <2>1 DEF BookDone, SetStatus, moneyVars, TypeOK, Request
  <1>8. ASSUME NEW r \in running,
               \/ CancelCommit(r) \/ ConfirmTestCommit(r) \/ BookPend(r) \/ BookFail(r)
        PROVE  StatusIsBacked'
    BY <1>1, <1>2, <1>8 DEF CancelCommit, ConfirmTestCommit, BookPend, BookFail, SetWhen,
       SetStatus, moneyVars, TypeOK, Request
  <1>9. ASSUME NEW r \in running, WebhookApply(r) PROVE StatusIsBacked'
    <2>1. r.op \in EventType => EventBacked(EventOf(r))
      BY <1>3 DEF RequestBacked, IInv, ClaimsAreBacked
    <2>2. UNCHANGED <<pi, refunded, ticketed>> /\ r.intent \in Intents
      BY <1>1, <1>9 DEF WebhookApply, moneyVars, TypeOK, Request
    <2>3. CASE HandleSucceeded(r)
      <3>1. pi[r.intent] = "succeeded"
        BY <2>1, <2>3 DEF HandleSucceeded, EventBacked, EventOf, EventType
      <3>2. QED
        BY <1>1, <1>2, <2>2, <2>3, <3>1 DEF HandleSucceeded, SetWhen, TypeOK
    <2>4. CASE HandleRefunded(r)
      <3>1. r.amount >= Amount => refunded[r.intent] = Amount
        BY <1>1, <2>1, <2>4, ConstantsOK
        DEF HandleRefunded, EventBacked, EventOf, EventType, TypeOK, Request
      <3>2. QED
        BY <1>1, <1>2, <2>2, <2>4, <3>1 DEF HandleRefunded, SetWhen, TypeOK
    <2>5. CASE \/ HandleAmountCapturableUpdated(r) \/ HandleCanceled(r)
               \/ HandlePaymentFailed(r)
      BY <1>1, <1>2, <2>2, <2>5 DEF HandleAmountCapturableUpdated, HandleCanceled,
         HandlePaymentFailed, SetWhen, TypeOK
    <2>6. QED
      BY <1>9, <2>3, <2>4, <2>5 DEF WebhookApply
  <1>10. ASSUME NEW i \in Intents, CreateIntent(i) PROVE StatusIsBacked'
    BY <1>1, <1>2, <1>10 DEF CreateIntent, SetStatus, moneyVars, TypeOK
  <1>11. CASE ZombieCommit
    BY <1>1, <1>2, <1>11 DEF ZombieCommit, moneyVars, TypeOK
  <1>12. QED
    BY <1>4, <1>5, <1>6, <1>7, <1>8, <1>9, <1>10, <1>11, StatusMoves

\* Without the dashboard only capture_payment captures, and it was let in BOOKED.
LEMMA TicketStep ==
  ASSUME IInv, [Next]_vars
  PROVE  TicketBeforeCharge'
  <1> SUFFICES ASSUME Production, ~OperatorActs, NEW i \in Intents, pi'[i] = "succeeded"
               PROVE  i \in ticketed'
    BY DEF TicketBeforeCharge
  <1>1. CASE pi[i] = "succeeded"
    BY <1>1, Monotone DEF IInv, TicketBeforeCharge
  <1>2. CASE pi[i] # "succeeded"
    <2> USE DEF IInv, TypeOK
    <2>1. PICK r \in running : CaptureCall(r) /\ r.intent = i
      <3>1. ASSUME NEW r \in running,
                   AuthorizeCall(r) \/ CancelCall(r) \/ ConfirmTestCall(r) \/ RefundCall(r)
                   \/ BookRecord(r)
            PROVE  FALSE
        BY <1>2, <3>1 DEF AuthorizeCall, CancelCall, ConfirmTestCall, RefundCall,
           BookRecord, StripeCancels, StripeAuthorizes, moneyVars
      <3>2. ASSUME NEW j \in Intents,
                   \/ ZombieCancel(j) \/ CardApproved(j) \/ CardDeclined(j)
                   \/ StripeExpires(j) \/ Operator(j)
            PROVE  FALSE
        BY <1>2, <3>2 DEF ZombieCancel, CardApproved, CardDeclined, StripeExpires,
           Operator, StripeCancels, StripeAuthorizes
      <3>3. PICK r \in running : CaptureCall(r)
        BY <1>2, <3>1, <3>2, MoneyMoves
      <3>4. r.intent = i
        BY <1>2, <3>3 DEF CaptureCall, StripeCaptures
      <3>5. QED
        BY <3>3, <3>4
    <2>2. QED
      BY <2>1, Monotone DEF CaptureCall, At, ClaimsAreBacked, RequestBacked
  <1>3. QED
    BY <1>1, <1>2

\* IInv is an invariant: its parts hold at the start and each of them is kept by every
\* step of a handler, the job or Stripe from the conjunction of all.
LEMMA Inductive == Spec => []IInv
  <1>1. Init => IInv
    BY ConstantsOK DEF Init, IInv, TypeOK, NoJob, Status, PiState, ClaimsAreBacked,
       StatusIsBacked, TicketBeforeCharge
  <1>2. IInv /\ [Next]_vars => IInv'
    <2> SUFFICES ASSUME IInv, [Next]_vars PROVE IInv'
      OBVIOUS
    <2>1. ClaimsAreBacked'
      BY KeysStep, EventsStep, RequestsStep DEF ClaimsAreBacked
    <2>2. QED
      BY <2>1, TypeStep, StatusStep, TicketStep DEF IInv
  <1>3. QED
    BY <1>1, <1>2, PTL DEF Spec

\* Whatever a late request, a replayed key or an event claims is true at Stripe and in
\* the flight orders: no answer or event, however delayed, can make the API lie.
THEOREM Claims == Spec => []ClaimsAreBacked
  BY Inductive, PTL DEF IInv

\* CAPTURED, REFUNDED, BOOKED and a stored charge are backed by a capture, a full
\* refund, a flight order, for any workers, amounts, losses, crashes and orders of steps.
THEOREM StatusBacked == Spec => []StatusIsBacked
  BY Inductive, PTL DEF IInv

\* In production, with nobody acting in Stripe's dashboard, no customer is charged for
\* a flight that was not ordered, though capture and booking interleave in any way.
THEOREM NoChargeWithoutTicket == Spec => []TicketBeforeCharge
  BY Inductive, PTL DEF IInv

-----------------------------------------------------------------------------
(* An event is applied at most once. *)

\* A request whose insert went through holds its event's row: the event is not
\* recorded and no other request holds it.
RowHeld ==
    \A q \in running : q.step = "apply" =>
        /\ EventOf(q) \notin recorded
        /\ \A p \in running : p.step = "apply" /\ EventOf(p) = EventOf(q) => p = q

\* Every step keeps an event that is being applied unrecorded and in one request.
LEMMA RowHeldStep ==
  ASSUME TypeOK, RowHeld, [Next]_vars
  PROVE  RowHeld'
  <1> DEFINE NoneAdded == /\ recorded' = recorded
                          /\ \A q \in running' : q.step = "apply" => q \in running
  <1>1. NoneAdded => RowHeld'
    BY DEF RowHeld, EventOf
  <1>2. ASSUME NEW w \in Workers, Arrival(w) PROVE NoneAdded
    BY <1>2 DEF Arrival, AuthorizeStart, CaptureStart, CancelStart, ConfirmTestStart,
       BookStart, RefundStart, WebhookStart, Begin
  <1>3. ASSUME NEW r \in running, PaymentStep(r) PROVE NoneAdded
    BY <1>3 DEF PaymentStep, CallFails, AuthorizeCall, AuthorizeCommit, CaptureCall,
       CaptureCommit, CancelCall, CancelCommit, RefundCall, RefundCommit,
       ConfirmTestCall, ConfirmTestCommit, Answered, Advance, End, TypeOK, Request
  <1>4. ASSUME NEW r \in running, BookStep(r) PROVE NoneAdded
    BY <1>4 DEF BookStep, BookPend, BookRecord, BookDone, BookFail, Advance, End,
       TypeOK, Request
  <1>5. ASSUME NEW r \in running, WebhookInsert(r) PROVE RowHeld'
    <2>1. PICK q : running' = (running \ {r}) \cup {q} /\ EventOf(q) = EventOf(r)
      <3> DEFINE s == [r EXCEPT !.step = "apply", !.seen = Loaded(r)]
      <3>1. running' = (running \ {r}) \cup {s}
        BY <1>5 DEF WebhookInsert
      <3>2. s.op = r.op /\ s.intent = r.intent /\ s.amount = r.amount
        BY DEF TypeOK, Request
      <3> HIDE DEF s
      <3>3. QED
        BY <3>1, <3>2 DEF EventOf
    <2>2. recorded' = recorded /\ EventOf(r) \notin recorded
      BY <1>5 DEF WebhookInsert, EventOf
    <2>3. \A p \in running : p.step = "apply" => EventOf(p) # EventOf(r)
      BY <1>5 DEF WebhookInsert
    <2>4. \A p : EventOf(p)' = EventOf(p)
      BY DEF EventOf
    <2>5. QED
      BY <2>1, <2>2, <2>3, <2>4 DEF RowHeld
  <1>6. ASSUME NEW r \in running, WebhookDuplicate(r) PROVE NoneAdded
    BY <1>6 DEF WebhookDuplicate, End
  <1>7. ASSUME NEW r \in running, WebhookApply(r) PROVE RowHeld'
    BY <1>7 DEF WebhookApply, End, RowHeld, EventOf
  <1>8. ASSUME NEW c \in suspended, AmadeusAnswers(c) \/ BookResume(c) PROVE NoneAdded
    BY <1>8 DEF AmadeusAnswers, BookResume, Begin
  <1>9. CASE JobStep
    BY <1>1, <1>9 DEF JobStep, ZombieSelect, ZombieCancel, ZombieCommit
  <1>10. CASE Surroundings
    BY <1>1, <1>10 DEF Surroundings, CreateIntent, CardApproved, CardDeclined,
       StripeExpires, Operator, GrowsOld, Abort, Crash, End
  <1>11. CASE UNCHANGED vars
    BY <1>1, <1>11 DEF vars
  <1>12. QED
    BY <1>1, <1>2, <1>3, <1>4, <1>5, <1>6, <1>7, <1>8, <1>9, <1>10, <1>11
    DEF Next, RequestStep, WebhookStep

\* process_event applies no event twice, whatever number of workers receive it at once.
THEOREM EventAppliedOnce == Spec => AppliedOnce
  <1>1. Init => RowHeld
    BY DEF Init, RowHeld
  <1>2. TypeOK /\ RowHeld /\ [Next]_vars => RowHeld'
    BY RowHeldStep
  <1>3. RowHeld /\ [Next]_vars
        => [\A r \in running : WebhookApply(r) => EventOf(r) \notin recorded]_vars
    BY DEF RowHeld, WebhookApply
  <1>4. QED
    BY <1>1, <1>2, <1>3, Typing, PTL DEF Spec, AppliedOnce

-----------------------------------------------------------------------------
(* The refinement: each step maps to a step of the promise or to a stutter. *)

\* Stripe's moves, seen from the promise.
LEMMA CancelReleases ==
  ASSUME TypeOK, NEW i \in Intents, StripeCancels(i), UNCHANGED <<refunded, ticketed, status>>
  PROVE  Promise!Next
  <1>1. Promise!Release(i)
    BY DEF StripeCancels, Promise!Release, Promise!Moves, Money, TypeOK, PiState
  <1>2. QED
    BY <1>1 DEF Promise!Next

\* Confirming the PaymentIntent is the promise's Hold.
LEMMA AuthorizationHolds ==
  ASSUME TypeOK, NEW i \in Intents, StripeAuthorizes(i), UNCHANGED <<refunded, ticketed, status>>
  PROVE  Promise!Next
  <1>1. Promise!Hold(i)
    BY DEF StripeAuthorizes, Promise!Hold, Promise!Moves, Money, TypeOK, PiState
  <1>2. QED
    BY <1>1 DEF Promise!Next

\* A capture is the promise's Charge, of a ticketed intent where the promise asks for one.
LEMMA CaptureCharges ==
  ASSUME TypeOK, NEW i \in Intents, StripeCaptures(i), UNCHANGED <<refunded, ticketed, status>>,
         Production /\ ~OperatorActs => i \in ticketed
  PROVE  Promise!Next
  <1>1. Promise!Charge(i)
    BY DEF StripeCaptures, Promise!Charge, Promise!Moves, Money, TypeOK, PiState
  <1>2. QED
    BY <1>1 DEF Promise!Next

\* A refund is the promise's Return, within what was charged.
LEMMA RefundReturns ==
  ASSUME TypeOK, NEW i \in Intents, NEW n \in 0..Amount, StripeRefunds(i, n),
         UNCHANGED <<pi, ticketed, status>>
  PROVE  Promise!Next
  <1>1. n \in 1..Amount
    BY ConstantsOK DEF StripeRefunds
  <1>2. Promise!Return(i, n)
    BY DEF StripeRefunds, Promise!Return, Money, TypeOK
  <1>3. QED
    BY <1>1, <1>2 DEF Promise!Next

\* The steps of Stripe and of the flight orders.
LEMMA MoneySteps ==
  ASSUME IInv, [Next]_vars
  PROVE  Promise!Next \/ UNCHANGED <<[i \in Intents |-> Money(pi[i])], refunded, ticketed>>
  <1>1. TypeOK
    BY DEF IInv
  <1> USE DEF rowVars, moneyVars
  <1>2. CASE UNCHANGED <<pi, refunded, keys, sent, ticketed>>
    BY <1>2
  <1>3. ASSUME NEW r \in running, AuthorizeCall(r)
        PROVE  UNCHANGED <<[i \in Intents |-> Money(pi[i])], refunded, ticketed>>
    BY <1>1, <1>3 DEF AuthorizeCall, Money, TypeOK, Request
  <1>4. ASSUME NEW r \in running, CaptureCall(r)
        PROVE  Promise!Next \/ UNCHANGED <<pi, refunded, ticketed>>
    <2>1. Production /\ ~OperatorActs => r.intent \in ticketed
      BY <1>4 DEF CaptureCall, At, IInv, ClaimsAreBacked, RequestBacked
    <2>2. r.intent \in Intents
      BY <1>1 DEF TypeOK, Request
    <2>3. QED
      BY <1>1, <1>4, <2>1, <2>2, CaptureCharges DEF CaptureCall
  <1>5. ASSUME NEW r \in running, CancelCall(r)
        PROVE  Promise!Next \/ UNCHANGED <<pi, refunded, ticketed>>
    BY <1>1, <1>5, CancelReleases DEF CancelCall, TypeOK, Request
  <1>6. ASSUME NEW r \in running, RefundCall(r)
        PROVE  Promise!Next \/ UNCHANGED <<pi, refunded, ticketed>>
    <2> DEFINE n == IF r.amount = 0 THEN Amount - refunded[r.intent] ELSE r.amount
    <2>1. r.intent \in Intents
      BY <1>1 DEF TypeOK, Request
    <2>2. StripeRefunds(r.intent, n) => n \in 0..Amount
      BY <1>1, <2>1, ConstantsOK DEF StripeRefunds, TypeOK, Request
    <2>3. StripeRefunds(r.intent, n) \/ UNCHANGED refunded
      BY <1>6 DEF RefundCall
    <2>4. UNCHANGED <<pi, ticketed, status>>
      BY <1>6 DEF RefundCall
    <2> HIDE DEF n
    <2>5. QED
      BY <1>1, <2>1, <2>2, <2>3, <2>4, RefundReturns
  <1>7. ASSUME NEW r \in running, ConfirmTestCall(r)
        PROVE  Promise!Next
    BY <1>1, <1>7, AuthorizationHolds DEF ConfirmTestCall, TypeOK, Request
  <1>8. ASSUME NEW r \in running, BookRecord(r)
        PROVE  Promise!Next \/ UNCHANGED <<pi, refunded, ticketed>>
    BY <1>1, <1>8 DEF BookRecord, Promise!Next, TypeOK, Request
  <1>9. ASSUME NEW i \in Intents,
               ZombieCancel(i) \/ CardApproved(i) \/ CardDeclined(i) \/ StripeExpires(i)
        PROVE  Promise!Next \/ UNCHANGED <<pi, refunded, ticketed>>
    BY <1>1, <1>9, CancelReleases, AuthorizationHolds
    DEF ZombieCancel, CardApproved, CardDeclined, StripeExpires
  <1>10. ASSUME NEW i \in Intents, Operator(i)
         PROVE  Promise!Next
    <2>1. OperatorActs /\ UNCHANGED <<ticketed, status>>
      BY <1>10 DEF Operator
    <2>2. CASE StripeCaptures(i) /\ UNCHANGED refunded
      BY <1>1, <2>1, <2>2, CaptureCharges
    <2>3. CASE StripeCancels(i) /\ UNCHANGED refunded
      BY <1>1, <2>1, <2>3, CancelReleases
    <2>4. ASSUME NEW n \in 1..Amount, StripeRefunds(i, n), UNCHANGED pi
          PROVE  Promise!Next
      BY <1>1, <2>1, <2>4, RefundReturns, ConstantsOK
    <2>5. QED
      BY <1>10, <2>2, <2>3, <2>4 DEF Operator
  <1>11. QED
    BY <1>2, <1>3, <1>4, <1>5, <1>6, <1>7, <1>8, <1>9, <1>10, MoneyMoves

\* The steps that change what the app shows leave the money alone, and show what is
\* backed: StatusIsBacked holds before and after.
LEMMA ShownSteps ==
  ASSUME IInv, [Next]_vars
  PROVE  \/ Promise!Next
         \/ UNCHANGED [i \in Intents |-> Display(status[i])]
  <1>1. TypeOK /\ TypeOK' /\ StatusIsBacked'
    BY TypeStep, StatusStep DEF IInv
  <1> USE DEF rowVars, moneyVars
  <1> DEFINE Written(j) == /\ UNCHANGED <<pi, refunded, ticketed>>
                           /\ \A i \in Intents \ {j} : status'[i] = status[i]
  <1>2. ASSUME NEW j \in Intents, Written(j)
        PROVE  Promise!Next
    <2>1. Display(status'[j]) \in {"open", "booked", "charged", "returned"}
      BY DEF Display
    <2>2. Promise!Show(j, Display(status'[j]))
      BY <1>1, <1>2 DEF Promise!Show, Promise!Backed, Display, Money, StatusIsBacked,
         TypeOK
    <2>3. QED
      BY <1>2, <2>1, <2>2 DEF Promise!Next
  <1>3. ASSUME NEW r \in running,
               \/ CaptureCommit(r) \/ CancelCommit(r) \/ RefundCommit(r)
               \/ ConfirmTestCommit(r) \/ BookPend(r) \/ BookDone(r) \/ BookFail(r)
               \/ WebhookApply(r)
        PROVE  Written(r.intent) /\ r.intent \in Intents
    BY <1>1, <1>3 DEF CaptureCommit, CancelCommit, RefundCommit, ConfirmTestCommit,
       BookPend, BookDone, BookFail, WebhookApply, HandleAmountCapturableUpdated,
       HandleSucceeded, HandleCanceled, HandlePaymentFailed, HandleRefunded, SetStatus,
       SetWhen, TypeOK, Request
  <1>4. ASSUME NEW i \in Intents, CreateIntent(i) PROVE Written(i)
    BY <1>1, <1>4 DEF CreateIntent, SetStatus, TypeOK
  <1>5. CASE ZombieCommit
    <2>1. Promise!Withdraw(job.picked)
      BY <1>1, <1>5 DEF ZombieCommit, Promise!Withdraw, Display, TypeOK
    <2>2. QED
      BY <1>1, <1>5, <2>1 DEF ZombieCommit, Promise!Next, TypeOK
  <1>6. QED
    BY <1>2, <1>3, <1>4, <1>5, StatusMoves

\* The booking flow keeps PaymentPromise: whatever workers, losses, replays and crashes,
\* the customer sees one hold, one charge after the ticket, no refund beyond the charge,
\* and a status that tells the truth about it.
THEOREM KeepsPromise == Spec => PromiseKept
  <1>1. Init => Promise!Init
    BY DEF Init, Promise!Init, Money, Display
  <1>2. IInv /\ [Next]_vars => [Promise!Next]_Promise!vars
    BY MoneySteps, ShownSteps DEF Promise!vars
  <1>3. QED
    BY <1>1, <1>2, Inductive, PTL DEF Spec, PromiseKept, Promise!Spec

-----------------------------------------------------------------------------
(* One worker.  Its event loop takes one handler at a time, so what a        *)
(* handler read is still so when it commits, but for the job's CANCELLED and *)
(* for a `book` that gave the loop up.  The kinds of steps, for that worker: *)

OneWorker == Cardinality(Workers) = 1

Unauthorized == {"none", "requires_payment_method"}

\* A request of the worker's goes on with its next step.
Continues(r, q) ==
    /\ q.op = r.op /\ q.intent = r.intent /\ q.step # "apply"
    /\ r.op = "book" => r.step # "commit" /\ q.step # "commit"
    /\ r.op = "confirm_test" => /\ pi[r.intent] = "requires_payment_method"
                                /\ pi'[r.intent] \notin Unauthorized

\* Stripe moves, or requests end or go on; the rows stay.
Along ==
    /\ UNCHANGED <<status, hasCharge, recorded, suspended, orders>> /\ sent \subseteq sent'
    /\ \A i \in Intents : pi'[i] \in Unauthorized => pi[i] \in Unauthorized
    /\ \A e \in sent' \ sent : e.type = "amount_capturable_updated" => pi'[e.intent] \notin Unauthorized
    /\ \/ running' \subseteq running
       \/ \E r \in running : \E q : running' = (running \ {r}) \cup {q} /\ Continues(r, q)
    /\ \/ UNCHANGED refunded
       \/ OperatorActs
       \/ \E r \in running :
            /\ r.op = "refund" /\ r.step = "call" /\ pi[r.intent] = "succeeded"
            /\ \A i \in Intents \ {r.intent} : refunded'[i] = refunded[i]

\* A request arrives.
Started(q) ==
    \/ q.op \in {"authorize", "cancel"} \/ (q.op \in EventType /\ q.step = "insert")
    \/ q.op = "confirm_test" /\ q.step = "call" /\ ~Production
    \/ q.op = "capture" /\ status[q.intent] \in {"BOOKED", "AUTHORIZED"}
    \/ q.op = "book" /\ status[q.intent] = "AUTHORIZED"
    \/ q.op = "refund" /\ status[q.intent] = "CAPTURED"

RowsStay == UNCHANGED <<status, hasCharge, recorded, orders, pi, refunded, sent>>

Starts ==
    /\ RowsStay /\ UNCHANGED suspended /\ running = {}
    /\ \E q : running' = {q} /\ Started(q) /\ q.step # "apply"

Resumes ==
    /\ RowsStay /\ running = {}
    /\ \E c \in suspended : /\ c.result # "none" /\ suspended' = suspended \ {c}
                            /\ \E q : /\ running' = {q} /\ q.op = "book" /\ q.intent = c.intent
                                      /\ q.step \in {"record", "fail"}

\* What a request may write.
Writes(r, s) ==
    \/ s \in {"CANCELLED", "FAILED"}
    \/ r.op = "capture" /\ s = "CAPTURED"
    \/ r.op = "refund" /\ s = "REFUNDED"
    \/ r.op = "confirm_test" /\ r.step = "commit" /\ s = "AUTHORIZED"
    \/ r.op = "book" /\ s = "BOOKED"
    \/ /\ r.step = "apply" /\ r.op = "amount_capturable_updated"
       /\ r.seen = "INIT" /\ s = "AUTHORIZED"
    \/ r.step = "apply" /\ r.seen \in {"BOOKED", "AUTHORIZED"} /\ s = "CAPTURED"
    \/ r.step = "apply" /\ r.seen = "CAPTURED" /\ s = "REFUNDED"

Commits(r) ==
    /\ r \in running /\ running' = running \ {r}
    /\ UNCHANGED <<pi, refunded, sent, suspended, orders>> /\ hasCharge \subseteq hasCharge'
    /\ \/ UNCHANGED status
       \/ \E s \in Status : /\ Writes(r, s) /\ status' = [status EXCEPT ![r.intent] = s]
                            /\ s = "CAPTURED" => r.intent \in hasCharge'
    /\ \/ UNCHANGED recorded
       \/ /\ recorded' = recorded \cup {EventOf(r)} /\ r.step = "apply" /\ r.op \in EventType
          /\ r.op = "refunded" /\ r.amount = Amount /\ r.seen = "CAPTURED" => status'[r.intent] = "REFUNDED"

\* The job writes CANCELLED, or a row is created.
RowsTouched ==
    /\ UNCHANGED <<running, hasCharge, recorded, orders, pi, refunded, sent, suspended>>
    /\ \A i \in Intents : \/ status'[i] \in {status[i], "CANCELLED"}
                          \/ status[i] = "ABSENT" /\ status'[i] = "INIT"

LEMMA OneRuns ==
  ASSUME TypeOK, OneWorker, NEW w \in Workers, Idle(w)
  PROVE  running = {}
  <1>1. PICK v : Workers = {v}
    BY ConstantsOK, FS_Singleton DEF OneWorker
  <1>2. \A r \in running : r.worker \in Workers
    BY DEF TypeOK, Request
  <1>3. QED
    BY <1>1, <1>2 DEF Idle

LEMMA SoleKinds ==
  ASSUME TypeOK, OneWorker, [Next]_vars
  PROVE  \/ Along \/ Starts \/ Resumes \/ RowsTouched
         \/ \E r \in running : Commits(r) \/ BookPend(r) \/ WebhookInsert(r)
         \/ \E c \in suspended : AmadeusAnswers(c)
         \/ \E w \in Workers : Crash(w)
  <1> USE DEF rowVars, moneyVars
  <1>1. ASSUME NEW w \in Workers, Arrival(w) PROVE Starts
    <2>1. ASSUME NEW op, NEW step, NEW i, NEW amount, NEW already, Begin(w, op, step, i, amount, already)
          PROVE  running = {} /\ \E q : running' = {q} /\ q.op = op /\ q.step = step /\ q.intent = i
      <3> DEFINE q == [worker |-> w, op |-> op, step |-> step, intent |-> i,
                       seen |-> status[i], amount |-> amount, already |-> already]
      <3>1. running = {} /\ running' = {q}
        BY <2>1, OneRuns DEF Begin
      <3>2. q.op = op /\ q.step = step /\ q.intent = i
        OBVIOUS
      <3> HIDE DEF q
      <3>3. QED
        BY <3>1, <3>2
    <2>2. ASSUME NEW i \in Intents, AuthorizeStart(w, i) \/ CancelStart(w, i) \/ ConfirmTestStart(w, i)
          PROVE  Starts
      <3>1. PICK op, step : /\ Begin(w, op, step, i, 0, 0)
                            /\ \/ op \in {"authorize", "cancel"}
                               \/ op = "confirm_test" /\ step = "call" /\ ~Production
                            /\ step # "apply"
        BY <2>2 DEF AuthorizeStart, CancelStart, ConfirmTestStart
      <3>2. RowsStay /\ UNCHANGED suspended
        BY <2>2 DEF AuthorizeStart, CancelStart, ConfirmTestStart, RowsStay
      <3>3. QED
        BY <2>1, <3>1, <3>2 DEF Starts, Started
    <2>3. ASSUME NEW i \in Intents, CaptureStart(w, i) \/ BookStart(w, i) PROVE Starts
      <3>1. PICK op, step : /\ Begin(w, op, step, i, 0, 0) /\ step # "apply"
                            /\ \/ op = "capture" /\ status[i] \in {"BOOKED", "AUTHORIZED"}
                               \/ op = "book" /\ status[i] = "AUTHORIZED"
        BY <2>3 DEF CaptureStart, BookStart, Capturable
      <3>2. RowsStay /\ UNCHANGED suspended
        BY <2>3 DEF CaptureStart, BookStart, RowsStay
      <3>3. QED
        BY <2>1, <3>1, <3>2 DEF Starts, Started
    <2>4. ASSUME NEW i \in Intents, NEW amount \in 0..Amount, RefundStart(w, i, amount) PROVE Starts
      <3>1. Begin(w, "refund", "call", i, amount, refunded[i]) /\ status[i] = "CAPTURED"
        BY <2>4 DEF RefundStart
      <3>2. RowsStay /\ UNCHANGED suspended
        BY <2>4 DEF RefundStart, RowsStay
      <3>3. QED
        BY <2>1, <3>1, <3>2 DEF Starts, Started
    <2>5. ASSUME NEW e \in sent, WebhookStart(w, e) PROVE Starts
      <3>1. Begin(w, e.type, "insert", e.intent, e.n, 0) /\ e.type \in EventType
        BY <2>5 DEF WebhookStart, TypeOK, Event
      <3>2. RowsStay /\ UNCHANGED suspended
        BY <2>5 DEF WebhookStart, RowsStay
      <3>3. QED
        BY <2>1, <3>1, <3>2 DEF Starts, Started
    <2>6. QED
      BY <1>1, <2>2, <2>3, <2>4, <2>5 DEF Arrival
  <1>2. ASSUME NEW r \in running, NEW step, Advance(r, step)
        PROVE  \E q : /\ running' = (running \ {r}) \cup {q} /\ q.op = r.op /\ q.intent = r.intent
                      /\ q.step = step
    <2> DEFINE q == [r EXCEPT !.step = step]
    <2>1. running' = (running \ {r}) \cup {q}
      BY <1>2 DEF Advance
    <2>2. q.op = r.op /\ q.intent = r.intent /\ q.step = step
      BY DEF TypeOK, Request
    <2> HIDE DEF q
    <2>3. QED
      BY <2>1, <2>2
  <1>3. ASSUME NEW r \in running, PaymentStep(r) PROVE Along \/ Commits(r)
    <2>1. CASE CallFails(r) \/ AuthorizeCommit(r)
      BY <2>1 DEF CallFails, AuthorizeCommit, End, Along
    <2>2. CASE AuthorizeCall(r) \/ CaptureCall(r) \/ CancelCall(r) \/ ConfirmTestCall(r)
      <3>1. /\ UNCHANGED <<status, hasCharge, recorded, suspended, orders, refunded>>
            /\ sent \subseteq sent'
        BY <2>2 DEF AuthorizeCall, CaptureCall, CancelCall, ConfirmTestCall, Emit,
           StripeCaptures, StripeCancels, StripeAuthorizes
      <3>2. \A i \in Intents : pi'[i] \in Unauthorized => pi[i] \in Unauthorized
        BY <2>2 DEF AuthorizeCall, CaptureCall, CancelCall, ConfirmTestCall,
           StripeCaptures, StripeCancels, StripeAuthorizes, Unauthorized, TypeOK
      <3>3. \A e \in sent' \ sent : e.type = "amount_capturable_updated" => pi'[e.intent] \notin Unauthorized
        BY <2>2 DEF AuthorizeCall, CaptureCall, CancelCall, ConfirmTestCall, Emit,
           StripeCaptures, StripeCancels, StripeAuthorizes, Unauthorized, TypeOK, Request
      <3>4. Advance(r, "commit") \/ End(r)
        BY <2>2 DEF AuthorizeCall, CaptureCall, CancelCall, ConfirmTestCall, Answered
      <3>5. /\ r.op # "book"
            /\ r.op = "confirm_test" => /\ pi[r.intent] = "requires_payment_method"
                                        /\ pi'[r.intent] \notin Unauthorized
        BY <2>2 DEF AuthorizeCall, CaptureCall, CancelCall, ConfirmTestCall, At, StripeAuthorizes,
           Unauthorized, TypeOK, Request
      <3>6. QED
        BY <1>2, <3>1, <3>2, <3>3, <3>4, <3>5 DEF Along, Continues, End
    <2>3. CASE RefundCall(r)
      <3>1. /\ UNCHANGED <<status, hasCharge, recorded, suspended, orders, pi>>
            /\ sent \subseteq sent' /\ r.op = "refund" /\ r.step = "call"
            /\ \A e \in sent' \ sent : e.type = "refunded"
        BY <2>3 DEF RefundCall, StripeRefunds, Emit, At
      <3>2. \/ UNCHANGED refunded
            \/ /\ pi[r.intent] = "succeeded"
               /\ \A i \in Intents \ {r.intent} : refunded'[i] = refunded[i]
        BY <2>3 DEF RefundCall, StripeRefunds, TypeOK
      <3>3. Advance(r, "commit") \/ End(r)
        BY <2>3 DEF RefundCall, Answered
      <3>4. QED
        BY <1>2, <3>1, <3>2, <3>3 DEF Along, Continues, End
    <2>4. CASE CaptureCommit(r)
      BY <2>4 DEF CaptureCommit, Commits, SetStatus, End, Writes, At, Status
    <2>5. CASE CancelCommit(r)
      BY <2>5 DEF CancelCommit, Commits, SetWhen, End, Writes, At, Status
    <2>6. CASE RefundCommit(r)
      BY <2>6 DEF RefundCommit, Commits, SetStatus, End, Writes, At, Status
    <2>7. CASE ConfirmTestCommit(r)
      BY <2>7 DEF ConfirmTestCommit, Commits, SetWhen, End, Writes, At, Status
    <2>8. QED
      BY <1>3, <2>1, <2>2, <2>3, <2>4, <2>5, <2>6, <2>7 DEF PaymentStep
  <1>4. ASSUME NEW r \in running, BookRecord(r) \/ BookDone(r) \/ BookFail(r) PROVE Along \/ Commits(r)
    <2>1. CASE BookRecord(r) \/ (BookDone(r) /\ UNCHANGED status /\ Advance(r, "fail"))
      <3>1. UNCHANGED <<status, hasCharge, recorded, suspended, orders, pi, refunded, sent>>
        BY <2>1 DEF BookRecord, BookDone
      <3>2. Advance(r, "done") \/ Advance(r, "fail")
        BY <2>1 DEF BookRecord
      <3>3. r.op = "book" /\ r.step # "commit"
        BY <2>1 DEF BookRecord, BookDone, At
      <3>4. QED
        BY <1>2, <3>1, <3>2, <3>3 DEF Along, Continues
    <2>2. CASE BookDone(r) /\ SetStatus(r.intent, "BOOKED") /\ End(r)
      BY <2>2 DEF BookDone, Commits, SetStatus, End, Writes, At, Status
    <2>3. CASE BookFail(r)
      BY <2>3 DEF BookFail, Commits, SetStatus, End, Writes, At, Status
    <2>4. QED
      BY <1>4, <2>1, <2>2, <2>3 DEF BookDone
  <1>5. ASSUME NEW r \in running, WebhookDuplicate(r) PROVE Along
    BY <1>5 DEF WebhookDuplicate, End, Along
  <1>6. ASSUME NEW r \in running, WebhookApply(r) PROVE Commits(r)
    <2>1. /\ running' = running \ {r} /\ recorded' = recorded \cup {EventOf(r)} /\ r.step = "apply"
          /\ UNCHANGED <<pi, refunded, sent, suspended, orders>>
      BY <1>6 DEF WebhookApply, End
    <2>2. r.op \in EventType
      BY <1>6 DEF WebhookApply, HandleAmountCapturableUpdated, HandleSucceeded, HandleCanceled,
         HandlePaymentFailed, HandleRefunded, EventType
    <2>3. hasCharge \subseteq hasCharge'
      BY <1>6 DEF WebhookApply, HandleAmountCapturableUpdated, HandleSucceeded, HandleCanceled,
         HandlePaymentFailed, HandleRefunded
    <2>4. \/ UNCHANGED status
          \/ \E s \in Status : /\ Writes(r, s) /\ status' = [status EXCEPT ![r.intent] = s]
                               /\ s = "CAPTURED" => r.intent \in hasCharge'
      BY <1>6, <2>1 DEF WebhookApply, HandleAmountCapturableUpdated, HandleSucceeded, HandleCanceled,
         HandlePaymentFailed, HandleRefunded, SetWhen, Writes, Status
    <2>5. r.op = "refunded" /\ r.amount = Amount /\ r.seen = "CAPTURED" => status'[r.intent] = "REFUNDED"
      BY <1>6, ConstantsOK DEF WebhookApply, HandleAmountCapturableUpdated, HandleSucceeded, HandleCanceled,
         HandlePaymentFailed, HandleRefunded, SetWhen, TypeOK, Request
    <2>6. QED
      BY <2>1, <2>2, <2>3, <2>4, <2>5 DEF Commits
  <1>7. ASSUME NEW c \in suspended, BookResume(c) PROVE Resumes
    <2> DEFINE step == IF c.result = "order" THEN "record" ELSE "fail"
    <2> DEFINE q == [worker |-> c.worker, op |-> "book", step |-> step, intent |-> c.intent,
                     seen |-> status[c.intent], amount |-> 0, already |-> 0]
    <2>1. c.worker \in Workers
      BY DEF TypeOK, Coroutine
    <2>2. running = {} /\ running' = {q}
      BY <1>7, <2>1, OneRuns DEF BookResume, Begin
    <2>3. q.op = "book" /\ q.intent = c.intent /\ q.step \in {"record", "fail"}
      OBVIOUS
    <2>4. RowsStay /\ c.result # "none" /\ suspended' = suspended \ {c}
      BY <1>7 DEF BookResume, RowsStay
    <2> HIDE DEF q
    <2>5. QED
      BY <2>2, <2>3, <2>4 DEF Resumes
  <1>8. CASE ZombieSelect \/ \E i \in Intents : ZombieCancel(i)
    BY <1>8 DEF ZombieSelect, ZombieCancel, StripeCancels, Emit, Along, Unauthorized, TypeOK
  <1>9. CASE ZombieCommit
    BY <1>9 DEF ZombieCommit, RowsTouched
  <1>10. ASSUME NEW i \in Intents, CreateIntent(i) PROVE RowsTouched
    BY <1>10 DEF CreateIntent, SetStatus, RowsTouched, TypeOK
  <1>11. ASSUME NEW i \in Intents, CardApproved(i) \/ CardDeclined(i) \/ StripeExpires(i) \/ GrowsOld(i)
         PROVE  Along
    BY <1>11 DEF CardApproved, CardDeclined, StripeExpires, GrowsOld, StripeAuthorizes, StripeCancels,
       Emit, Along, Unauthorized, TypeOK
  <1>12. ASSUME NEW i \in Intents, Operator(i) PROVE Along
    BY <1>12 DEF Operator, StripeCaptures, StripeCancels, StripeRefunds, Emit, Along, Unauthorized, TypeOK
  <1>13. ASSUME NEW r \in running, Abort(r) PROVE Along
    BY <1>13 DEF Abort, End, Along
  <1>14. CASE UNCHANGED vars
    BY <1>14 DEF vars, Along
  <1> HIDE DEF rowVars, moneyVars
  <1>15. QED
    BY <1>1, <1>3, <1>4, <1>5, <1>6, <1>7, <1>8, <1>9, <1>10, <1>11, <1>12, <1>13, <1>14
    DEF Next, RequestStep, BookStep, WebhookStep, JobStep, Surroundings

-----------------------------------------------------------------------------
(* While a `book` of an intent is suspended, one worker does nothing else    *)
(* that counts on the row it read: no second booking, capture or refund.     *)

NoBooking(i) == \A c \in suspended : c.intent # i

\* A request that counts on no `book` of its intent being suspended.
CountsOnNone(r) ==
    \/ r.op \in {"book", "capture", "refund"}
    \/ r.op = "confirm_test" /\ r.step = "commit"
    \/ r.step = "apply" /\ r.seen \in {"INIT", "AUTHORIZED", "BOOKED", "CAPTURED"}

\* What has been authorized, in the row, in a request or in an event, is so at Stripe.
AuthorizedIs ==
    /\ \A i \in Intents : status[i] = "AUTHORIZED" => pi[i] \notin Unauthorized
    /\ \A r \in running : r.op = "book" \/ (r.op = "confirm_test" /\ r.step = "commit") =>
         pi[r.intent] \notin Unauthorized
    /\ \A e \in sent : e.type = "amount_capturable_updated" => pi[e.intent] \notin Unauthorized

OneBooking ==
    /\ \A q, r \in running : q = r
    /\ \A c, d \in suspended : c.intent = d.intent => c = d
    /\ \A i \in Intents :
         /\ status[i] \in {"ABSENT", "INIT", "AUTHORIZED", "BOOKED", "CAPTURED", "REFUNDED"} => NoBooking(i)
         /\ pi[i] \in Unauthorized => NoBooking(i)
    /\ \A r \in running : CountsOnNone(r) => NoBooking(r.intent)

LEMMA AuthorizedStep ==
  ASSUME IInv, OneWorker, OneBooking, AuthorizedIs, [Next]_vars
  PROVE  AuthorizedIs'
  <1> USE DEF IInv
  <1>1. CASE Along
    <2>1. /\ UNCHANGED status /\ sent \subseteq sent'
          /\ \A i \in Intents : pi'[i] \in Unauthorized => pi[i] \in Unauthorized
          /\ \A e \in sent' \ sent : e.type = "amount_capturable_updated" => pi'[e.intent] \notin Unauthorized
      BY <1>1 DEF Along
    <2>2. (\A r \in running : r.intent \in Intents) /\ \A e \in sent : e.intent \in Intents
      BY DEF TypeOK, Request, Event
    <2>3. CASE running' \subseteq running
      BY <2>1, <2>2, <2>3 DEF AuthorizedIs
    <2>4. ASSUME NEW r \in running, NEW q, running' = (running \ {r}) \cup {q}, Continues(r, q)
          PROVE  AuthorizedIs'
      BY <2>1, <2>2, <2>4 DEF AuthorizedIs, Continues
    <2>5. QED
      BY <1>1, <2>3, <2>4 DEF Along
  <1>2. CASE Starts
    <2>1. PICK q : running' = {q} /\ Started(q) /\ q.step # "apply"
      BY <1>2 DEF Starts
    <2>2. UNCHANGED <<status, sent, pi>>
      BY <1>2 DEF Starts, RowsStay
    <2>3. q \in Request
      BY <2>1, TypeStep DEF TypeOK
    <2>4. QED
      BY <2>1, <2>2, <2>3 DEF AuthorizedIs, Started, Request, EventType
  <1>3. CASE Resumes
    <2>0. PICK c \in suspended : \E q : running' = {q} /\ q.intent = c.intent
      BY <1>3 DEF Resumes
    <2>1. PICK q : running' = {q} /\ q.intent = c.intent
      BY <2>0
    <2>2. UNCHANGED <<status, sent, pi>>
      BY <1>3 DEF Resumes, RowsStay
    <2>3. pi[c.intent] \notin Unauthorized
      BY DEF OneBooking, NoBooking, TypeOK, Coroutine
    <2>4. QED
      BY <2>1, <2>2, <2>3 DEF AuthorizedIs
  <1>4. CASE RowsTouched
    BY <1>4 DEF RowsTouched, AuthorizedIs
  <1>5. ASSUME NEW r \in running, Commits(r) PROVE AuthorizedIs'
    <2>1. running' \subseteq running /\ UNCHANGED <<pi, sent>>
      BY <1>5 DEF Commits
    <2>2. ASSUME NEW i \in Intents, status'[i] = "AUTHORIZED", status[i] # "AUTHORIZED"
          PROVE  pi[i] \notin Unauthorized
      <3>1. PICK s \in Status : Writes(r, s) /\ status' = [status EXCEPT ![r.intent] = s]
        BY <1>5, <2>2 DEF Commits
      <3>2. i = r.intent /\ s = "AUTHORIZED"
        BY <2>2, <3>1 DEF TypeOK
      <3>3. CASE r.op = "confirm_test" /\ r.step = "commit"
        BY <3>2, <3>3 DEF AuthorizedIs
      <3>4. CASE r.op = "amount_capturable_updated"
        <4>1. EventOf(r) \in sent
          BY <3>4 DEF ClaimsAreBacked, RequestBacked, EventType
        <4>2. QED
          BY <3>2, <3>4, <4>1 DEF AuthorizedIs, EventOf
      <3>5. QED
        BY <3>1, <3>2, <3>3, <3>4 DEF Writes
    <2>3. QED
      BY <2>1, <2>2 DEF AuthorizedIs
  <1>6. ASSUME NEW r \in running, BookPend(r) PROVE AuthorizedIs'
    BY <1>6 DEF BookPend, At, SetStatus, Advance, End, moneyVars, AuthorizedIs, TypeOK, Request
  <1>7. ASSUME NEW r \in running, WebhookInsert(r) PROVE AuthorizedIs'
    <2> DEFINE q == [r EXCEPT !.step = "apply", !.seen = Loaded(r)]
    <2>1. running' = (running \ {r}) \cup {q} /\ UNCHANGED <<status, pi, sent>>
      BY <1>7 DEF WebhookInsert, rowVars, moneyVars
    <2>2. q.op = r.op /\ q.intent = r.intent /\ q.step = "apply"
      BY DEF TypeOK, Request
    <2> HIDE DEF q
    <2>3. QED
      BY <2>1, <2>2 DEF AuthorizedIs
  <1>8. ASSUME NEW c \in suspended, AmadeusAnswers(c) PROVE AuthorizedIs'
    BY <1>8 DEF AmadeusAnswers, rowVars, moneyVars, AuthorizedIs
  <1>9. ASSUME NEW w \in Workers, Crash(w) PROVE AuthorizedIs'
    BY <1>9 DEF Crash, rowVars, moneyVars, AuthorizedIs
  <1>10. QED
    BY <1>1, <1>2, <1>3, <1>4, <1>5, <1>6, <1>7, <1>8, <1>9, SoleKinds

LEMMA OneBookingStep ==
  ASSUME TypeOK, AuthorizedIs, OneWorker, OneBooking, [Next]_vars
  PROVE  OneBooking'
  <1>1. CASE Along
    <2>1. /\ UNCHANGED <<status, suspended>>
          /\ \A i \in Intents : pi'[i] \in Unauthorized => pi[i] \in Unauthorized
      BY <1>1 DEF Along
    <2>2. CASE running' \subseteq running
      BY <2>1, <2>2 DEF OneBooking, NoBooking, CountsOnNone
    <2>3. ASSUME NEW r \in running, NEW q, running' = (running \ {r}) \cup {q}, Continues(r, q)
          PROVE  OneBooking'
      <3>1. running' = {q}
        BY <2>3 DEF OneBooking
      <3>2. r.intent \in Intents
        BY DEF TypeOK, Request
      <3>3. CountsOnNone(q) => NoBooking(q.intent)
        BY <2>3, <3>2 DEF OneBooking, CountsOnNone, Continues, Unauthorized
      <3>4. QED
        BY <2>1, <3>1, <3>3 DEF OneBooking, NoBooking, CountsOnNone
    <2>4. QED
      BY <1>1, <2>2, <2>3 DEF Along
  <1>2. CASE Starts
    <2>1. PICK q : running' = {q} /\ Started(q) /\ q.step # "apply"
      BY <1>2 DEF Starts
    <2>2. UNCHANGED <<status, suspended, pi>>
      BY <1>2 DEF Starts, RowsStay
    <2>3. q \in Request
      BY <2>1, TypeStep DEF TypeOK
    <2>4. CountsOnNone(q) => NoBooking(q.intent)
      BY <2>1, <2>3 DEF CountsOnNone, Started, OneBooking, Request, Call, EventType
    <2>5. QED
      BY <2>1, <2>2, <2>4 DEF OneBooking, NoBooking, CountsOnNone
  <1>3. CASE Resumes
    <2>0. PICK c \in suspended :
             suspended' = suspended \ {c} /\ \E q : running' = {q} /\ q.intent = c.intent
      BY <1>3 DEF Resumes
    <2>1. PICK q : running' = {q} /\ q.intent = c.intent
      BY <2>0
    <2>2. UNCHANGED <<status, pi>>
      BY <1>3 DEF Resumes, RowsStay
    <2>3. \A d \in suspended' : d.intent # q.intent
      BY <2>0, <2>1 DEF OneBooking
    <2>4. QED
      BY <2>0, <2>1, <2>2, <2>3 DEF OneBooking, NoBooking, CountsOnNone
  <1>4. CASE RowsTouched
    <2>1. /\ UNCHANGED <<running, pi, suspended>>
          /\ \A i \in Intents : \/ status'[i] \in {status[i], "CANCELLED"}
                                \/ status[i] = "ABSENT" /\ status'[i] = "INIT"
      BY <1>4 DEF RowsTouched
    <2>2. QED
      BY <2>1 DEF OneBooking, NoBooking, CountsOnNone
  <1>5. ASSUME NEW r \in running, Commits(r) PROVE OneBooking'
    <2>1. running' = {} /\ UNCHANGED <<pi, suspended>>
      BY <1>5 DEF Commits, OneBooking
    <2>2. ASSUME NEW i \in Intents,
                 status'[i] \in {"ABSENT", "INIT", "AUTHORIZED", "BOOKED", "CAPTURED", "REFUNDED"}
          PROVE  NoBooking(i)
      <3>1. CASE status'[i] = status[i]
        BY <2>2, <3>1 DEF OneBooking
      <3>2. CASE status'[i] # status[i]
        <4>1. PICK s \in Status : Writes(r, s) /\ status' = [status EXCEPT ![r.intent] = s]
          BY <1>5, <3>2 DEF Commits
        <4>2. i = r.intent /\ s = status'[i]
          BY <3>2, <4>1 DEF TypeOK
        <4>3. CountsOnNone(r)
          BY <2>2, <4>1, <4>2 DEF Writes, CountsOnNone
        <4>4. QED
          BY <4>2, <4>3 DEF OneBooking
      <3>3. QED
        BY <3>1, <3>2
    <2>3. QED
      BY <2>1, <2>2 DEF OneBooking, NoBooking
  <1>6. ASSUME NEW r \in running, BookPend(r) PROVE OneBooking'
    <2>1. /\ r.op = "book" /\ status' = [status EXCEPT ![r.intent] = "BOOKING_PENDING"]
          /\ UNCHANGED pi /\ r.intent \in Intents
      BY <1>6 DEF BookPend, At, SetStatus, moneyVars, TypeOK, Request
    <2>2. NoBooking(r.intent) /\ pi[r.intent] \notin Unauthorized
      BY <2>1 DEF OneBooking, CountsOnNone, AuthorizedIs
    <2>3. CASE UNCHANGED suspended /\ Advance(r, "fail")
      BY <2>1, <2>2, <2>3 DEF OneBooking, NoBooking, CountsOnNone, Advance, TypeOK, Request
    <2>4. CASE End(r)
      BY <1>6, <2>1, <2>2, <2>4 DEF BookPend, OneBooking, NoBooking, CountsOnNone, End, TypeOK, Request
    <2>5. QED
      BY <1>6, <2>3, <2>4 DEF BookPend
  <1>7. ASSUME NEW r \in running, WebhookInsert(r) PROVE OneBooking'
    <2> DEFINE q == [r EXCEPT !.step = "apply", !.seen = Loaded(r)]
    <2>1. running' = {q} /\ UNCHANGED <<status, pi, suspended>>
      BY <1>7 DEF WebhookInsert, rowVars, moneyVars, OneBooking
    <2>2. /\ q.op = r.op /\ q.intent = r.intent /\ q.seen = Loaded(r) /\ r.intent \in Intents
      BY DEF TypeOK, Request
    <2>3. CountsOnNone(q) => CountsOnNone(r) \/ Loaded(r) \in {"INIT", "AUTHORIZED", "BOOKED", "CAPTURED"}
      BY <2>2, <1>7 DEF CountsOnNone, WebhookInsert
    <2> HIDE DEF q
    <2>4. CountsOnNone(q) => NoBooking(q.intent)
      BY <2>2, <2>3 DEF OneBooking, Loaded
    <2>5. QED
      BY <2>1, <2>4 DEF OneBooking, NoBooking, CountsOnNone
  <1>8. ASSUME NEW c \in suspended, AmadeusAnswers(c) PROVE OneBooking'
    BY <1>8 DEF AmadeusAnswers, Resolve, rowVars, moneyVars, OneBooking, NoBooking, CountsOnNone, TypeOK, Coroutine
  <1>9. ASSUME NEW w \in Workers, Crash(w) PROVE OneBooking'
    BY <1>9 DEF Crash, rowVars, moneyVars, OneBooking, NoBooking, CountsOnNone
  <1>10. QED
    BY <1>1, <1>2, <1>3, <1>4, <1>5, <1>6, <1>7, <1>8, <1>9, SoleKinds

-----------------------------------------------------------------------------
(* A refund is the end of an intent's money: nothing that could capture or   *)
(* book it is then about, in a request, an event being applied or suspended. *)

\* A request that counts on nothing having been refunded.
CountsOnCharge(r) ==
    \/ r.op \in {"book", "capture"}
    \/ r.op = "confirm_test" /\ r.step = "commit"
    \/ r.step = "apply" /\ r.seen \in {"INIT", "AUTHORIZED", "BOOKED"}

RefundIsLast ==
    /\ \A i \in Intents :
         /\ status[i] \in {"ABSENT", "INIT", "AUTHORIZED", "BOOKED"} => refunded[i] = 0
         /\ pi[i] \in Unauthorized => refunded[i] = 0
         /\ status[i] = "CAPTURED" => i \in hasCharge
    /\ \A c \in suspended : refunded[c.intent] = 0
    /\ \A r \in running :
         /\ CountsOnCharge(r) => refunded[r.intent] = 0
         /\ r.op = "refund" => status[r.intent] \in {"CAPTURED", "CANCELLED"}
         /\ r.step = "apply" /\ r.op = "refunded" /\ status[r.intent] = "CAPTURED" => r.seen = "CAPTURED"
    /\ recorded \subseteq sent

Alone == OneBooking /\ AuthorizedIs

LEMMA RefundIsLastStep ==
  ASSUME IInv, OneWorker, Alone, RefundIsLast, ~OperatorActs, [Next]_vars
  PROVE  RefundIsLast'
  <1> USE DEF IInv
  <1>1. \A q, r \in running : q = r
    BY DEF Alone, OneBooking
  <1>2. CASE Along
    <2>1. /\ UNCHANGED <<status, hasCharge, recorded, suspended>> /\ sent \subseteq sent'
          /\ \A i \in Intents : pi'[i] \in Unauthorized => pi[i] \in Unauthorized
      BY <1>2 DEF Along
    <2>2. \/ running' \subseteq running
          \/ \E r \in running : \E q : running' = {q} /\ Continues(r, q)
      BY <1>2, <1>1 DEF Along
    <2>3. (\A r \in running : r.intent \in Intents) /\ \A c \in suspended : c.intent \in Intents
      BY DEF TypeOK, Request, Coroutine
    <2>4. CASE UNCHANGED refunded
      <3>1. CASE running' \subseteq running
        BY <2>1, <2>4, <3>1 DEF RefundIsLast, CountsOnCharge
      <3>2. ASSUME NEW r \in running, NEW q, running' = {q}, Continues(r, q) PROVE RefundIsLast'
        <4>1. CountsOnCharge(q) => refunded[q.intent] = 0
          BY <2>3, <3>2 DEF RefundIsLast, CountsOnCharge, Continues, Unauthorized
        <4>2. QED
          BY <2>1, <2>4, <3>2, <4>1 DEF RefundIsLast, CountsOnCharge, Continues
      <3>3. QED
        BY <2>2, <3>1, <3>2
    <2>5. ASSUME NEW r \in running, r.op = "refund", r.step = "call", pi[r.intent] = "succeeded",
                 \A i \in Intents \ {r.intent} : refunded'[i] = refunded[i]
          PROVE  RefundIsLast'
      <3>1. status[r.intent] \in {"CAPTURED", "CANCELLED"} /\ pi'[r.intent] \notin Unauthorized
        BY <2>1, <2>3, <2>5 DEF RefundIsLast, Unauthorized
      <3>2. \A c \in suspended : c.intent # r.intent
        BY <2>5 DEF Alone, OneBooking, CountsOnNone, NoBooking
      <3>3. \A q \in running' : /\ q.op = "refund" /\ q.intent = r.intent
                                /\ q.step = "apply" => q = r
        BY <1>1, <2>2, <2>5 DEF Continues
      <3>4. QED
        BY <2>1, <2>3, <2>5, <3>1, <3>2, <3>3 DEF RefundIsLast, CountsOnCharge
    <2>6. QED
      BY <1>2, <2>4, <2>5 DEF Along
  <1>3. CASE Starts
    <2>1. PICK q : running' = {q} /\ Started(q) /\ q.step # "apply"
      BY <1>3 DEF Starts
    <2>2. UNCHANGED <<status, hasCharge, recorded, suspended, sent, pi, refunded>>
      BY <1>3 DEF Starts, RowsStay
    <2>3. q \in Request
      BY <2>1, TypeStep DEF TypeOK
    <2>4. CountsOnCharge(q) => refunded[q.intent] = 0
      BY <2>1, <2>3 DEF CountsOnCharge, Started, RefundIsLast, Request, Call, EventType
    <2>5. q.op = "refund" => status[q.intent] \in {"CAPTURED", "CANCELLED"}
      BY <2>1 DEF Started, EventType
    <2>6. QED
      BY <2>1, <2>2, <2>4, <2>5 DEF RefundIsLast, CountsOnCharge
  <1>4. CASE Resumes
    <2>0. PICK c \in suspended :
             /\ suspended' = suspended \ {c}
             /\ \E q : /\ running' = {q} /\ q.intent = c.intent
                      /\ q.op = "book" /\ q.step \in {"record", "fail"}
      BY <1>4 DEF Resumes
    <2>1. PICK q : /\ running' = {q} /\ q.intent = c.intent
                   /\ q.op = "book" /\ q.step \in {"record", "fail"}
      BY <2>0
    <2>2. UNCHANGED <<status, hasCharge, recorded, sent, pi, refunded>>
      BY <1>4 DEF Resumes, RowsStay
    <2>3. QED
      BY <2>0, <2>1, <2>2 DEF RefundIsLast, CountsOnCharge
  <1>5. CASE RowsTouched
    <2>1. /\ UNCHANGED <<running, hasCharge, recorded, pi, refunded, sent, suspended>>
          /\ \A i \in Intents : \/ status'[i] \in {status[i], "CANCELLED"}
                                \/ status[i] = "ABSENT" /\ status'[i] = "INIT"
      BY <1>5 DEF RowsTouched
    <2>2. \A r \in running : r.intent \in Intents
      BY DEF TypeOK, Request
    <2>3. QED
      BY <2>1, <2>2 DEF RefundIsLast, CountsOnCharge
  <1>6. ASSUME NEW r \in running, Commits(r) PROVE RefundIsLast'
    <2>1. running' = {} /\ UNCHANGED <<pi, refunded, suspended, sent>> /\ hasCharge \subseteq hasCharge'
      BY <1>6, <1>1 DEF Commits
    <2>2. ASSUME NEW i \in Intents
          PROVE  /\ status'[i] \in {"ABSENT", "INIT", "AUTHORIZED", "BOOKED"} => refunded[i] = 0
                 /\ status'[i] = "CAPTURED" => i \in hasCharge'
      <3>1. CASE status'[i] = status[i]
        BY <2>1, <3>1 DEF RefundIsLast
      <3>2. CASE status'[i] # status[i]
        <4>1. PICK s \in Status : /\ Writes(r, s) /\ status' = [status EXCEPT ![r.intent] = s]
                                  /\ s = "CAPTURED" => r.intent \in hasCharge'
          BY <1>6, <3>2 DEF Commits
        <4>2. i = r.intent /\ s = status'[i]
          BY <3>2, <4>1 DEF TypeOK
        <4>3. s \in {"ABSENT", "INIT", "AUTHORIZED", "BOOKED"} => CountsOnCharge(r)
          BY <4>1 DEF Writes, CountsOnCharge
        <4>4. QED
          BY <4>1, <4>2, <4>3 DEF RefundIsLast
      <3>3. QED
        BY <3>1, <3>2
    <2>3. recorded' \subseteq sent
      BY <1>6 DEF Commits, RefundIsLast, ClaimsAreBacked, RequestBacked
    <2>4. QED
      BY <2>1, <2>2, <2>3 DEF RefundIsLast
  <1>7. ASSUME NEW r \in running, BookPend(r) PROVE RefundIsLast'
    <2>1. /\ r.op = "book" /\ status' = [status EXCEPT ![r.intent] = "BOOKING_PENDING"]
          /\ UNCHANGED <<pi, hasCharge, recorded, refunded, sent>> /\ r.intent \in Intents
          /\ r.step = "commit"
      BY <1>7 DEF BookPend, At, SetStatus, moneyVars, TypeOK, Request
    <2>2. refunded[r.intent] = 0
      BY <2>1 DEF RefundIsLast, CountsOnCharge
    <2>3. \A i \in Intents : status'[i] = IF i = r.intent THEN "BOOKING_PENDING" ELSE status[i]
      BY <2>1 DEF TypeOK
    <2>4. CASE UNCHANGED suspended /\ Advance(r, "fail")
      <3> DEFINE q == [r EXCEPT !.step = "fail"]
      <3>1. running' = {q}
        BY <1>1, <2>4 DEF Advance
      <3>2. q.op = "book" /\ q.intent = r.intent /\ q.step = "fail"
        BY <2>1 DEF TypeOK, Request
      <3> HIDE DEF q
      <3>3. QED
        BY <2>1, <2>2, <2>3, <2>4, <3>1, <3>2 DEF RefundIsLast, CountsOnCharge
    <2>5. CASE End(r) /\ suspended' = suspended \cup {[worker |-> r.worker, intent |-> r.intent, result |-> "none"]}
      <3>1. running' = {}
        BY <1>1, <2>5 DEF End
      <3>2. \A c \in suspended' : refunded[c.intent] = 0
        BY <2>2, <2>5 DEF RefundIsLast
      <3>3. QED
        BY <2>1, <2>3, <3>1, <3>2 DEF RefundIsLast
    <2>6. QED
      BY <1>7, <2>4, <2>5 DEF BookPend
  <1>8. ASSUME NEW r \in running, WebhookInsert(r) PROVE RefundIsLast'
    <2> DEFINE q == [r EXCEPT !.step = "apply", !.seen = Loaded(r)]
    <2>1. running' = {q} /\ UNCHANGED <<status, hasCharge, recorded, pi, refunded, sent, suspended>>
      BY <1>8, <1>1 DEF WebhookInsert, rowVars, moneyVars
    <2>2. /\ q.op = r.op /\ q.intent = r.intent /\ q.seen = Loaded(r) /\ r.intent \in Intents
          /\ q.step = "apply"
      BY DEF TypeOK, Request
    <2> HIDE DEF q
    <2>3. CountsOnCharge(q) => refunded[q.intent] = 0
      BY <2>2 DEF RefundIsLast, Loaded, CountsOnCharge
    <2>4. /\ q.op = "refund" => status[q.intent] \in {"CAPTURED", "CANCELLED"}
          /\ q.op = "refunded" /\ status[q.intent] = "CAPTURED" => q.seen = "CAPTURED"
      BY <2>2 DEF RefundIsLast, Loaded
    <2>5. QED
      BY <2>1, <2>3, <2>4 DEF RefundIsLast, CountsOnCharge
  <1>9. ASSUME NEW c \in suspended, AmadeusAnswers(c) PROVE RefundIsLast'
    <2>1. UNCHANGED <<status, hasCharge, recorded, pi, refunded, sent, running>>
      BY <1>9 DEF AmadeusAnswers, rowVars, moneyVars
    <2>2. \A d \in suspended' : \E b \in suspended : d.intent = b.intent
      BY <1>9 DEF AmadeusAnswers, Resolve, TypeOK, Coroutine
    <2>3. QED
      BY <2>1, <2>2 DEF RefundIsLast, CountsOnCharge
  <1>10. ASSUME NEW w \in Workers, Crash(w) PROVE RefundIsLast'
    BY <1>10 DEF Crash, rowVars, moneyVars, RefundIsLast, CountsOnCharge
  <1>11. QED
    BY <1>2, <1>3, <1>4, <1>5, <1>6, <1>7, <1>8, <1>9, <1>10, SoleKinds

\* A refund event that was applied left no CAPTURED behind.
LEMMA ReconcilesStep ==
  ASSUME IInv, OneWorker, Alone, RefundIsLast, RefundReconciles, ~OperatorActs, [Next]_vars
  PROVE  RefundReconciles'
  <1> DEFINE last(i) == [type |-> "refunded", intent |-> i, n |-> Amount]
  <1> SUFFICES ASSUME NEW i \in Intents, refunded'[i] = Amount, last(i) \in recorded', status'[i] = "CAPTURED"
               PROVE  FALSE
    BY DEF RefundReconciles
  <1>1. TypeOK /\ (\A q, r \in running : q = r) /\ Amount \in Nat \ {0}
    BY ConstantsOK DEF IInv, Alone, OneBooking
  <1>2. last(i) \in recorded => refunded[i] = Amount
    <2>1. ASSUME last(i) \in recorded PROVE Amount <= refunded[i]
      BY <2>1 DEF RefundIsLast, IInv, ClaimsAreBacked, EventBacked
    <2>2. refunded[i] \in 0..Amount
      BY <1>1 DEF TypeOK
    <2>3. QED
      BY <1>1, <2>1, <2>2
  <1>3. ASSUME status[i] = "CAPTURED", last(i) \in recorded PROVE FALSE
    BY <1>2, <1>3 DEF RefundReconciles, OneWorker
  <1>4. CASE UNCHANGED <<status, recorded>>
    BY <1>3, <1>4
  <1>5. ASSUME NEW r \in running, Commits(r) PROVE FALSE
    <2>1. refunded[i] = Amount
      BY <1>5 DEF Commits
    <2>2. status[i] = "CAPTURED"
      <3> SUFFICES ASSUME status[i] # "CAPTURED" PROVE FALSE
        OBVIOUS
      <3>1. PICK s \in Status : Writes(r, s) /\ status' = [status EXCEPT ![r.intent] = s]
        BY <1>5 DEF Commits
      <3>2. r.intent = i /\ s = "CAPTURED"
        BY <1>1, <3>1 DEF TypeOK
      <3>3. CountsOnCharge(r)
        BY <3>1, <3>2 DEF Writes, CountsOnCharge
      <3>4. QED
        BY <1>1, <2>1, <3>2, <3>3 DEF RefundIsLast
    <2>3. last(i) = EventOf(r) /\ r.step = "apply"
      BY <1>3, <1>5, <2>2 DEF Commits
    <2>4. r.op = "refunded" /\ r.intent = i /\ r.amount = Amount
      BY <2>3 DEF EventOf
    <2>5. r.seen = "CAPTURED"
      BY <2>2, <2>3, <2>4 DEF RefundIsLast
    <2>6. recorded' # recorded
      BY <1>3, <2>2
    <2>7. QED
      BY <1>5, <2>4, <2>5, <2>6 DEF Commits
  <1>6. CASE RowsTouched
    BY <1>3, <1>6 DEF RowsTouched
  <1>7. ASSUME NEW r \in running, BookPend(r) PROVE FALSE
    BY <1>1, <1>3, <1>7 DEF BookPend, SetStatus, TypeOK, Request
  <1>8. UNCHANGED <<status, recorded>>
        \/ (\E r \in running : Commits(r) \/ BookPend(r)) \/ RowsTouched
    BY <1>1, SoleKinds DEF Along, Starts, Resumes, RowsStay, WebhookInsert, AmadeusAnswers, Crash,
       rowVars
  <1>9. QED
    BY <1>4, <1>5, <1>6, <1>7, <1>8

\* One worker, nobody in Stripe's dashboard: once the charge.refunded event of a full refund
\* was processed, no late capture, booking or event shows the charge as CAPTURED again.
THEOREM RefundStays == Spec => []RefundReconciles
  <1> DEFINE Sole == OneWorker /\ ~OperatorActs
             RInv == Sole => Alone /\ RefundIsLast /\ RefundReconciles
  <1>1. Init => RInv
    BY DEF Init, Alone, OneBooking, AuthorizedIs, RefundIsLast, RefundReconciles, NoBooking
  <1>2. IInv /\ RInv /\ [Next]_vars => RInv'
    <2> SUFFICES ASSUME IInv, RInv, [Next]_vars, Sole PROVE (Alone /\ RefundIsLast /\ RefundReconciles)'
      BY DEF OneWorker
    <2>1. Alone'
      BY AuthorizedStep, OneBookingStep DEF Alone, IInv
    <2>2. QED
      BY <2>1, RefundIsLastStep, ReconcilesStep
  <1>3. RInv => RefundReconciles
    BY DEF RefundReconciles, OneWorker
  <1> HIDE DEF RInv
  <1>4. QED
    BY <1>1, <1>2, <1>3, Inductive, PTL DEF Spec

-----------------------------------------------------------------------------
(* In production an intent that may still be booked has not been ordered.    *)

OrderIsLast ==
    /\ \A i \in Intents : status[i] \in {"ABSENT", "INIT", "AUTHORIZED"} => orders[i] = 0
    /\ \A c \in suspended : c.result = "none" => orders[c.intent] = 0
    /\ \A r \in running :
         /\ r.op # "confirm_test"
         /\ (r.op = "book" /\ r.step = "commit") \/ (r.step = "apply" /\ r.seen = "INIT") =>
              orders[r.intent] = 0

\* What orders at Amadeus: a suspended booking that was not answered.
LEMMA Orders ==
  ASSUME TypeOK, OneWorker, OrderIsLast, [Next]_vars
  PROVE  \A i \in Intents : orders'[i] # orders[i] => /\ orders[i] = 0
                                                      /\ \E c \in suspended : c.intent = i
  <1> SUFFICES ASSUME NEW i \in Intents, orders'[i] # orders[i]
               PROVE  orders[i] = 0 /\ \E c \in suspended : c.intent = i
    OBVIOUS
  <1>1. \E c \in suspended : c.intent = i /\ c.result = "none"
    <2>1. ASSUME NEW c \in suspended, AmadeusAnswers(c) PROVE c.intent = i /\ c.result = "none"
      BY <2>1 DEF AmadeusAnswers, TypeOK
    <2>2. ASSUME NEW w \in Workers, Crash(w) PROVE \E c \in suspended : c.intent = i /\ c.result = "none"
      BY <2>2 DEF Crash
    <2>3. QED
      BY <2>1, <2>2, SoleKinds DEF Along, Starts, Resumes, RowsTouched, Commits, BookPend, WebhookInsert, RowsStay
  <1>2. QED
    BY <1>1 DEF OrderIsLast

LEMMA OrderIsLastStep ==
  ASSUME IInv, OneWorker, Alone, OrderIsLast, Production, [Next]_vars
  PROVE  OrderIsLast'
  <1> USE DEF IInv
  <1>1. \A q, r \in running : q = r
    BY DEF Alone, OneBooking
  <1>2. CASE Along
    <2>1. UNCHANGED <<status, orders, suspended>>
      BY <1>2 DEF Along
    <2>2. CASE running' \subseteq running
      BY <2>1, <2>2 DEF OrderIsLast
    <2>3. ASSUME NEW r \in running, NEW q, running' = (running \ {r}) \cup {q}, Continues(r, q)
          PROVE  OrderIsLast'
      BY <2>1, <2>3 DEF OrderIsLast, Continues
    <2>4. QED
      BY <1>2, <2>2, <2>3 DEF Along
  <1>3. CASE Starts
    <2>1. PICK q : running' = {q} /\ Started(q) /\ q.step # "apply"
      BY <1>3 DEF Starts
    <2>2. UNCHANGED <<status, orders, suspended>>
      BY <1>3 DEF Starts, RowsStay
    <2>3. q \in Request
      BY <2>1, TypeStep DEF TypeOK
    <2>4. q.op # "confirm_test" /\ (q.op = "book" => orders[q.intent] = 0)
      BY <2>1, <2>3 DEF Started, OrderIsLast, Request, Call, EventType
    <2>5. QED
      BY <2>1, <2>2, <2>4 DEF OrderIsLast
  <1>4. CASE Resumes
    <2>0. PICK c \in suspended :
             /\ suspended' = suspended \ {c}
             /\ \E q : running' = {q} /\ q.op = "book" /\ q.step \in {"record", "fail"}
      BY <1>4 DEF Resumes
    <2>1. PICK q : running' = {q} /\ q.op = "book" /\ q.step \in {"record", "fail"}
      BY <2>0
    <2>2. UNCHANGED <<status, orders>>
      BY <1>4 DEF Resumes, RowsStay
    <2>3. QED
      BY <2>0, <2>1, <2>2 DEF OrderIsLast
  <1>5. CASE RowsTouched
    BY <1>5 DEF RowsTouched, OrderIsLast
  <1>6. ASSUME NEW r \in running, Commits(r) PROVE OrderIsLast'
    <2>1. running' \subseteq running /\ UNCHANGED <<orders, suspended>>
      BY <1>6 DEF Commits
    <2>2. ASSUME NEW i \in Intents, status'[i] \in {"ABSENT", "INIT", "AUTHORIZED"}
          PROVE  orders[i] = 0
      <3>1. CASE status'[i] = status[i]
        BY <2>2, <3>1 DEF OrderIsLast
      <3>2. CASE status'[i] # status[i]
        <4>1. PICK s \in Status : Writes(r, s) /\ status' = [status EXCEPT ![r.intent] = s]
          BY <1>6, <3>2 DEF Commits
        <4>2. i = r.intent /\ s = status'[i]
          BY <3>2, <4>1 DEF TypeOK
        <4>3. r.step = "apply" /\ r.seen = "INIT"
          BY <2>2, <4>1, <4>2 DEF Writes, OrderIsLast
        <4>4. QED
          BY <4>2, <4>3 DEF OrderIsLast
      <3>3. QED
        BY <3>1, <3>2
    <2>3. QED
      BY <2>1, <2>2 DEF OrderIsLast
  <1>7. ASSUME NEW r \in running, BookPend(r) PROVE OrderIsLast'
    <2>1. /\ r.op = "book" /\ r.step = "commit" /\ UNCHANGED orders
          /\ status' = [status EXCEPT ![r.intent] = "BOOKING_PENDING"]
      BY <1>7 DEF BookPend, At, SetStatus
    <2>2. orders[r.intent] = 0
      BY <2>1 DEF OrderIsLast
    <2>3. \A i \in Intents : status'[i] \in {"ABSENT", "INIT", "AUTHORIZED"} => status'[i] = status[i]
      BY <2>1 DEF TypeOK
    <2>4. CASE UNCHANGED suspended /\ Advance(r, "fail")
      BY <2>1, <2>3, <2>4 DEF OrderIsLast, Advance, TypeOK, Request
    <2>5. CASE End(r) /\ suspended' = suspended \cup {[worker |-> r.worker, intent |-> r.intent, result |-> "none"]}
      BY <2>1, <2>2, <2>3, <2>5 DEF OrderIsLast, End
    <2>6. QED
      BY <1>7, <2>4, <2>5 DEF BookPend
  <1>8. ASSUME NEW r \in running, WebhookInsert(r) PROVE OrderIsLast'
    <2> DEFINE q == [r EXCEPT !.step = "apply", !.seen = Loaded(r)]
    <2>1. running' = (running \ {r}) \cup {q} /\ UNCHANGED <<status, orders, suspended>>
      BY <1>8 DEF WebhookInsert, rowVars
    <2>2. /\ q.op = r.op /\ q.intent = r.intent /\ q.seen = Loaded(r) /\ r.intent \in Intents
          /\ q.step = "apply"
      BY DEF TypeOK, Request
    <2> HIDE DEF q
    <2>3. q.seen = "INIT" => orders[q.intent] = 0
      BY <2>2 DEF OrderIsLast, Loaded
    <2>4. QED
      BY <2>1, <2>2, <2>3 DEF OrderIsLast
  <1>9. ASSUME NEW c \in suspended, AmadeusAnswers(c) PROVE OrderIsLast'
    <2>1. /\ UNCHANGED <<status, running>> /\ \A i \in Intents \ {c.intent} : orders'[i] = orders[i]
          /\ c.intent \in Intents
      BY <1>9 DEF AmadeusAnswers, rowVars, TypeOK, Coroutine
    <2>2. /\ status[c.intent] \notin {"ABSENT", "INIT", "AUTHORIZED"}
          /\ \A r \in running : CountsOnNone(r) => r.intent # c.intent
      BY <2>1 DEF Alone, OneBooking, NoBooking
    <2>3. \A d \in suspended' : d.result = "none" => d \in suspended /\ d.intent # c.intent
      BY <1>9 DEF AmadeusAnswers, Resolve, Alone, OneBooking, TypeOK, Coroutine
    <2>4. (\A d \in suspended : d.intent \in Intents) /\ \A r \in running : r.intent \in Intents
      BY DEF TypeOK, Coroutine, Request
    <2>5. QED
      BY <2>1, <2>2, <2>3, <2>4 DEF OrderIsLast, CountsOnNone
  <1>10. ASSUME NEW w \in Workers, Crash(w) PROVE OrderIsLast'
    <2>1. UNCHANGED status /\ running' = {} /\ suspended' = {}
      <3>1. PICK v : Workers = {v}
        BY ConstantsOK, FS_Singleton DEF OneWorker
      <3>2. (\A c \in suspended : c.worker \in Workers) /\ \A r \in running : r.worker \in Workers
        BY DEF TypeOK, Coroutine, Request
      <3>3. QED
        BY <1>10, <3>1, <3>2 DEF Crash, rowVars
    <2>2. \A i \in Intents : orders'[i] # orders[i] => status[i] \notin {"ABSENT", "INIT", "AUTHORIZED"}
      BY Orders DEF Alone, OneBooking, NoBooking
    <2>3. QED
      BY <2>1, <2>2 DEF OrderIsLast
  <1>11. QED
    BY <1>2, <1>3, <1>4, <1>5, <1>6, <1>7, <1>8, <1>9, <1>10, SoleKinds

\* In production one worker's `book` never orders at Amadeus what an earlier one ordered:
\* for any intents, cancellations, declines, retries of one call and crashes.
THEOREM OrderedOnce == Spec => OneBookOrders
  <1> DEFINE Sole == OneWorker /\ Production
             OInv == Sole => Alone /\ OrderIsLast
  <1>1. Init => OInv
    BY DEF Init, Alone, OneBooking, AuthorizedIs, OrderIsLast, NoBooking
  <1>2. IInv /\ OInv /\ [Next]_vars => OInv'
    <2> SUFFICES ASSUME IInv, OInv, [Next]_vars, Sole PROVE (Alone /\ OrderIsLast)'
      BY DEF OneWorker
    <2>1. Alone'
      BY AuthorizedStep, OneBookingStep DEF Alone, IInv
    <2>2. QED
      BY <2>1, OrderIsLastStep
  <1>3. IInv /\ OInv /\ [Next]_vars
        => [Production /\ Cardinality(Workers) = 1 =>
              \A i \in Intents : orders'[i] # orders[i] => orders[i] = 0]_vars
    BY Orders DEF IInv, OneWorker
  <1> HIDE DEF OInv
  <1>4. QED
    BY <1>1, <1>2, <1>3, Inductive, PTL DEF Spec, OneBookOrders

=============================================================================
