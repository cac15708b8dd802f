-------------------------- MODULE TripContentProofs --------------------------
(***************************************************************************)
(* Proofs about TripContent, for any rows, prices and budget lines: the      *)
(* budget lines made for a stay or a flight (LinksResolve, OneLineEach),     *)
(* what a completed trip keeps (FrozenOnceClosed), and the totals of the     *)
(* budget's summary (SummaryAddsUp), with the facts on sums they rest on.    *)
(***************************************************************************)
EXTENDS TripContent, FiniteSetTheorems, WellFoundedInduction, TLAPS

\* What the requests and the staff do to the two tables the budget is made of.
RowTyped == row \in [Priced -> Row \cup {NoRow}]

LineTyped == line \in [Lines -> Line \cup {NoRow}]

RestTyped ==
    /\ act \in [Acts -> Activity \cup {NoRow}]
    /\ bag \in [Bags -> {NoRow, "unpacked", "packed"}]
    /\ closed \in BOOLEAN /\ req \in {"none", "in"}
    /\ feedback \subseteq Authors /\ staff \in 0..MaxStaff

-----------------------------------------------------------------------------
(* Operations on the lines. *)

\* A line that is written is a line, and the others stay.
LEMMA AddsOne ==
  ASSUME LineTyped, NEW kind \in Kind, NEW x \in Priced \cup {NoId}, NEW a \in Prices,
         NEW planned \in BOOLEAN, Adds(kind, x, a, planned)
  PROVE  LineTyped' /\ \E i \in Lines \ Used :
            /\ Used' = Used \cup {i} /\ line'[i].kind = kind /\ line'[i].of = x
            /\ \A j \in Used : line'[j] = line[j]
  <1>1. PICK i \in Lines \ Used :
           line' = [line EXCEPT ![i] = [kind |-> kind, of |-> x, amount |-> a, planned |-> planned]]
    BY DEF Adds
  <1>2. [kind |-> kind, of |-> x, amount |-> a, planned |-> planned] \in Line
    BY DEF Line
  <1>3. LineTyped'
    BY <1>1, <1>2 DEF LineTyped
  <1>4. line'[i] # NoRow /\ line'[i].kind = kind /\ line'[i].of = x
    BY <1>1, <1>2, NoRowIsNone DEF LineTyped
  <1>5. \A j \in Lines \ {i} : line'[j] = line[j]
    BY <1>1 DEF LineTyped
  <1>6. Used' = Used \cup {i}
    BY <1>4, <1>5 DEF Used
  <1>7. QED
    BY <1>3, <1>4, <1>5, <1>6 DEF Used

LEMMA DropsThem ==
  ASSUME LineTyped, NEW gone \in SUBSET Used, Drops(gone)
  PROVE  LineTyped' /\ Used' = Used \ gone /\ \A j \in Used' : line'[j] = line[j]
  BY DEF LineTyped, Drops, Used

\* A change of a line's amount leaves its source.
LEMMA KeepsSource ==
  ASSUME LineTyped, NEW i \in Used, NEW v, v \in Line, v.kind = line[i].kind, v.of = line[i].of,
         line' = [line EXCEPT ![i] = v]
  PROVE  LineTyped' /\ Used' = Used
         /\ \A j \in Used : line'[j].kind = line[j].kind /\ line'[j].of = line[j].of
  BY NoRowIsNone DEF LineTyped, Used

-----------------------------------------------------------------------------
(* What a step does to the budget lines, and to the rows they are made for. *)

RowsStay == \A x \in Priced : row[x] # NoRow => row'[x] # NoRow

RowGoes == \E x \in Priced : row' = [row EXCEPT ![x] = NoRow] /\ Drops(Linked(x))

Unlinked == \E kind \in Kind, a \in Prices, planned \in BOOLEAN : Adds(kind, NoId, a, planned)

FirstLine ==
    \E x \in Priced, p \in Prices :
        row[x] # NoRow /\ Linked(x) = {} /\ Adds(KindOf(x), x, p, TRUE)

Changed ==
    \E i \in Used, v \in Line :
        v.kind = line[i].kind /\ v.of = line[i].of /\ line' = [line EXCEPT ![i] = v]

LinesMove == line' = line \/ Unlinked \/ FirstLine \/ Changed \/ \E gone \in SUBSET Used : Drops(gone)

ContentMoves == RowGoes \/ (RowsStay /\ LinesMove) \/ (staff' = staff + 1 /\ line' = line)

LEMMA RequestsMove ==
  ASSUME RowTyped, LineTyped, NEW x \in Priced, NEW p \in Prices \cup {0},
         Create(x, p) \/ Update(x, p) \/ Delete(x)
  PROVE  RowTyped' /\ (RowGoes \/ (RowsStay /\ LinesMove))
  <1>0. KindOf(x) \in Kind /\ Linked(x) \subseteq Used /\ NoId \in Priced \cup {NoId}
    BY DEF KindOf, Kind, Linked
  <1>1. CASE Create(x, p)
    <2>1. RowTyped' /\ RowsStay
      <3>1. [price |-> p] \in Row
        BY DEF Row
      <3>2. QED
        BY <1>1, <3>1, NoRowIsNone DEF Create, RowsStay, RowTyped
    <2>2. LinesMove
      <3>1. p # 0 => p \in Prices
        OBVIOUS
      <3>2. QED
        BY <1>0, <1>1, <3>1 DEF Create, LinesMove, Unlinked
    <2>3. QED
      BY <2>1, <2>2
  <1>2. CASE Update(x, p)
    <2>1. row[x] \in Row /\ row' = [row EXCEPT ![x] = [row[x] EXCEPT !.price = p]]
      BY <1>2 DEF Update, RowTyped
    <2>2. [row[x] EXCEPT !.price = p] \in Row
      BY <2>1 DEF Row
    <2>3. RowTyped' /\ RowsStay
      BY <2>1, <2>2, NoRowIsNone DEF RowsStay, RowTyped
    <2>4. CASE p = 0
      BY <1>0, <1>2, <2>3, <2>4 DEF Update, SyncLine, LinesMove
    <2>5. CASE p # 0 /\ Linked(x) = {}
      <3>1. Adds(KindOf(x), x, p, TRUE) /\ row[x] # NoRow /\ p \in Prices
        BY <1>2, <2>5 DEF Update, SyncLine
      <3>2. QED
        BY <2>3, <2>5, <3>1 DEF FirstLine, LinesMove
    <2>6. CASE p # 0 /\ Linked(x) # {}
      <3>1. PICK i \in Linked(x) : line' = [line EXCEPT ![i].amount = p]
        BY <1>2, <2>6 DEF Update, SyncLine
      <3>2. i \in Used /\ line[i] \in Line
        BY <1>0, <3>1 DEF Used, LineTyped
      <3>3. [line[i] EXCEPT !.amount = p] \in Line
        BY <2>6, <3>2 DEF Line
      <3>4. LinesMove
        BY <3>1, <3>2, <3>3 DEF LinesMove, Changed, Line
      <3>5. QED
        BY <2>3, <3>4
    <2>7. QED
      BY <2>4, <2>5, <2>6
  <1>3. CASE Delete(x)
    <2>1. RowGoes
      BY <1>3 DEF Delete, RowGoes
    <2>2. RowTyped'
      BY <1>3 DEF Delete, RowTyped
    <2>3. QED
      BY <2>1, <2>2
  <1>4. QED
    BY <1>1, <1>2, <1>3

LEMMA StepMoves ==
  ASSUME RowTyped, LineTyped, [Next]_vars
  PROVE  RowTyped' /\ ContentMoves
  <1>1. ASSUME UNCHANGED <<row, line>>  PROVE RowTyped' /\ ContentMoves
    BY <1>1 DEF RowTyped, ContentMoves, RowsStay, LinesMove
  <1>2. ASSUME UNCHANGED row, LinesMove  PROVE RowTyped' /\ ContentMoves
    BY <1>2 DEF RowTyped, ContentMoves, RowsStay
  <1>3. CASE StayRequests
    <2>1. PICK x \in Stays, p \in Prices \cup {0} : Create(x, p) \/ Update(x, p) \/ Delete(x)
      BY <1>3 DEF StayRequests, CreateStay, UpdateStay, DeleteStay
    <2>2. QED
      BY <2>1, RequestsMove DEF Priced, ContentMoves
  <1>4. CASE FlightRequests
    <2>1. PICK x \in Flights, p \in Prices \cup {0} : Create(x, p) \/ Update(x, p) \/ Delete(x)
      BY <1>4 DEF FlightRequests, CreateFlight, UpdateFlight, DeleteFlight
    <2>2. QED
      BY <2>1, RequestsMove DEF Priced, ContentMoves
  <1>5. CASE ItemRequests
    <2>1. PICK a \in Prices, planned \in BOOLEAN, i \in Lines :
             CreateItem(a, planned) \/ UpdateItem(i, a, planned) \/ DeleteItem(i)
      BY <1>5 DEF ItemRequests
    <2>2. CASE CreateItem(a, planned)
      BY <1>2, <2>2 DEF CreateItem, LinesMove, Unlinked, Kind
    <2>3. CASE UpdateItem(i, a, planned)
      <3>1. i \in Used /\ line[i] \in Line
        BY <2>3 DEF UpdateItem, Used, LineTyped
      <3>2. [line[i] EXCEPT !.amount = a, !.planned = planned] \in Line
        BY <3>1 DEF Line
      <3>3. line' = [line EXCEPT ![i] = [line[i] EXCEPT !.amount = a, !.planned = planned]]
        BY <2>3, <3>1 DEF UpdateItem, LineTyped
      <3>4. LinesMove
        BY <3>1, <3>2, <3>3 DEF LinesMove, Changed, Line
      <3>5. QED
        BY <1>2, <2>3, <3>4 DEF UpdateItem
    <2>4. CASE DeleteItem(i)
      BY <1>2, <2>4 DEF DeleteItem, LinesMove
    <2>5. QED
      BY <2>1, <2>2, <2>3, <2>4
  <1>6. ASSUME NEW a \in Prices, BookOrder(a)  PROVE RowTyped' /\ ContentMoves
    BY <1>2, <1>6 DEF BookOrder, LinesMove, Unlinked, Kind
  <1>7. CASE Admin
    <2>1. ASSUME NEW x \in Stays, NEW v \in Row \cup {NoRow}, AdminWritesStay(x, v)
          PROVE  RowTyped' /\ ContentMoves
      BY <2>1 DEF AdminWritesStay, StaffActs, RowTyped, Priced, ContentMoves
    <2>2. ASSUME NEW i \in Lines, AdminDeletesItem(i)  PROVE RowTyped' /\ ContentMoves
      BY <1>2, <2>2 DEF AdminDeletesItem, LinesMove
    <2>3. QED
      BY <1>1, <1>7, <2>1, <2>2
         DEF Admin, AdminWritesActivity, AdminDeletesBaggage, AdminReopens, content
  <1>8. CASE ActivityRequests \/ BaggageRequests
    BY <1>1, <1>8 DEF ActivityRequests, CreateActivity, UpdateActivity, DeleteActivity,
         BaggageRequests, CreateBaggage, UpdateBaggage, DeleteBaggage
  <1>9. QED
    BY <1>1, <1>3, <1>4, <1>5, <1>6, <1>7, <1>8
       DEF Next, vars, Load, NotFound, TripCloses, CreateFeedback, content

-----------------------------------------------------------------------------
(* Types. *)

LEMMA LinesTyped ==
  ASSUME LineTyped, ContentMoves  PROVE LineTyped'
  <1>1. ASSUME NEW x \in Priced, Drops(Linked(x))  PROVE LineTyped'
    BY <1>1, DropsThem DEF Linked
  <1>2. CASE Unlinked
    BY <1>2, AddsOne DEF Unlinked
  <1>3. CASE FirstLine
    <2>1. \A x \in Priced : KindOf(x) \in Kind
      BY DEF KindOf, Kind
    <2>2. QED
      BY <1>3, <2>1, AddsOne DEF FirstLine
  <1>4. CASE Changed
    BY <1>4, KeepsSource DEF Changed
  <1>5. QED
    BY <1>1, <1>2, <1>3, <1>4, DropsThem DEF ContentMoves, RowGoes, LinesMove, LineTyped

\* Whatever else it does, a step is a request's commit, a change by the staff, or one of the
\* few that do neither.
LEMMA Controls ==
  ASSUME [Next]_vars
  PROVE  \/ UNCHANGED vars \/ Load \/ TripCloses \/ Editing
         \/ Admin /\ StaffActs /\ closed' \in {closed, FALSE}
         \/ (\E u \in Authors : CreateFeedback(u)) \/ \E a \in Prices : BookOrder(a)
  <1>1. Admin => StaffActs /\ closed' \in {closed, FALSE}
    BY DEF Admin, AdminWritesStay, AdminWritesActivity, AdminDeletesItem, AdminDeletesBaggage,
         AdminReopens
  <1>2. StayRequests \/ FlightRequests \/ ItemRequests \/ ActivityRequests \/ BaggageRequests => Editing
    BY DEF StayRequests, CreateStay, UpdateStay, DeleteStay, FlightRequests, CreateFlight,
         UpdateFlight, DeleteFlight, ItemRequests, CreateItem, UpdateItem, DeleteItem,
         ActivityRequests, CreateActivity, UpdateActivity, DeleteActivity, BaggageRequests,
         CreateBaggage, UpdateBaggage, DeleteBaggage
  <1>3. QED
    BY <1>1, <1>2 DEF Next, NotFound

LEMMA StaffOnlyCounts ==
  ASSUME RestTyped, [Next]_vars  PROVE staff' = 0 => staff = 0
  <1>1. staff' = staff \/ staff' = staff + 1
    BY Controls DEF vars, Load, TripCloses, Editing, StaffActs, CreateFeedback, BookOrder
  <1>2. QED
    BY <1>1, ContentConstantsOK DEF RestTyped

LEMMA RestStep ==
  ASSUME RestTyped, [Next]_vars  PROVE RestTyped'
  <1>1. staff' \in 0..MaxStaff
    <2>1. staff' = staff \/ (staff < MaxStaff /\ staff' = staff + 1)
      BY Controls DEF vars, Load, TripCloses, Editing, StaffActs, CreateFeedback, BookOrder
    <2>2. QED
      BY <2>1, ContentConstantsOK DEF RestTyped
  <1>2. feedback' \subseteq Authors /\ req' \in {"none", "in"}
    BY Controls DEF RestTyped, vars, Load, TripCloses, Editing, StaffActs, CreateFeedback, BookOrder
  <1>3. closed' \in BOOLEAN
    BY Controls DEF RestTyped, vars, Load, TripCloses, Editing, CreateFeedback, BookOrder
  <1>4. act' \in [Acts -> Activity \cup {NoRow}] /\ bag' \in [Bags -> {NoRow, "unpacked", "packed"}]
    <2>1. CASE ActivityRequests
      BY <2>1 DEF RestTyped, ActivityRequests, CreateActivity, UpdateActivity, DeleteActivity
    <2>2. CASE BaggageRequests
      BY <2>2 DEF RestTyped, BaggageRequests, CreateBaggage, UpdateBaggage, DeleteBaggage
    <2>3. CASE Admin
      BY <2>3 DEF RestTyped, Admin, AdminWritesStay, AdminWritesActivity, AdminDeletesItem,
           AdminDeletesBaggage, AdminReopens, content
    <2>4. CASE StayRequests
      BY <2>4 DEF RestTyped, StayRequests, CreateStay, UpdateStay, DeleteStay, Create, Update, Delete
    <2>5. CASE FlightRequests
      BY <2>5 DEF RestTyped, FlightRequests, CreateFlight, UpdateFlight, DeleteFlight, Create,
           Update, Delete
    <2>6. CASE ItemRequests
      BY <2>6 DEF RestTyped, ItemRequests, CreateItem, UpdateItem, DeleteItem
    <2>7. QED
      BY <2>1, <2>2, <2>3, <2>4, <2>5, <2>6
         DEF RestTyped, Next, vars, Load, NotFound, TripCloses, BookOrder, CreateFeedback, content
  <1>5. QED
    BY <1>1, <1>2, <1>3, <1>4 DEF RestTyped

\* Every row, line and counter stays in the domain TypeOK gives it.
THEOREM TypeCorrect == Spec => []TypeOK
  <1>1. TypeOK <=> RowTyped /\ LineTyped /\ RestTyped
    BY DEF TypeOK, RowTyped, LineTyped, RestTyped
  <1>2. Init => TypeOK
    <2> SUFFICES ASSUME Init  PROVE TypeOK
      OBVIOUS
    <2>1. req \in {"none", "in"} /\ feedback \subseteq Authors /\ staff \in 0..MaxStaff
      BY ContentConstantsOK DEF Init
    <2>5. closed \in BOOLEAN
      BY DEF Init
    <2>2. CASE Empty
      BY <2>1, <2>2, <2>5 DEF TypeOK, Empty
    <2>3. CASE Planned
      <3>1. DraftLines \subseteq Line
        <4>1. \A x \in Priced : row[x] # NoRow /\ row[x].price # 0 => row[x].price \in Prices
          BY <2>3 DEF Planned, Row
        <4>2. \A x \in Priced : KindOf(x) \in Kind
          BY DEF KindOf, Kind
        <4>3. \A x \in Priced : row[x] # NoRow /\ row[x].price # 0 => DraftLine(KindOf(x), x) \subseteq Line
          BY <4>1, <4>2, ContentConstantsOK DEF DraftLine, Line, Priced
        <4>4. DraftLine("train", NoId) \cup DraftLine("estimated", NoId) \subseteq Line
          BY DEF DraftLine, Line, Kind
        <4>5. QED
          BY <4>3, <4>4 DEF DraftLines
      <3>2. line \in [Lines -> Line \cup {NoRow}]
        BY <2>3, <3>1 DEF Planned
      <3>3. act \in [Acts -> Activity \cup {NoRow}]
        BY <2>3 DEF Planned, Activity
      <3>4. QED
        BY <2>1, <2>3, <2>5, <3>2, <3>3 DEF TypeOK, Planned
    <2>4. QED
      BY <2>2, <2>3 DEF Init
  <1>3. TypeOK /\ [Next]_vars => TypeOK'
    BY <1>1, StepMoves, LinesTyped, RestStep DEF TypeOK, RowTyped, LineTyped, RestTyped
  <1>4. QED
    BY <1>2, <1>3, PTL DEF Spec

-----------------------------------------------------------------------------
(* The lines made for a stay or a flight. *)

\* A line with a source is of the kind of its source, and its only one, whatever the staff
\* have done; the source is there as long as they have done nothing.
LinkInv ==
    /\ \A i \in Used : line[i].of # NoId => line[i].kind = KindOf(line[i].of)
    /\ \A i, j \in Used : line[i].of # NoId /\ line[i].of = line[j].of => i = j
    /\ staff = 0 => \A i \in Used : line[i].of # NoId => row[line[i].of] # NoRow

LEMMA LinkInit == Init => LinkInv
  <1> SUFFICES ASSUME Init  PROVE LinkInv
    OBVIOUS
  <1>1. CASE Empty
    BY <1>1 DEF Empty, LinkInv, Used
  <1>2. CASE Planned
    <2>1. ASSUME NEW i \in Used, line[i].of # NoId
          PROVE  line[i].kind = KindOf(line[i].of) /\ row[line[i].of] # NoRow
      <3>1. line[i] \in DraftLines
        BY <1>2 DEF Planned, Used
      <3>2. \A l \in DraftLine("train", NoId) \cup DraftLine("estimated", NoId) : l.of = NoId
        BY DEF DraftLine
      <3>3. PICK x \in Priced : row[x] # NoRow /\ line[i] \in DraftLine(KindOf(x), x)
        BY <2>1, <3>1, <3>2 DEF DraftLines
      <3>4. line[i].kind = KindOf(x) /\ line[i].of = x
        BY <3>3 DEF DraftLine
      <3>5. QED
        BY <3>3, <3>4
    <2>2. QED
      BY <1>2, <2>1 DEF Planned, LinkInv
  <1>3. QED
    BY <1>1, <1>2 DEF Init

\* A line added beside the others, with no source or the first of its source.
LEMMA AddedLink ==
  ASSUME LinkInv, RowsStay, staff' = 0 => staff = 0,
         NEW i \in Lines \ Used, Used' = Used \cup {i}, \A j \in Used : line'[j] = line[j],
         LineTyped,
         line'[i].of # NoId =>
             /\ line'[i].of \in Priced /\ row[line'[i].of] # NoRow
             /\ line'[i].kind = KindOf(line'[i].of)
             /\ \A j \in Used : line[j].of # line'[i].of
  PROVE  LinkInv'
  <1>0. \A j \in Used : line[j].of \in Priced \cup {NoId}
    BY DEF Used, LineTyped, Line
  <1>1. \A j \in Used' : line'[j].of # NoId => line'[j].kind = KindOf(line'[j].of)
    BY DEF LinkInv
  <1>2. \A j, k \in Used' : line'[j].of # NoId /\ line'[j].of = line'[k].of => j = k
    BY DEF LinkInv
  <1>3. staff' = 0 => \A j \in Used' : line'[j].of # NoId => row'[line'[j].of] # NoRow
    BY <1>0 DEF LinkInv, RowsStay
  <1>4. QED
    BY <1>1, <1>2, <1>3 DEF LinkInv, KindOf

LEMMA LinkStep ==
  ASSUME LinkInv, RowTyped, LineTyped, RestTyped, [Next]_vars  PROVE LinkInv'
  <1>0. ContentMoves /\ \A i \in Used : line[i].of \in Priced \cup {NoId}
    BY StepMoves DEF Used, LineTyped, Line
  <1>1. CASE RowGoes
    <2>1. PICK x \in Priced : row' = [row EXCEPT ![x] = NoRow] /\ Drops(Linked(x))
      BY <1>1 DEF RowGoes
    <2>2. Used' = Used \ Linked(x) /\ \A j \in Used' : line'[j] = line[j]
      BY <2>1, DropsThem DEF Linked
    <2>3. \A j \in Used' : line[j].of # NoId => line[j].of # x
      BY <2>2 DEF LinkInv, Linked
    <2>4. staff' = 0 => staff = 0
      BY StaffOnlyCounts
    <2>5. QED
      BY <1>0, <2>1, <2>2, <2>3, <2>4 DEF LinkInv, RowTyped, KindOf
  <1>2. CASE RowsStay /\ LinesMove
    <2>0. staff' = 0 => staff = 0
      BY StaffOnlyCounts
    <2>1. ASSUME NEW i \in Lines \ Used, Used' = Used \cup {i}, \A j \in Used : line'[j] = line[j],
                 line'[i].of # NoId =>
                   /\ line'[i].of \in Priced /\ row[line'[i].of] # NoRow
                   /\ line'[i].kind = KindOf(line'[i].of)
                   /\ \A j \in Used : line[j].of # line'[i].of
          PROVE  LinkInv'
      BY <1>2, <2>0, <2>1, AddedLink
    <2>2. CASE Unlinked
      <3>1. PICK i \in Lines \ Used : /\ Used' = Used \cup {i} /\ line'[i].of = NoId
                                      /\ \A j \in Used : line'[j] = line[j]
        BY <2>2, AddsOne DEF Unlinked
      <3>2. QED
        BY <2>1, <3>1
    <2>3. CASE FirstLine
      <3>1. PICK x \in Priced, p \in Prices :
               row[x] # NoRow /\ Linked(x) = {} /\ Adds(KindOf(x), x, p, TRUE)
        BY <2>3 DEF FirstLine
      <3>2. KindOf(x) \in Kind
        BY DEF KindOf, Kind
      <3>3. PICK i \in Lines \ Used : /\ Used' = Used \cup {i} /\ line'[i].kind = KindOf(x)
                                      /\ line'[i].of = x /\ \A j \in Used : line'[j] = line[j]
        BY <3>1, <3>2, AddsOne
      <3>4. \A j \in Used : line[j].of # x
        BY <3>1, ContentConstantsOK DEF LinkInv, Linked, Priced
      <3>5. QED
        BY <2>1, <3>1, <3>3, <3>4
    <2>4. ASSUME Used' \subseteq Used,
                 \A j \in Used' : line'[j].kind = line[j].kind /\ line'[j].of = line[j].of
          PROVE  LinkInv'
      BY <1>0, <1>2, <2>0, <2>4 DEF LinkInv, RowsStay, KindOf
    <2>5. CASE Changed
      BY <2>4, <2>5, KeepsSource DEF Changed
    <2>6. ASSUME NEW gone \in SUBSET Used, Drops(gone)  PROVE LinkInv'
      BY <2>4, <2>6, DropsThem
    <2>7. line' = line => LinkInv'
      BY <2>4 DEF Used
    <2>8. QED
      BY <1>2, <2>2, <2>3, <2>5, <2>6, <2>7 DEF LinesMove
  <1>3. CASE staff' = staff + 1 /\ line' = line
    <2>1. staff' # 0
      BY <1>3, ContentConstantsOK DEF RestTyped
    <2>2. Used' = Used
      BY <1>3 DEF Used
    <2>3. QED
      BY <1>3, <2>1, <2>2 DEF LinkInv, KindOf
  <1>4. QED
    BY <1>0, <1>1, <1>2, <1>3 DEF ContentMoves

\* As long as the staff have changed nothing, a line with a source is the only one of a row
\* that is there: find_by_source finds the line that the price of a row is to be kept in.
THEOREM LinksHold == Spec => []LinksResolve
  <1>1. LinkInv /\ LineTyped => LinksResolve
    <2> SUFFICES ASSUME LinkInv, LineTyped, staff = 0, NEW i \in Used, line[i].of # NoId
                 PROVE  row[line[i].of] # NoRow /\ Linked(line[i].of) = {i}
      BY DEF LinksResolve
    <2>1. row[line[i].of] # NoRow
      BY DEF LinkInv
    <2>2. i \in Linked(line[i].of) /\ \A j \in Linked(line[i].of) : j = i
      BY DEF LinkInv, Linked
    <2>3. QED
      BY <2>1, <2>2
  <1>2. TypeOK => RowTyped /\ LineTyped /\ RestTyped
    BY DEF TypeOK, RowTyped, LineTyped, RestTyped
  <1>3. QED
    BY <1>1, <1>2, TypeCorrect, LinkInit, LinkStep, PTL DEF Spec

\* Whatever the staff delete, no row ever has two lines of its own.
OneLineEach == \A x \in Priced : \A i, j \in Linked(x) : i = j

\* No sequence of creations, updates, deletions and changes by the staff counts a stay or a
\* flight twice through find_by_source.
THEOREM NoDoubleLine == Spec => []OneLineEach
  <1>1. LinkInv => OneLineEach
    BY ContentConstantsOK DEF LinkInv, OneLineEach, Linked, Priced
  <1>2. TypeOK => RowTyped /\ LineTyped /\ RestTyped
    BY DEF TypeOK, RowTyped, LineTyped, RestTyped
  <1>3. QED
    BY <1>1, <1>2, TypeCorrect, LinkInit, LinkStep, PTL DEF Spec

-----------------------------------------------------------------------------
(* A completed trip. *)

\* Once the trip is completed and no request is on its way, only the staff, and the order of
\* a booking in progress, change its content; and feedback waits for the trip's completion.
THEOREM ClosedIsFrozen == Spec => FrozenOnceClosed
  <1>1. ASSUME [Next]_vars, closed, closed', req = "none", ~Admin
        PROVE  /\ req' = "none"
               /\ content' # content => \E a \in Prices : BookOrder(a)
    BY <1>1, Controls DEF vars, content, Load, TripCloses, Editing, CreateFeedback, BookOrder
  <1>2. ASSUME [Next]_vars, feedback' # feedback  PROVE closed
    BY <1>2, Controls DEF vars, Load, TripCloses, Editing, StaffActs, CreateFeedback, BookOrder
  <1>3. QED
    BY <1>1, <1>2, PTL DEF Spec, FrozenOnceClosed

-----------------------------------------------------------------------------
(* Sums over finite sets. *)

\* Induction over the subsets of a finite set: of some of them, one has none of the others
\* below it.  Each use takes the subsets on which a claim fails.
LEMMA LeastSet ==
  ASSUME NEW S, IsFiniteSet(S), NEW T \in SUBSET (SUBSET S), T # {}
  PROVE  \E s \in T : \A t \in T : ~(t \subseteq s /\ t # s)
  <1>1. IsWellFoundedOn(StrictSubsetOrdering(S), FiniteSubsetsOf(S))
    BY FS_StrictSubsetOrderingWellFounded
  <1>2. T \subseteq FiniteSubsetsOf(S)
    BY FS_Subset DEF FiniteSubsetsOf
  <1>3. PICK s \in T : \A t \in T : ~(<<t, s>> \in StrictSubsetOrdering(S))
    BY <1>1, <1>2, WFMin, Zenon
  <1>4. \A t, u \in SUBSET S : <<t, u>> \in StrictSubsetOrdering(S) <=> t \subseteq u /\ t # u
    BY DEF StrictSubsetOrdering
  <1>5. QED
    BY <1>3, <1>4

\* The index the library's fold takes first.
Some(s) == CHOOSE x \in s : TRUE

\* g sums v over every set of indices in S, as the library's definition does.
Sums(g, v, S) ==
    g = [s \in SUBSET S |-> IF s = {} THEN 0 ELSE v[Some(s)] + g[s \ {Some(s)}]]

LEMMA SomeIn == ASSUME NEW s, s # {}  PROVE Some(s) \in s
  BY DEF Some

\* There is one such function at most on each finite set, and one at least; the library's
\* sum is its value.
LEMMA SumsEqual ==
  ASSUME NEW S, IsFiniteSet(S), NEW T, NEW U, S \subseteq T, S \subseteq U, NEW v,
         NEW g, NEW h, Sums(g, v, T), Sums(h, v, U)
  PROVE  g[S] = h[S]
  <1> DEFINE B == {s \in SUBSET S : g[s] # h[s]}
  <1>1. ASSUME B # {}  PROVE FALSE
    <2>1. PICK s \in B : \A t \in B : ~(t \subseteq s /\ t # s)
      <3>1. B \in SUBSET SUBSET S
        OBVIOUS
      <3> HIDE DEF B
      <3>2. QED
        BY <1>1, <3>1, LeastSet
    <2>2. g[s] = (IF s = {} THEN 0 ELSE v[Some(s)] + g[s \ {Some(s)}])
      BY Zenon DEF Sums
    <2>3. h[s] = (IF s = {} THEN 0 ELSE v[Some(s)] + h[s \ {Some(s)}])
      BY Zenon DEF Sums
    <2>4. s # {} => s \ {Some(s)} \in SUBSET S /\ s \ {Some(s)} # s
      BY SomeIn
    <2>5. s # {} => g[s \ {Some(s)}] = h[s \ {Some(s)}]
      BY <2>1, <2>4
    <2>6. QED
      BY <2>2, <2>3, <2>5
  <1>2. QED
    BY <1>1

LEMMA SumsExist ==
  ASSUME NEW S, IsFiniteSet(S), NEW v  PROVE \E g : Sums(g, v, S)
  <1> DEFINE B == {s \in SUBSET S : ~ \E g : Sums(g, v, s)}
             At(s) == CHOOSE g : Sums(g, v, s)
  <1>1. ASSUME B # {}  PROVE FALSE
    <2>1. PICK T \in B : \A t \in B : ~(t \subseteq T /\ t # T)
      <3>1. B \in SUBSET SUBSET S
        OBVIOUS
      <3> HIDE DEF B
      <3>2. QED
        BY <1>1, <3>1, LeastSet
    <2>2. \A s \in SUBSET T : s # T => Sums(At(s), v, s)
      BY <2>1
    <2> DEFINE Less(s) == s \ {Some(s)}
               g == [s \in SUBSET T |-> IF s = {} THEN 0 ELSE v[Some(s)] + At(Less(s))[Less(s)]]
    <2>3. ASSUME NEW s \in SUBSET T, s # T  PROVE g[s] = At(s)[s]
      <3>1. At(s)[s] = (IF s = {} THEN 0 ELSE v[Some(s)] + At(s)[Less(s)])
        <4>1. Sums(At(s), v, s) /\ s \in SUBSET s
          BY <2>2, <2>3
        <4>2. QED
          BY <4>1, Zenon DEF Sums
      <3>2. s # {} => At(s)[Less(s)] = At(Less(s))[Less(s)]
        <4>1. s # {} => Less(s) \in SUBSET T /\ Less(s) # T /\ Less(s) \subseteq s /\ IsFiniteSet(Less(s))
          BY SomeIn, FS_Subset
        <4>2. s # {} => Sums(At(Less(s)), v, Less(s)) /\ Sums(At(s), v, s)
          BY <2>2, <2>3, <4>1
        <4>3. QED
          BY <4>1, <4>2, SumsEqual
      <3>3. g[s] = IF s = {} THEN 0 ELSE v[Some(s)] + At(Less(s))[Less(s)]
        OBVIOUS
      <3>4. QED
        BY <3>1, <3>2, <3>3
    <2>4. ASSUME NEW s \in SUBSET T
          PROVE  g[s] = IF s = {} THEN 0 ELSE v[Some(s)] + g[Less(s)]
      <3>1. s # {} => Less(s) \in SUBSET T /\ Less(s) # T
        BY SomeIn
      <3>2. s # {} => g[Less(s)] = At(Less(s))[Less(s)]
        BY <2>3, <3>1
      <3>3. QED
        BY <3>2
    <2>5. Sums(g, v, T)
      <3>1. g = [s \in SUBSET T |-> g[s]]
        OBVIOUS
      <3>2. \A s \in SUBSET T : g[s] = IF s = {} THEN 0 ELSE v[Some(s)] + g[s \ {Some(s)}]
        BY <2>4
      <3> HIDE DEF g
      <3>3. QED
        BY <3>1, <3>2 DEF Sums
    <2>6. QED
      BY <2>5
  <1>2. QED
    BY <1>1

LEMMA SumIs ==
  ASSUME NEW S, IsFiniteSet(S), NEW v
  PROVE  \E g : Sums(g, v, S) /\ SumFunctionOnSet(v, S) = g[S]
  <1> DEFINE h == CHOOSE g : g = [s \in SUBSET S |-> IF s = {} THEN 0 ELSE v[CHOOSE x \in s : TRUE] + g[s \ {CHOOSE x \in s : TRUE}]]
  <1>1. SumFunctionOnSet(v, S) = h[S]
    BY Zenon DEF SumFunctionOnSet, FoldFunctionOnSet, MapThenFoldSet
  <1>2. \E g : g = [s \in SUBSET S |-> IF s = {} THEN 0 ELSE v[CHOOSE x \in s : TRUE] + g[s \ {CHOOSE x \in s : TRUE}]]
    <2>1. PICK g : Sums(g, v, S)
      BY SumsExist
    <2>2. QED
      BY <2>1, Zenon DEF Sums, Some
  <1>3. h = [s \in SUBSET S |-> IF s = {} THEN 0 ELSE v[CHOOSE x \in s : TRUE] + h[s \ {CHOOSE x \in s : TRUE}]]
    BY <1>2, Zenon
  <1>4. Sums(h, v, S)
    <2> HIDE DEF h
    <2>1. QED
      BY <1>3, Zenon DEF Sums, Some
  <1>5. QED
    BY <1>1, <1>4

\* What the sum over a finite set is: its equations, its type, and the ways to take it apart.
LEMMA SumUnfolds ==
  ASSUME NEW S, IsFiniteSet(S), NEW v
  PROVE  SumFunctionOnSet(v, S) =
           IF S = {} THEN 0 ELSE v[Some(S)] + SumFunctionOnSet(v, S \ {Some(S)})
  <1>1. PICK g : Sums(g, v, S) /\ SumFunctionOnSet(v, S) = g[S]
    BY SumIs
  <1>2. g[S] = IF S = {} THEN 0 ELSE v[Some(S)] + g[S \ {Some(S)}]
    <2>1. S \in SUBSET S
      OBVIOUS
    <2>2. QED
      BY <1>1, <2>1, Zenon DEF Sums
  <1>3. IsFiniteSet(S \ {Some(S)})
    BY FS_Subset
  <1>4. PICK h : Sums(h, v, S \ {Some(S)}) /\ SumFunctionOnSet(v, S \ {Some(S)}) = h[S \ {Some(S)}]
    BY <1>3, SumIs
  <1>5. g[S \ {Some(S)}] = h[S \ {Some(S)}]
    BY <1>1, <1>3, <1>4, SumsEqual
  <1>6. QED
    BY <1>1, <1>2, <1>4, <1>5

LEMMA SumType ==
  ASSUME NEW S, IsFiniteSet(S), NEW v, \A x \in S : v[x] \in Int
  PROVE  SumFunctionOnSet(v, S) \in Int
  <1> DEFINE B == {s \in SUBSET S : SumFunctionOnSet(v, s) \notin Int}
  <1>1. ASSUME B # {}  PROVE FALSE
    <2>1. PICK s \in B : \A t \in B : ~(t \subseteq s /\ t # s)
      <3>1. B \in SUBSET SUBSET S
        OBVIOUS
      <3> HIDE DEF B
      <3>2. QED
        BY <1>1, <3>1, LeastSet
    <2>2. IsFiniteSet(s)
      BY FS_Subset
    <2>3. SumFunctionOnSet(v, s) = IF s = {} THEN 0 ELSE v[Some(s)] + SumFunctionOnSet(v, s \ {Some(s)})
      BY <2>2, SumUnfolds
    <2>4. s # {} => v[Some(s)] \in Int /\ SumFunctionOnSet(v, s \ {Some(s)}) \in Int
      BY <2>1, SomeIn
    <2>5. QED
      BY <2>3, <2>4
  <1>2. QED
    BY <1>1

LEMMA SumRemoves ==
  ASSUME NEW S, IsFiniteSet(S), NEW v, \A x \in S : v[x] \in Int, NEW x \in S
  PROVE  SumFunctionOnSet(v, S) = v[x] + SumFunctionOnSet(v, S \ {x})
  <1> DEFINE F(s) == SumFunctionOnSet(v, s)
             B == {s \in SUBSET S : \E y \in s : F(s) # v[y] + F(s \ {y})}
  <1>1. ASSUME B # {}  PROVE FALSE
    <2>1. PICK s \in B : \A t \in B : ~(t \subseteq s /\ t # s)
      <3>1. B \in SUBSET SUBSET S
        OBVIOUS
      <3> HIDE DEF B
      <3>2. QED
        BY <1>1, <3>1, LeastSet
    <2>2. PICK y \in s : F(s) # v[y] + F(s \ {y})
      OBVIOUS
    <2> DEFINE c == Some(s)
    <2>3. \A t \in SUBSET S : IsFiniteSet(t) /\ F(t) \in Int
      BY FS_Subset, SumType
    <2>4. c \in s /\ F(s) = v[c] + F(s \ {c})
      BY <2>3, SomeIn, SumUnfolds
    <2>5. c # y
      BY <2>2, <2>4
    <2>6. F(s \ {c}) = v[y] + F((s \ {c}) \ {y})
      <3>1. s \ {c} \notin B /\ s \ {c} \in SUBSET S /\ y \in s \ {c}
        BY <2>1, <2>4, <2>5
      <3>2. QED
        BY <3>1
    <2>7. F(s \ {y}) = v[c] + F((s \ {y}) \ {c})
      <3>1. s \ {y} \notin B /\ s \ {y} \in SUBSET S /\ c \in s \ {y}
        BY <2>1, <2>2, <2>4, <2>5
      <3>2. QED
        BY <3>1
    <2>8. (s \ {c}) \ {y} = (s \ {y}) \ {c}
      OBVIOUS
    <2>9. v[c] \in Int /\ v[y] \in Int /\ F((s \ {c}) \ {y}) \in Int
      BY <2>2, <2>3, <2>4
    <2> HIDE DEF F, c
    <2>10. \A i, j, k \in Int : i + (j + k) = j + (i + k)
      OBVIOUS
    <2>11. v[c] + (v[y] + F((s \ {c}) \ {y})) = v[y] + (v[c] + F((s \ {c}) \ {y}))
      BY <2>9, <2>10
    <2>12. F(s) = v[y] + F(s \ {y})
      BY <2>4, <2>6, <2>7, <2>8, <2>11
    <2>13. QED
      BY <2>2, <2>12
  <1>2. QED
    BY <1>1

LEMMA SumSplits ==
  ASSUME NEW S, IsFiniteSet(S), NEW v, \A x \in S : v[x] \in Int, NEW T \in SUBSET S
  PROVE  SumFunctionOnSet(v, S) = SumFunctionOnSet(v, T) + SumFunctionOnSet(v, S \ T)
  <1> DEFINE F(s) == SumFunctionOnSet(v, s)
             B == {s \in SUBSET S : F(S) # F(s) + F(S \ s)}
  <1>0. \A t \in SUBSET S : IsFiniteSet(t) /\ F(t) \in Int
    BY FS_Subset, SumType
  <1>1. ASSUME B # {}  PROVE FALSE
    <2>1. PICK s \in B : \A t \in B : ~(t \subseteq s /\ t # s)
      <3>1. B \in SUBSET SUBSET S
        OBVIOUS
      <3> HIDE DEF B
      <3>2. QED
        BY <1>1, <3>1, LeastSet
    <2>2. CASE s = {}
      <3>1. F(s) = 0 /\ S \ s = S /\ F(S) \in Int /\ F(S) # F(s) + F(S \ s)
        BY <1>0, <2>2, SumUnfolds
      <3>2. \A i \in Int : 0 + i = i
        OBVIOUS
      <3> HIDE DEF F
      <3>3. QED
        BY <3>1, <3>2
    <2>3. CASE s # {}
      <3>1. PICK y \in s : TRUE
        BY <2>3
      <3>2. F(S) = F(s \ {y}) + F(S \ (s \ {y}))
        BY <2>1, <3>1
      <3>3. F(s) = v[y] + F(s \ {y})
        BY <1>0, <3>1, SumRemoves
      <3>4. F(S \ (s \ {y})) = v[y] + F((S \ (s \ {y})) \ {y})
        BY <1>0, <3>1, SumRemoves
      <3>5. (S \ (s \ {y})) \ {y} = S \ s
        BY <3>1
      <3>6. v[y] \in Int /\ F(s \ {y}) \in Int /\ F(S \ s) \in Int /\ F(S) # F(s) + F(S \ s)
        BY <1>0, <3>1
      <3> HIDE DEF F
      <3>7. \A i, j, k \in Int : j + (i + k) = (i + j) + k
        OBVIOUS
      <3>8. F(s \ {y}) + (v[y] + F(S \ s)) = (v[y] + F(s \ {y})) + F(S \ s)
        BY <3>6, <3>7
      <3>9. F(S) = F(s) + F(S \ s)
        BY <3>2, <3>3, <3>4, <3>5, <3>8
      <3>10. QED
        BY <3>6, <3>9
    <2>4. QED
      BY <2>2, <2>3
  <1>2. QED
    BY <1>1

LEMMA SumAgrees ==
  ASSUME NEW S, IsFiniteSet(S), NEW v, NEW w, \A x \in S : v[x] \in Int /\ w[x] = v[x]
  PROVE  SumFunctionOnSet(w, S) = SumFunctionOnSet(v, S)
  <1> DEFINE B == {s \in SUBSET S : SumFunctionOnSet(w, s) # SumFunctionOnSet(v, s)}
  <1>1. ASSUME B # {}  PROVE FALSE
    <2>1. PICK s \in B : \A t \in B : ~(t \subseteq s /\ t # s)
      <3>1. B \in SUBSET SUBSET S
        OBVIOUS
      <3> HIDE DEF B
      <3>2. QED
        BY <1>1, <3>1, LeastSet
    <2>2. IsFiniteSet(s)
      BY FS_Subset
    <2>3. CASE s = {}
      BY <2>2, <2>3, SumUnfolds
    <2>4. CASE s # {}
      <3>1. PICK x \in s : TRUE
        BY <2>4
      <3>2. SumFunctionOnSet(w, s \ {x}) = SumFunctionOnSet(v, s \ {x})
        BY <2>1, <3>1
      <3>3. SumFunctionOnSet(v, s) = v[x] + SumFunctionOnSet(v, s \ {x})
        BY <2>2, SumRemoves
      <3>4. SumFunctionOnSet(w, s) = w[x] + SumFunctionOnSet(w, s \ {x})
        BY <2>2, SumRemoves
      <3>5. QED
        BY <3>2, <3>3, <3>4
    <2>5. QED
      BY <2>3, <2>4
  <1>2. QED
    BY <1>1

\* A sum is the sum of the sums over the classes of a partition.
LEMMA SumByClass ==
  ASSUME NEW S, IsFiniteSet(S), NEW v, \A x \in S : v[x] \in Int,
         NEW C, IsFiniteSet(C), NEW k, \A x \in S : k[x] \in C,
         NEW w, \A c \in C : \E T \in SUBSET S : /\ w[c] = SumFunctionOnSet(v, T)
                                              /\ \A x \in S : x \in T <=> k[x] = c
  PROVE  SumFunctionOnSet(v, S) = SumFunctionOnSet(w, C)
  <1> DEFINE In(D) == {x \in S : k[x] \in D}
             B == {D \in SUBSET C : SumFunctionOnSet(v, In(D)) # SumFunctionOnSet(w, D)}
  <1>0. ASSUME NEW c \in C  PROVE w[c] \in Int
    <2>1. PICK T \in SUBSET S : w[c] = SumFunctionOnSet(v, T)
      OBVIOUS
    <2>2. IsFiniteSet(T) /\ \A x \in T : v[x] \in Int
      BY FS_Subset
    <2>3. QED
      BY <2>1, <2>2, SumType
  <1>1. ASSUME B # {}  PROVE FALSE
    <2>1. PICK D \in B : \A E \in B : ~(E \subseteq D /\ E # D)
      <3>1. B \in SUBSET SUBSET C
        OBVIOUS
      <3> HIDE DEF B
      <3>2. QED
        BY <1>1, <3>1, LeastSet
    <2>2. IsFiniteSet(D) /\ IsFiniteSet(In(D)) /\ In(D) \subseteq S
      BY FS_Subset
    <2>3. CASE D = {}
      <3>1. In(D) = {}
        BY <2>3
      <3>2. SumFunctionOnSet(v, In(D)) = 0 /\ SumFunctionOnSet(w, D) = 0
        BY <2>2, <2>3, <3>1, SumUnfolds
      <3>3. QED
        BY <3>2
    <2>4. CASE D # {}
      <3>1. PICK c \in D : TRUE
        BY <2>4
      <3>2. SumFunctionOnSet(v, In(D \ {c})) = SumFunctionOnSet(w, D \ {c})
        BY <2>1, <3>1
      <3>3. SumFunctionOnSet(w, D) = w[c] + SumFunctionOnSet(w, D \ {c})
        BY <1>0, <2>2, SumRemoves
      <3>4. PICK T \in SUBSET S : w[c] = SumFunctionOnSet(v, T) /\ \A x \in S : x \in T <=> k[x] = c
        BY <3>1
      <3>5. SumFunctionOnSet(v, In(D)) = w[c] + SumFunctionOnSet(v, In(D \ {c}))
        <4>1. \A x \in In(D) : v[x] \in Int
          OBVIOUS
        <4>2. T \in SUBSET In(D) /\ In(D) \ T = In(D \ {c})
          BY <3>1, <3>4
        <4>3. IsFiniteSet(In(D))
          BY <2>2
        <4> HIDE DEF In
        <4>4. SumFunctionOnSet(v, In(D)) = SumFunctionOnSet(v, T) + SumFunctionOnSet(v, In(D) \ T)
          BY <4>1, <4>2, <4>3, SumSplits
        <4>5. QED
          BY <3>4, <4>2, <4>4
      <3>6. QED
        BY <3>2, <3>3, <3>5
    <2>5. QED
      BY <2>3, <2>4
  <1>2. In(C) = S /\ C \notin B
    BY <1>1
  <1>3. QED
    BY <1>2

-----------------------------------------------------------------------------
(* The totals of the budget. *)

\* The rows are finitely many, and what each adds is a number.
LEMMA Addends ==
  ASSUME TypeOK
  PROVE  /\ IsFiniteSet(Used) /\ \A i \in Used : Amount[i] \in Int
         /\ IsFiniteSet(DOMAIN Cost) /\ \A a \in DOMAIN Cost : Cost[a] \in Int
  <1>1. IsFiniteSet(Used) /\ IsFiniteSet(DOMAIN Cost)
    BY ContentConstantsOK, FS_Subset DEF Used, Cost
  <1>2. \A i \in Used : Amount[i] \in Int
    BY ContentConstantsOK DEF TypeOK, Used, Amount, Line
  <1>3. \A a \in DOMAIN Cost : Cost[a] \in Int
    <2>1. \A a \in Acts : act[a] # NoRow => act[a] \in Activity
      BY DEF TypeOK
    <2>2. \A v \in Activity : v.cost \in {0} \cup Prices \cup {-p : p \in Prices}
      BY DEF Activity
    <2>3. {0} \cup Prices \cup {-p : p \in Prices} \subseteq Int
      <3>1. \A p \in Prices : p \in Int /\ -p \in Int
        BY ContentConstantsOK
      <3>2. QED
        BY <3>1
    <2>4. QED
      BY <2>1, <2>2, <2>3 DEF Cost
  <1>4. QED
    BY <1>1, <1>2, <1>3

\* The separate loops of get_budget_summary agree for any number of budget lines and
\* activities of any amounts and status, whatever the lines were made for: an amount is
\* confirmed or forecast, never both, but for an activity whose status is neither, and it is
\* counted in one category, but for activities that cost less than nothing together.
THEOREM TotalsAgree == Spec => []SummaryAddsUp
  <1>1. ASSUME TypeOK  PROVE SummaryAddsUp
    <2> DEFINE known == {i \in Used : line[i].kind # "none" \/ ~line[i].planned}
               ahead == {i \in Used : line[i].kind = "none" /\ line[i].planned}
               costs(vals) == {a \in DOMAIN Cost : act[a].val \in vals}
    <2>0. \A l \in SUBSET Used : Sum(l) \in Int
      <3>1. \A l \in SUBSET Used : IsFiniteSet(l)
        BY <1>1, Addends, FS_Subset
      <3>2. QED
        BY <1>1, <3>1, Addends, SumType DEF Sum
    <2>1. \A vals : Costs(vals) \in Int
      <3>1. \A vals : IsFiniteSet(costs(vals)) /\ costs(vals) \subseteq DOMAIN Cost
        BY <1>1, Addends, FS_Subset
      <3>2. \A vals : Costs(vals) = SumFunctionOnSet(Cost, costs(vals))
        BY DEF Costs
      <3> HIDE DEF costs
      <3>3. QED
        BY <1>1, <3>1, <3>2, Addends, SumType
    <2>2. Sum(Used) = Sum(known) + Sum(ahead)
      <3>1. Used \ known = ahead /\ known \subseteq Used
        BY <1>1 DEF TypeOK, Used, Line
      <3> HIDE DEF known, ahead
      <3>2. QED
        BY <1>1, <3>1, Addends, SumSplits DEF Sum
    <2>3. Costs(Vals) = Costs({"VALIDATED"}) + Costs({"SUGGESTED"}) + Costs({"neither"})
      <3> DEFINE all == costs(Vals)
                 sorted == costs({"SUGGESTED", "VALIDATED"})
                 valid == costs({"VALIDATED"})
      <3>1. /\ all \ sorted = costs({"neither"}) /\ sorted \subseteq all
            /\ sorted \ valid = costs({"SUGGESTED"}) /\ valid \subseteq sorted
        BY DEF Vals
      <3>2. /\ IsFiniteSet(all) /\ \A a \in all : Cost[a] \in Int
            /\ IsFiniteSet(sorted) /\ \A a \in sorted : Cost[a] \in Int
        BY <1>1, Addends, FS_Subset
      <3>3. \A vals : Costs(vals) = SumFunctionOnSet(Cost, costs(vals))
        BY DEF Costs
      <3> HIDE DEF costs
      <3>4. SumFunctionOnSet(Cost, all) = SumFunctionOnSet(Cost, sorted) + SumFunctionOnSet(Cost, all \ sorted)
        BY <3>1, <3>2, SumSplits
      <3>5. SumFunctionOnSet(Cost, sorted) = SumFunctionOnSet(Cost, valid) + SumFunctionOnSet(Cost, sorted \ valid)
        BY <3>1, <3>2, SumSplits
      <3>6. QED
        BY <3>1, <3>3, <3>4, <3>5
    <2>4. Spent = Confirmed + Forecast + Costs({"neither"})
      <3>1. Sum(known) \in Int /\ Sum(ahead) \in Int
        BY <2>0
      <3>2. Spent = Sum(Used) + Costs(Vals)
        BY DEF Spent
      <3>3. Confirmed = Sum(known) + Costs({"VALIDATED"}) /\ Forecast = Sum(ahead) + Costs({"SUGGESTED"})
        BY DEF Confirmed, Forecast
      <3> HIDE DEF known, ahead
      <3>4. QED
        BY <2>1, <2>2, <2>3, <3>1, <3>2, <3>3
    <2>5. Spent = SumFunctionOnSet([c \in Categories |-> ByCategory(c)], Categories)
                    + (IF Costs(Vals) > 0 THEN 0 ELSE Costs(Vals))
      <3> DEFINE k == [i \in Used |-> Category[line[i].kind]]
                 w == [c \in Categories |-> SumFunctionOnSet(Amount, {i \in Used : k[i] = c})]
                 b == [c \in Categories |-> ByCategory(c)]
                 rest == Categories \ {"ACTIVITY"}
                 spent == IF Costs(Vals) > 0 THEN Costs(Vals) ELSE 0
      <3>1. IsFiniteSet(Categories) /\ IsFiniteSet(rest)
        <4>1. Categories = {"FLIGHT"} \cup {"ACCOMMODATION"} \cup {"FOOD"} \cup {"ACTIVITY"}
                             \cup {"TRANSPORT"} \cup {"OTHER"}
          BY DEF Categories
        <4>2. IsFiniteSet(Categories)
          BY <4>1, FS_Singleton, FS_Union
        <4>3. QED
          BY <4>2, FS_Subset
      <3>2. \A i \in Used : k[i] \in Categories
        BY <1>1 DEF TypeOK, Used, Line, Kind, Category, Categories
      <3>3. Sum(Used) = SumFunctionOnSet(w, Categories)
        <4>1. \A c \in Categories : \E T \in SUBSET Used :
                 w[c] = SumFunctionOnSet(Amount, T) /\ \A i \in Used : i \in T <=> k[i] = c
          <5>1. \A c \in Categories : w[c] = SumFunctionOnSet(Amount, {i \in Used : k[i] = c})
            OBVIOUS
          <5> HIDE DEF w
          <5>2. ASSUME NEW c \in Categories
                PROVE  \E T \in SUBSET Used :
                         w[c] = SumFunctionOnSet(Amount, T) /\ \A i \in Used : i \in T <=> k[i] = c
            <6> DEFINE T == {i \in Used : k[i] = c}
            <6>1. T \in SUBSET Used /\ \A i \in Used : i \in T <=> k[i] = c
              OBVIOUS
            <6>2. w[c] = SumFunctionOnSet(Amount, T)
              BY <5>1
            <6> HIDE DEF T
            <6>3. QED
              BY <6>1, <6>2
          <5>3. QED
            BY <5>2
        <4> HIDE DEF k, w
        <4>2. QED
          BY <1>1, <3>1, <3>2, <4>1, Addends, SumByClass DEF Sum
      <3>4. \A c \in Categories : w[c] \in Int /\ b[c] = w[c] + (IF c = "ACTIVITY" THEN spent ELSE 0)
        <4>1. \A c \in Categories : {i \in Used : k[i] = c} = {i \in Used : Category[line[i].kind] = c}
          OBVIOUS
        <4>2. \A c \in Categories : w[c] = Sum({i \in Used : Category[line[i].kind] = c})
          BY <4>1 DEF Sum
        <4>3. \A c \in Categories : w[c] \in Int
          <5> HIDE DEF w
          <5>1. QED
            BY <2>0, <4>2
        <4>4. \A c \in Categories : b[c] = w[c] + (IF c = "ACTIVITY" THEN spent ELSE 0)
          <5> HIDE DEF w
          <5>1. ASSUME NEW c \in Categories
                PROVE  ByCategory(c) = w[c] + (IF c = "ACTIVITY" THEN spent ELSE 0)
            BY <4>2, <4>3, <2>1 DEF ByCategory
          <5>2. QED
            BY <5>1
        <4>5. QED
          BY <4>3, <4>4
      <3>5. spent \in Int
        BY <2>1
      <3>6. "ACTIVITY" \in Categories
        BY DEF Categories
      <3> HIDE DEF w, b, spent
      <3>7. \A c \in Categories : b[c] \in Int /\ (c # "ACTIVITY" => b[c] = w[c])
        BY <3>4, <3>5
      <3>8. SumFunctionOnSet(b, Categories) = b["ACTIVITY"] + SumFunctionOnSet(b, rest)
        BY <3>1, <3>6, <3>7, SumRemoves
      <3>9. SumFunctionOnSet(w, Categories) = w["ACTIVITY"] + SumFunctionOnSet(w, rest)
        BY <3>1, <3>4, <3>6, SumRemoves
      <3>10. SumFunctionOnSet(b, rest) = SumFunctionOnSet(w, rest)
        BY <3>1, <3>4, <3>7, SumAgrees
      <3>11. SumFunctionOnSet(w, rest) \in Int
        BY <3>1, <3>4, SumType
      <3>12. b["ACTIVITY"] = w["ACTIVITY"] + spent /\ w["ACTIVITY"] \in Int
        BY <3>4, <3>6
      <3>13. SumFunctionOnSet(b, Categories) = Sum(Used) + spent
        BY <3>3, <3>5, <3>8, <3>9, <3>10, <3>11, <3>12
      <3>14. Sum(Used) \in Int /\ Costs(Vals) \in Int
        BY <2>0, <2>1
      <3>15. Spent = Sum(Used) + spent + (IF Costs(Vals) > 0 THEN 0 ELSE Costs(Vals))
        BY <3>14 DEF Spent, spent
      <3>16. QED
        BY <3>13, <3>14, <3>15 DEF b
    <2>6. QED
      BY <2>4, <2>5 DEF SummaryAddsUp
  <1>2. QED
    BY <1>1, TypeCorrect, PTL

=============================================================================
