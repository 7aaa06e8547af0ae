--------------------------- MODULE LaboratoryProofs ---------------------------
(***************************************************************************)
(* The laboratory's calls side by side and devices' pushes between them,   *)
(* for any samples, parameters, limits and any number of calls: a breach   *)
(* an analyst entered is followed up, cases are documented, and what a     *)
(* certificate shows was settled.                                          *)
(***************************************************************************)
EXTENDS Laboratory, FiniteSetTheorems, TLAPS

-----------------------------------------------------------------------------
(* What every interleaving keeps.  The predicates speak of a call r and of a *)
(* table of cases, so that they can be read before and after a step.         *)

ResultRow ==
  [value : Int \cup {Open}, oos : BOOLEAN, verified : BOOLEAN, seen : BOOLEAN,
   via : {"none", "entry", "push"}]

SampleShape(r) == r = [status |-> r.status, owner |-> r.owner, collector |-> r.collector]
\* The texts a case has for the stage it has reached.
CaseDocumented(r) ==
  /\ r.status \in {"CAPA_DEFINED", "EFFECTIVENESS_CHECK", "CLOSED"} => r.capa
  /\ r.status = "CLOSED" => r.cause
CaseShape(r) ==
  /\ r = [status |-> r.status, cell |-> r.cell, severity |-> r.severity, cause |-> r.cause, capa |-> r.capa]
  /\ r = NoCase \/ r.status \in DOMAIN OOS_TRANSITIONS
  /\ CaseDocumented(r)

CaseTable(t) == DOMAIN t = CaseId /\ t = [k \in CaseId |-> t[k]] /\ \A k \in CaseId : CaseShape(t[k])
SampleTable(t) == DOMAIN t = Sample /\ t = [s \in Sample |-> t[s]] /\ \A s \in Sample : SampleShape(t[s])

\* A case some transaction opened and committed.
HasCase(x, t) == \E k \in CaseId : t[k] # NoCase /\ t[k].cell = x

IsEntry(r) ==
  /\ r = EntryCall(r.s, r.items, r.rows, r.cases)
  /\ r.s \in Sample
  /\ DOMAIN r.items \subseteq Param /\ \A p \in DOMAIN r.items : r.items[p] \in Int
  /\ \A x \in DOMAIN r.rows : x \in Cell /\ x[1] = r.s /\ r.rows[x] \in ResultRow /\ ~r.rows[x].verified
  /\ DOMAIN r.cases \subseteq CaseId

IsReview(r) ==
  /\ r = ReviewCall(r.x, r.decision, r.read, r.was)
  /\ r.x \in Cell /\ r.read \in [value : Int \cup {Open}, oos : BOOLEAN] /\ r.decision \in {"VERIFIED", "REJECTED"}

IsReviewed(r) ==
  /\ r = ReviewedCall(r.x, r.rows[r.x], r.was, r.new)
  /\ r.x \in Cell /\ r.rows[r.x] \in ResultRow

IsUpdate(r) == r = CaseCall(r.k, r.next) /\ r.k \in CaseId /\ CaseShape(r.next)

IsPrint(r) == r = PrintCall(r.at, r.s, r.status, r.read) /\ r.s \in Sample

CallShape(r) ==
  \/ r = LabIdle
  \/ r.at = "items" /\ IsEntry(r)
  \/ r.at = "review" /\ IsReview(r)
  \/ r.at = "reviewed" /\ IsReviewed(r)
  \/ r.at = "case" /\ IsUpdate(r)
  \/ r.at \in {"rows", "gate", "issued"} /\ IsPrint(r)

\* An entry's cases belong to results of its own, and stay with the result they are of.
OwnCases(r, t) ==
  \A k \in DOMAIN r.cases :
    /\ CaseShape(r.cases[k]) /\ OosOpen(r.cases[k].status)
    /\ r.cases[k].cell \in DOMAIN r.rows
    /\ t[k] # NoCase => t[k].cell = r.cases[k].cell /\ t[k].status = r.cases[k].status

\* Every breach a call has written has a case, in the table or in the same transaction.
FollowedUp(r, t) ==
  \A x \in DOMAIN r.rows : EnteredBreach(x, r.rows[x]) =>
    HasCase(x, t) \/ \E k \in DOMAIN r.cases : r.cases[k].cell = x

\* What a call has read: a case stays with the result it is of, and a breach read for a
\* certificate has one.
Remembers(r, t) ==
  /\ r.at = "gate" => \A p \in DOMAIN r.read :
       p \in Param /\ (EnteredBreach(<<r.s, p>>, r.read[p]) => HasCase(<<r.s, p>>, t))
  /\ r.at = "case" => t[r.k] # NoCase /\ r.next # NoCase /\ r.next.cell = t[r.k].cell

CallOK(r, t) == CallShape(r) /\ OwnCases(r, t) /\ FollowedUp(r, t) /\ Remembers(r, t)

\* A row has one writer at a time.
Apart(r, q) == DOMAIN r.rows \cap DOMAIN q.rows = {} /\ DOMAIN r.cases \cap DOMAIN q.cases = {}

Calls(f, t) ==
  /\ DOMAIN f = LabCall /\ f = [c \in LabCall |-> f[c]]
  /\ \A c \in LabCall : CallOK(f[c], t)
  /\ \A c, d \in LabCall : c # d => Apart(f[c], f[d])

LabInv ==
  /\ SampleTable(sample) /\ result \in [Cell -> ResultRow] /\ CaseTable(oosCase)
  /\ Calls(labCall, oosCase)
  /\ \A x \in Cell : EnteredBreach(x, result[x]) => HasCase(x, oosCase)

-----------------------------------------------------------------------------
(* The records and rows of calls.                                            *)

\* A call is of the kind its place says.
LEMMA CallKinds ==
  ASSUME NEW r, CallShape(r)
  PROVE  /\ r.at = "idle" => r = LabIdle
         /\ r.at = "items" => IsEntry(r) /\ r.kind = "enter"
         /\ r.at = "review" => IsReview(r) /\ r.kind = "review"
         /\ r.at = "reviewed" => IsReviewed(r) /\ r.kind = "review"
         /\ r.at = "case" => IsUpdate(r) /\ r.kind = "case"
         /\ r.at \in {"rows", "gate", "issued"} => IsPrint(r) /\ r.kind = "print"
         /\ r.at \in {"idle", "items", "review", "reviewed", "case", "rows", "gate", "issued"}
  BY DEF CallShape, LabIdle, IsEntry, EntryCall, IsReview, ReviewCall, IsReviewed, ReviewedCall,
         IsUpdate, CaseCall, IsPrint, PrintCall

\* The rows of a call that wrote nothing.
LEMMA NothingWritten == DOMAIN NoRows = {}
  BY DEF NoRows

\* A row more.
LEMMA WithRow ==
  ASSUME NEW rows, NEW x, NEW row
  PROVE  /\ DOMAIN With(rows, x, row) = DOMAIN rows \cup {x}
         /\ With(rows, x, row)[x] = row
         /\ \A y \in DOMAIN rows : y # x => With(rows, x, row)[y] = rows[y]
  BY DEF With

\* Who holds rows: entries and reviews that have written; cases, entries only.
LEMMA RowsOfCalls ==
  ASSUME NEW r, CallShape(r)
  PROVE  /\ r.at # "items" => DOMAIN r.cases = {}
         /\ r.at \notin {"items", "reviewed"} => DOMAIN r.rows = {}
         /\ r.at = "reviewed" => DOMAIN r.rows = {r.x}
         /\ DOMAIN r.rows \subseteq Cell /\ DOMAIN r.cases \subseteq CaseId
         /\ \A x \in DOMAIN r.rows : r.rows[x] \in ResultRow
<1>1. r.at # "items" => r.cases = NoRows
  BY CallKinds DEF LabIdle, IsReview, ReviewCall, IsReviewed, ReviewedCall, IsUpdate, CaseCall, IsPrint, PrintCall
<1>2. r.at \notin {"items", "reviewed"} => r.rows = NoRows
  BY CallKinds DEF LabIdle, IsReview, ReviewCall, IsUpdate, CaseCall, IsPrint, PrintCall
<1>3. ASSUME r.at = "reviewed"
      PROVE  DOMAIN r.rows = {r.x} /\ r.x \in Cell /\ r.rows[r.x] \in ResultRow
  <2>0. IsReviewed(r)
    BY <1>3, CallKinds
  <2>1. r.rows = With(NoRows, r.x, r.rows[r.x])
    BY <2>0 DEF IsReviewed, ReviewedCall
  <2>2. DOMAIN With(NoRows, r.x, r.rows[r.x]) = DOMAIN NoRows \cup {r.x}
    BY DEF With
  <2>3. r.x \in Cell /\ r.rows[r.x] \in ResultRow
    BY <2>0 DEF IsReviewed
  <2> QED BY <2>1, <2>2, <2>3, NothingWritten
<1>4. ASSUME r.at = "items"
      PROVE  /\ DOMAIN r.rows \subseteq Cell /\ DOMAIN r.cases \subseteq CaseId
             /\ \A x \in DOMAIN r.rows : r.rows[x] \in ResultRow
  BY <1>4, CallKinds DEF IsEntry
<1> QED BY <1>1, <1>2, <1>3, <1>4, NothingWritten

\* Writing a table's rows into it.
LEMMA CommitRows ==
  ASSUME NEW t, NEW rows
  PROVE  /\ DOMAIN Committed(t, rows) = DOMAIN t
         /\ \A x \in DOMAIN t : x \in DOMAIN rows => Committed(t, rows)[x] = rows[x]
         /\ \A x \in DOMAIN t : x \notin DOMAIN rows => Committed(t, rows)[x] = t[x]
  BY DEF Committed

\* A case nobody opened is not open.
LEMMA NoCaseIsClosed == ~OosOpen(NoCase.status)
  BY DEF NoCase, OosOpen, OOS_TRANSITIONS

\* An open case is a case.
LEMMA OpenIsACase ==
  ASSUME NEW k, NEW t, OosOpen(t[k].status)
  PROVE  t[k] # NoCase
  BY NoCaseIsClosed

-----------------------------------------------------------------------------
(* Steps: what a call keeps while the table of cases changes beside it.      *)

\* The table went on: cases stay with their results.
Later(t, u) == \A k \in CaseId : t[k] # NoCase => u[k] # NoCase /\ u[k].cell = t[k].cell

\* A case of a result stays one as the table goes on.
LEMMA CasesStay ==
  ASSUME NEW t, NEW u, Later(t, u), NEW x, HasCase(x, t)
  PROVE  HasCase(x, u)
  BY DEF Later, HasCase

\* A call goes on being right when the table goes on and its own cases are left alone.
LEMMA CallKept ==
  ASSUME NEW t, NEW u, Later(t, u), NEW r, CallOK(r, t),
         \A k \in DOMAIN r.cases : u[k] = t[k]
  PROVE  CallOK(r, u)
<1>1. CallShape(r)
  BY DEF CallOK
<1>2. OwnCases(r, u)
  BY DEF CallOK, OwnCases
<1>3. FollowedUp(r, u)
  BY CasesStay DEF CallOK, FollowedUp
<1>4. Remembers(r, u)
  <2>1. r.at = "gate" => \A p \in DOMAIN r.read :
          p \in Param /\ (EnteredBreach(<<r.s, p>>, r.read[p]) => HasCase(<<r.s, p>>, u))
    BY CasesStay DEF CallOK, Remembers
  <2>2. r.at = "case" => r.k \in CaseId
    BY <1>1, CallKinds DEF IsUpdate
  <2> QED BY <2>1, <2>2 DEF CallOK, Remembers, Later
<1> QED BY <1>1, <1>2, <1>3, <1>4 DEF CallOK

\* One call moves, its rows apart from the others', while the table goes on.
LEMMA CallMoves ==
  ASSUME NEW f, NEW t, Calls(f, t), NEW c \in LabCall, NEW r,
         NEW u, Later(t, u), CallOK(r, u),
         \A d \in LabCall \ {c} : /\ Apart(r, f[d]) /\ \A k \in DOMAIN f[d].cases : u[k] = t[k]
  PROVE  Calls([f EXCEPT ![c] = r], u)
<1> DEFINE g == [f EXCEPT ![c] = r]
<1>1. DOMAIN g = LabCall /\ g = [d \in LabCall |-> g[d]]
  BY DEF Calls
<1>2. g[c] = r /\ \A d \in LabCall : d # c => g[d] = f[d]
  BY DEF Calls
<1> HIDE DEF g
<1>3. \A d \in LabCall : CallOK(g[d], u)
  <2>1. ASSUME NEW d \in LabCall, d # c
        PROVE  CallOK(f[d], u)
    BY <2>1, CallKept DEF Calls
  <2> QED BY <1>2, <2>1
<1>4. \A d, e \in LabCall : d # e => Apart(g[d], g[e])
  <2>1. \A d \in LabCall : d # c => Apart(r, f[d]) /\ Apart(f[d], r)
    BY DEF Apart
  <2> QED BY <1>2, <2>1 DEF Calls
<1> QED BY <1>1, <1>3, <1>4 DEF Calls, g

\* A call that holds nothing is apart from every other.
LEMMA NothingHeld ==
  ASSUME NEW r, NEW q, DOMAIN r.rows = {}, DOMAIN r.cases = {}
  PROVE  Apart(r, q)
  BY DEF Apart

\* An idle call is right whatever the table is.
LEMMA IdleOK ==
  ASSUME NEW t
  PROVE  CallOK(LabIdle, t) /\ DOMAIN LabIdle.rows = {} /\ DOMAIN LabIdle.cases = {}
<1>1. DOMAIN LabIdle.rows = {} /\ DOMAIN LabIdle.cases = {} /\ LabIdle.at = "idle"
  BY NothingWritten DEF LabIdle
<1> QED BY <1>1 DEF CallOK, CallShape, OwnCases, FollowedUp, Remembers

\* A call that has written nothing need only be of its shape and remember rightly.
LEMMA ReaderOK ==
  ASSUME NEW r, NEW t, CallShape(r), r.at \notin {"items", "reviewed"}, Remembers(r, t)
  PROVE  CallOK(r, t) /\ DOMAIN r.rows = {} /\ DOMAIN r.cases = {}
  BY RowsOfCalls DEF CallOK, OwnCases, FollowedUp

-----------------------------------------------------------------------------
(* The steps that write no case and no result.                               *)

\* A step that changes one call, and neither results nor cases, keeps the invariant.
LEMMA Moving ==
  ASSUME LabInv, NEW c \in LabCall, NEW r, labCall' = [labCall EXCEPT ![c] = r],
         CallOK(r, oosCase), \A d \in LabCall \ {c} : Apart(r, labCall[d]),
         UNCHANGED <<result, oosCase>>, SampleTable(sample')
  PROVE  LabInv'
<1>1. Later(oosCase, oosCase)
  BY DEF Later
<1>2. Calls([labCall EXCEPT ![c] = r], oosCase)
  BY <1>1, CallMoves DEF LabInv
<1>3. Calls(labCall', oosCase')
  BY <1>2
<1>4. CaseTable(oosCase)' /\ (\A x \in Cell : EnteredBreach(x, result[x]) => HasCase(x, oosCase))'
  BY DEF LabInv
<1>5. (result \in [Cell -> ResultRow])'
  BY DEF LabInv
<1> QED BY <1>3, <1>4, <1>5 DEF LabInv

\* So does one after which the call still has written nothing.
LEMMA Reading ==
  ASSUME LabInv, NEW c \in LabCall, NEW r, labCall' = [labCall EXCEPT ![c] = r],
         CallShape(r), r.at \notin {"items", "reviewed"}, Remembers(r, oosCase),
         UNCHANGED <<sample, result, oosCase>>
  PROVE  LabInv'
<1>1. CallOK(r, oosCase) /\ DOMAIN r.rows = {} /\ DOMAIN r.cases = {}
  BY ReaderOK
<1>2. \A d \in LabCall \ {c} : Apart(r, labCall[d])
  BY <1>1, NothingHeld
<1>3. SampleTable(sample')
  BY DEF LabInv
<1> QED BY <1>1, <1>2, <1>3, Moving

\* A call that ends leaves nothing behind.
LEMMA Ending ==
  ASSUME LabInv, NEW c \in LabCall, EndCall(c), UNCHANGED <<sample, result, oosCase>>
  PROVE  LabInv'
<1>1. CallShape(LabIdle) /\ LabIdle.at = "idle"
  BY DEF CallShape, LabIdle
<1>2. Remembers(LabIdle, oosCase)
  BY <1>1 DEF Remembers
<1> QED BY <1>1, <1>2, Reading DEF EndCall

\* createSample keeps the invariant.
LEMMA CreateKeeps ==
  ASSUME LabInv, CreateSample
  PROVE  LabInv'
<1>1. PICK s, r : s \in Sample /\ SampleShape(r) /\ sample' = [sample EXCEPT ![s] = r]
  <2>1. PICK u \in LabUser, s \in Sample, asked \in DOMAIN DeptOf \cup {Nobody}, order \in LabOrder \cup {"unlinked"} :
           sample' = [sample EXCEPT ![s] =
             [status |-> "COLLECTED", collector |-> u.id,
              owner |-> IF order = "unlinked" THEN OwnerFor(u, asked) ELSE order]]
    BY DEF CreateSample
  <2>2. PICK o : o = IF order = "unlinked" THEN OwnerFor(u, asked) ELSE order
    OBVIOUS
  <2>3. PICK r : r = [status |-> "COLLECTED", collector |-> u.id, owner |-> o]
    OBVIOUS
  <2> QED BY <2>1, <2>2, <2>3 DEF SampleShape
<1>2. SampleTable(sample')
  BY <1>1 DEF LabInv, SampleTable
<1>3. UNCHANGED <<result, oosCase, labCall>>
  BY DEF CreateSample
<1>4. Calls(labCall', oosCase') /\ CaseTable(oosCase')
  BY <1>3 DEF LabInv
<1>5. (result \in [Cell -> ResultRow])' /\ (\A x \in Cell : EnteredBreach(x, result[x]) => HasCase(x, oosCase))'
  BY <1>3 DEF LabInv
<1> QED BY <1>2, <1>4, <1>5 DEF LabInv

\* The checks of an entry keep it.
LEMMA EnterReadKeeps ==
  ASSUME LabInv, NEW c \in LabCall, EnterRead(c)
  PROVE  LabInv'
<1>1. PICK s \in Sample, items \in LabEntry :
        labCall' = [labCall EXCEPT ![c] = EntryCall(s, items, NoRows, NoRows)]
  BY DEF EnterRead
<1>2. PICK r : r = EntryCall(s, items, NoRows, NoRows)
  OBVIOUS
<1>3. r.at = "items" /\ r.rows = NoRows /\ r.cases = NoRows /\ r.s = s /\ r.items = items
  BY <1>2 DEF EntryCall
<1>4. DOMAIN items \subseteq Param /\ \A p \in DOMAIN items : items[p] \in Int
  BY LabAssumption DEF LabAssumption
<1>5. DOMAIN r.rows = {} /\ DOMAIN r.cases = {}
  BY <1>3, NothingWritten
<1>6. CallShape(r)
  BY <1>2, <1>3, <1>4, <1>5 DEF CallShape, IsEntry
<1>7. CallOK(r, oosCase)
  BY <1>3, <1>5, <1>6 DEF CallOK, OwnCases, FollowedUp, Remembers
<1>8. \A d \in LabCall \ {c} : Apart(r, labCall[d])
  BY <1>5, NothingHeld
<1>9. UNCHANGED <<sample, result, oosCase>>
  BY DEF EnterRead
<1>10. SampleTable(sample')
  BY <1>9 DEF LabInv
<1> QED BY <1>1, <1>2, <1>7, <1>8, <1>9, <1>10, Moving

\* The reads of a review keep it.
LEMMA ReviewReadKeeps ==
  ASSUME LabInv, NEW c \in LabCall, ReviewRead(c)
  PROVE  LabInv'
<1>1. PICK x \in Cell, decision \in {"VERIFIED", "REJECTED"} :
        labCall' = [labCall EXCEPT ![c] =
          ReviewCall(x, decision, [value |-> result[x].value, oos |-> result[x].oos], sample[x[1]].status)]
  BY DEF ReviewRead
<1>a. PICK read : read = [value |-> result[x].value, oos |-> result[x].oos]
  OBVIOUS
<1>2. PICK r : r = ReviewCall(x, decision, read, sample[x[1]].status)
  OBVIOUS
<1>3. r.at = "review" /\ r.x = x /\ r.read = read /\ r.decision = decision
      /\ r = ReviewCall(r.x, r.decision, r.read, r.was)
  BY <1>2 DEF ReviewCall
<1>4. CallShape(r)
  <2>1. result[x] \in ResultRow
    BY DEF LabInv
  <2>2. read \in [value : Int \cup {Open}, oos : BOOLEAN]
    BY <1>a, <2>1 DEF ResultRow
  <2> QED BY <1>3, <2>2 DEF CallShape, IsReview
<1>5. Remembers(r, oosCase)
  BY <1>3 DEF Remembers
<1>6. UNCHANGED <<sample, result, oosCase>>
  BY DEF ReviewRead
<1> QED
  <2>1. labCall' = [labCall EXCEPT ![c] = r]
    BY <1>1, <1>a, <1>2
  <2>2. r.at \notin {"items", "reviewed"}
    BY <1>3
  <2> QED BY <2>1, <2>2, <1>4, <1>5, <1>6, Reading

\* The checks of an update of a case keep it: the row to be written stays with its result.
LEMMA CaseReadKeeps ==
  ASSUME LabInv, NEW c \in LabCall, CaseRead(c)
  PROVE  LabInv'
<1>a. PICK k \in CaseId, d \in CaseDecision : \E next :
        /\ oosCase[k] # NoCase
        /\ d.to = oosCase[k].status \/ d.to \in OOS_TRANSITIONS[oosCase[k].status]
        /\ Documented(next)
        /\ next = [oosCase[k] EXCEPT !.status = d.to, !.cause = @ \/ d.cause, !.capa = @ \/ d.capa]
        /\ labCall' = [labCall EXCEPT ![c] = CaseCall(k, next)]
  BY DEF CaseRead
<1>1. PICK next :
        /\ oosCase[k] # NoCase
        /\ d.to = oosCase[k].status \/ d.to \in OOS_TRANSITIONS[oosCase[k].status]
        /\ Documented(next)
        /\ next = [oosCase[k] EXCEPT !.status = d.to, !.cause = @ \/ d.cause, !.capa = @ \/ d.capa]
        /\ labCall' = [labCall EXCEPT ![c] = CaseCall(k, next)]
  BY <1>a
<1>2. /\ next.status = d.to /\ next.cell = oosCase[k].cell
      /\ CaseShape(next)
  <2>1. CaseShape(oosCase[k])
    BY <1>1 DEF LabInv, CaseTable
  <2>2. PICK a, b : a = (oosCase[k].cause \/ d.cause) /\ b = (oosCase[k].capa \/ d.capa)
    OBVIOUS
  <2>3. next = [oosCase[k] EXCEPT !.status = d.to, !.cause = a, !.capa = b]
    BY <1>1, <2>2
  <2>4. d.to \in DOMAIN OOS_TRANSITIONS
    BY <1>1, LabAssumption DEF LabAssumption, OOS_TRANSITIONS
  <2>5. /\ next.status = d.to /\ next.cell = oosCase[k].cell /\ next.capa = b
        /\ next = [status |-> next.status, cell |-> next.cell, severity |-> next.severity,
                   cause |-> next.cause, capa |-> next.capa]
    BY <2>1, <2>3 DEF CaseShape
  <2>6. CaseDocumented(next)
    <3>1. next.status = "EFFECTIVENESS_CHECK" => oosCase[k].capa
      <4>1. oosCase[k].status \in DOMAIN OOS_TRANSITIONS
        BY <1>1, <2>1 DEF CaseShape
      <4>2. d.to = "EFFECTIVENESS_CHECK" => oosCase[k].status \in {"CAPA_DEFINED", "EFFECTIVENESS_CHECK"}
        BY <1>1, <4>1 DEF OOS_TRANSITIONS
      <4> QED BY <2>1, <2>5, <4>2 DEF CaseShape, CaseDocumented
    <3>2. oosCase[k].capa => next.capa
      BY <2>2, <2>5, Zenon
    <3> QED BY <1>1, <3>1, <3>2 DEF Documented, CaseDocumented
  <2> QED BY <2>4, <2>5, <2>6 DEF CaseShape
<1>3. d.to # "none"
  BY <1>1, LabAssumption DEF LabAssumption
<1>4. next # NoCase
  BY <1>2, <1>3 DEF NoCase
<1>5. PICK r : r = CaseCall(k, next)
  OBVIOUS
<1>6. r.at = "case" /\ r.k = k /\ r.next = next
  BY <1>5 DEF CaseCall
<1>7. CallShape(r) /\ Remembers(r, oosCase)
  BY <1>1, <1>2, <1>4, <1>5, <1>6 DEF CallShape, IsUpdate, Remembers
<1>8. UNCHANGED <<sample, result, oosCase>>
  BY DEF CaseRead
<1> QED BY <1>1, <1>5, <1>6, <1>7, <1>8, Reading

\* The steps of a print keep it: the breaches it reads have their cases.
LEMMA PrintKeeps ==
  ASSUME LabInv, NEW c \in LabCall, PrintRead(c) \/ PrintRows(c) \/ PrintGate(c)
  PROVE  LabInv'
<1>0. UNCHANGED <<sample, result, oosCase>>
  BY DEF PrintRead, PrintRows, PrintGate
<1>1. ASSUME NEW at \in {"rows", "gate", "issued"}, NEW s \in Sample, NEW status, NEW read,
             labCall' = [labCall EXCEPT ![c] = PrintCall(at, s, status, read)],
             at = "gate" => \A p \in DOMAIN read :
               p \in Param /\ (EnteredBreach(<<s, p>>, read[p]) => HasCase(<<s, p>>, oosCase))
      PROVE  LabInv'
  <2>1. PICK r : r = PrintCall(at, s, status, read)
    OBVIOUS
  <2>2. r.at = at /\ r.s = s /\ r.read = read /\ r = PrintCall(r.at, r.s, r.status, r.read)
    BY <2>1 DEF PrintCall
  <2>3. CallShape(r) /\ Remembers(r, oosCase) /\ r.at \notin {"items", "reviewed"}
    BY <1>1, <2>2 DEF CallShape, IsPrint, Remembers
  <2> QED BY <1>0, <1>1, <2>1, <2>3, Reading
<1>2. CASE PrintRead(c)
  <2>1. \E s \in Sample : labCall' = [labCall EXCEPT ![c] = PrintCall("rows", s, sample[s].status, NoRows)]
    BY <1>2 DEF PrintRead
  <2> QED BY <1>1, <2>1
<1>3. ASSUME At(c, "rows") \/ At(c, "gate")
      PROVE  labCall[c].s \in Sample
  <2>1. CallShape(labCall[c])
    BY DEF LabInv, Calls, CallOK
  <2> QED BY <1>3, <2>1, CallKinds DEF IsPrint, At
<1>4. CASE PrintRows(c)
  <2>1. PICK s, status, read :
          /\ s = labCall[c].s
          /\ read = [p \in {q \in Param : result[<<s, q>>] # NoResult} |-> result[<<s, p>>]]
          /\ labCall' = [labCall EXCEPT ![c] = PrintCall("gate", s, status, read)]
    BY <1>4 DEF PrintRows
  <2>2. s \in Sample
    BY <1>3, <1>4, <2>1 DEF PrintRows
  <2>3. \A p \in DOMAIN read : p \in Param /\ read[p] = result[<<s, p>>]
    BY <2>1
  <2>4. \A p \in Param : <<s, p>> \in Cell
    BY <2>2 DEF Cell
  <2>5. \A p \in DOMAIN read :
          p \in Param /\ (EnteredBreach(<<s, p>>, read[p]) => HasCase(<<s, p>>, oosCase))
    BY <2>3, <2>4 DEF LabInv
  <2> QED BY <1>1, <2>1, <2>2, <2>5
<1>5. CASE PrintGate(c)
  <2>1. \/ labCall' = [labCall EXCEPT ![c] = PrintCall("issued", labCall[c].s, labCall[c].status, NoRows)]
        \/ labCall' = [labCall EXCEPT ![c] = LabIdle]
    BY <1>5 DEF PrintGate
  <2>2. labCall[c].s \in Sample
    BY <1>3, <1>5 DEF PrintGate
  <2> QED BY <1>0, <1>1, <2>1, <2>2, Ending DEF EndCall
<1> QED BY <1>2, <1>4, <1>5

\* An entry that fails and a certificate that is answered keep it.
LEMMA EndsKeep ==
  ASSUME LabInv, NEW c \in LabCall, EnterFails(c) \/ PrintAnswer(c)
  PROVE  LabInv'
  BY Ending DEF EnterFails, PrintAnswer

-----------------------------------------------------------------------------
(* The steps that write.                                                     *)

\* The case an entry's breach leaves: one of the result, that nobody else writes.
LEMMA BreachCase ==
  ASSUME LabInv, NEW c \in LabCall, NEW x \in Cell, x \notin LockedCells(c), NEW severity,
         OpenCases(x) # {} \/ FreshCases # {}, NEW own, own = labCall[c].cases
  PROVE  /\ CaseAfterBreach(own, x, severity) = own => HasCase(x, oosCase)
         /\ CaseAfterBreach(own, x, severity) # own =>
              \E k \in CaseId : \E row :
                /\ CaseAfterBreach(own, x, severity) = With(own, k, row)
                /\ CaseShape(row) /\ OosOpen(row.status) /\ row.cell = x
                /\ oosCase[k] # NoCase => k \in OpenCases(x) /\ oosCase[k].cell = x /\ oosCase[k].status = row.status
                /\ oosCase[k] = NoCase => OpenCases(x) = {} /\ k \in FreshCases
                /\ \A d \in LabCall \ {c} : k \notin DOMAIN labCall[d].cases
<1>1. CASE OpenCases(x) = {}
  <2>1. PICK k : k \in FreshCases /\ k = CHOOSE j \in FreshCases : TRUE
    BY <1>1
  <2>2. CaseAfterBreach(own, x, severity) = With(own, k, NewCase(x, severity))
    BY <1>1, <2>1 DEF CaseAfterBreach
  <2>3. k \in CaseId /\ oosCase[k] = NoCase /\ \A d \in LabCall : k \notin DOMAIN labCall[d].cases
    BY <2>1 DEF FreshCases
  <2>4. PICK row : row = NewCase(x, severity)
    OBVIOUS
  <2>5. CaseShape(row) /\ row.status = "OPEN" /\ row.cell = x
    BY <2>4 DEF NewCase, NoCase, CaseShape, CaseDocumented, OOS_TRANSITIONS
  <2>6. OosOpen(row.status)
    BY <2>5 DEF OosOpen, OOS_TRANSITIONS
  <2>7. CaseAfterBreach(own, x, severity) # own
    <3>1. k \in DOMAIN With(own, k, row) /\ k \notin DOMAIN own
      BY <2>3 DEF With
    <3> QED BY <2>2, <2>4, <3>1
  <2> QED BY <1>1, <2>1, <2>2, <2>3, <2>4, <2>5, <2>6, <2>7
<1>2. CASE OpenCases(x) # {}
  <2>1. PICK k : k \in OpenCases(x) /\ k = CHOOSE j \in OpenCases(x) : TRUE
    BY <1>2
  <2>2. k \in CaseId /\ oosCase[k].cell = x /\ OosOpen(oosCase[k].status)
    BY <2>1 DEF OpenCases
  <2>3. oosCase[k] # NoCase /\ CaseShape(oosCase[k])
    BY <2>2, NoCaseIsClosed DEF LabInv, CaseTable
  <2>4. HasCase(x, oosCase)
    BY <2>2, <2>3 DEF HasCase
  <2>5. CaseAfterBreach(own, x, severity)
          = IF oosCase[k].severity = severity THEN own
            ELSE With(own, k, [oosCase[k] EXCEPT !.severity = severity])
    BY <1>2, <2>1 DEF CaseAfterBreach
  <2>6. PICK row : row = [oosCase[k] EXCEPT !.severity = severity]
    OBVIOUS
  <2>7. CaseShape(row) /\ row.status = oosCase[k].status /\ row.cell = x
    BY <2>2, <2>3, <2>6 DEF CaseShape, CaseDocumented
  <2>8. \A d \in LabCall \ {c} : k \notin DOMAIN labCall[d].cases
    <3>1. ASSUME NEW d \in LabCall \ {c}, k \in DOMAIN labCall[d].cases
          PROVE  FALSE
      <4>1. OwnCases(labCall[d], oosCase)
        BY DEF LabInv, Calls, CallOK
      <4>2. x \in DOMAIN labCall[d].rows
        BY <2>2, <2>3, <3>1, <4>1 DEF OwnCases
      <4> QED BY <4>2 DEF LockedCells
    <3> QED BY <3>1
  <2>9. OosOpen(row.status)
    BY <2>2, <2>7
  <2> QED BY <2>1, <2>2, <2>3, <2>4, <2>5, <2>6, <2>7, <2>8, <2>9
<1> QED BY <1>1, <1>2

\* What an item leaves in its call: its row, and a case if it is a breach.
LEMMA ItemLeaves ==
  ASSUME LabInv, NEW c \in LabCall, EnterItem(c)
  PROVE  \E p, entry, items, cases :
           /\ p \in DOMAIN labCall[c].items /\ entry \in ResultRow
           /\ labCall[c].s \in Sample /\ p \in Param
           /\ <<labCall[c].s, p>> \notin LockedCells(c)
           /\ DOMAIN items = DOMAIN labCall[c].items \ {p}
           /\ \A q \in DOMAIN items : items[q] = labCall[c].items[q]
           /\ ~entry.verified
           /\ labCall' = [labCall EXCEPT ![c] =
                EntryCall(labCall[c].s, items, With(labCall[c].rows, <<labCall[c].s, p>>, entry), cases)]
           /\ \/ cases = labCall[c].cases /\ (EnteredBreach(<<labCall[c].s, p>>, entry) => HasCase(<<labCall[c].s, p>>, oosCase))
              \/ \E k \in CaseId : \E row :
                   /\ cases = With(labCall[c].cases, k, row)
                   /\ CaseShape(row) /\ OosOpen(row.status) /\ row.cell = <<labCall[c].s, p>>
                   /\ oosCase[k] # NoCase => /\ k \in OpenCases(row.cell)
                                             /\ oosCase[k].cell = row.cell /\ oosCase[k].status = row.status
                   /\ oosCase[k] = NoCase => OpenCases(row.cell) = {} /\ k \in FreshCases
                   /\ \A d \in LabCall \ {c} : k \notin DOMAIN labCall[d].cases
<1>1. IsEntry(labCall[c])
  BY CallKinds DEF EnterItem, At, LabInv, Calls, CallOK
<1> DEFINE s == labCall[c].s
           own == labCall[c].cases
           left(p) == [q \in DOMAIN labCall[c].items \ {p} |-> labCall[c].items[q]]
           value(p) == labCall[c].items[p]
           spec(p) == SpecFor(s, p)
           oos(p) == OutOfSpec(value(p), spec(p))
           entry(p) == [NoResult EXCEPT !.value = value(p), !.oos = oos(p), !.via = "entry"]
           cases(p) == IF oos(p) THEN CaseAfterBreach(own, <<s, p>>, SeverityFor(value(p), spec(p))) ELSE own
<1>2. PICK p \in DOMAIN labCall[c].items :
        /\ <<s, p>> \notin LockedCells(c)
        /\ oos(p) => OpenCases(<<s, p>>) # {} \/ FreshCases # {}
        /\ labCall' = [labCall EXCEPT ![c] =
             EntryCall(s, left(p), With(labCall[c].rows, <<s, p>>, entry(p)), cases(p))]
  <2>1. labCall' = [labCall EXCEPT ![c] = labCall'[c]] /\ \E p \in DOMAIN labCall[c].items :
          /\ <<s, p>> \notin LockedCells(c)
          /\ oos(p) => OpenCases(<<s, p>>) # {} \/ FreshCases # {}
          /\ labCall'[c] = EntryCall(s, left(p), With(labCall[c].rows, <<s, p>>, entry(p)), cases(p))
    BY DEF EnterItem, LabInv, Calls
  <2> QED BY <2>1
<1>3. s \in Sample /\ p \in Param /\ value(p) \in Int
  BY <1>1, <1>2 DEF IsEntry
<1>4. oos(p) \in BOOLEAN
  BY DEF OutOfSpec
<1>5. PICK e : e = entry(p)
  OBVIOUS
<1>6. e \in ResultRow /\ ~e.verified /\ (EnteredBreach(<<s, p>>, e) <=> oos(p))
  <2>1. e \in ResultRow /\ ~e.verified /\ e.via = "entry" /\ e.value = value(p)
    <3> HIDE DEF oos, value
    <3> QED BY <1>3, <1>4, <1>5 DEF NoResult, ResultRow
  <2> HIDE DEF value
  <2> QED BY <2>1 DEF EnteredBreach
<1>7. DOMAIN left(p) = DOMAIN labCall[c].items \ {p} /\ \A q \in DOMAIN left(p) : left(p)[q] = labCall[c].items[q]
  OBVIOUS
<1>8. CASE ~oos(p)
  <2>1. cases(p) = own
    BY <1>8
  <2> HIDE DEF oos, left, entry, cases
  <2> QED BY <1>2, <1>3, <1>5, <1>6, <1>7, <1>8, <2>1
<1>9. CASE oos(p)
  <2>1. PICK sev : sev = SeverityFor(value(p), spec(p))
    OBVIOUS
  <2>2. cases(p) = CaseAfterBreach(own, <<s, p>>, sev)
    BY <1>9, <2>1
  <2>3. <<s, p>> \in Cell
    BY <1>3 DEF Cell
  <2> HIDE DEF oos, left, entry, cases
  <2>4. CASE cases(p) = own
    <3>1. HasCase(<<s, p>>, oosCase)
      BY <1>2, <1>9, <2>2, <2>3, <2>4, BreachCase
    <3> QED BY <1>2, <1>3, <1>5, <1>6, <1>7, <2>4, <3>1
  <2>5. CASE cases(p) # own
    <3>1. PICK k, row :
                /\ k \in CaseId
                /\ cases(p) = With(own, k, row)
                /\ CaseShape(row) /\ OosOpen(row.status) /\ row.cell = <<s, p>>
                /\ oosCase[k] # NoCase => k \in OpenCases(<<s, p>>) /\ oosCase[k].cell = <<s, p>> /\ oosCase[k].status = row.status
                /\ oosCase[k] = NoCase => OpenCases(<<s, p>>) = {} /\ k \in FreshCases
                /\ \A d \in LabCall \ {c} : k \notin DOMAIN labCall[d].cases
      BY <1>2, <1>9, <2>2, <2>3, <2>5, BreachCase
    <3> QED BY <1>2, <1>3, <1>5, <1>6, <1>7, <3>1
  <2> QED BY <2>4, <2>5
<1> QED BY <1>8, <1>9

\* An item of an entry keeps it: its row and its case are held by nobody else.
LEMMA EnterItemKeeps ==
  ASSUME LabInv, NEW c \in LabCall, EnterItem(c)
  PROVE  LabInv'
<1> DEFINE s == labCall[c].s
           own == labCall[c].cases
           was == labCall[c].rows
<1>1. PICK p, entry, items, cases :
           /\ p \in DOMAIN labCall[c].items /\ entry \in ResultRow
           /\ s \in Sample /\ p \in Param
           /\ <<s, p>> \notin LockedCells(c)
           /\ DOMAIN items = DOMAIN labCall[c].items \ {p}
           /\ \A q \in DOMAIN items : items[q] = labCall[c].items[q]
           /\ ~entry.verified
           /\ labCall' = [labCall EXCEPT ![c] = EntryCall(s, items, With(was, <<s, p>>, entry), cases)]
           /\ \/ cases = own /\ (EnteredBreach(<<s, p>>, entry) => HasCase(<<s, p>>, oosCase))
              \/ \E k \in CaseId : \E row :
                   /\ cases = With(own, k, row)
                   /\ CaseShape(row) /\ OosOpen(row.status) /\ row.cell = <<s, p>>
                   /\ oosCase[k] # NoCase => /\ k \in OpenCases(row.cell)
                                             /\ oosCase[k].cell = row.cell /\ oosCase[k].status = row.status
                   /\ oosCase[k] = NoCase => OpenCases(row.cell) = {} /\ k \in FreshCases
                   /\ \A d \in LabCall \ {c} : k \notin DOMAIN labCall[d].cases
  BY ItemLeaves
<1>2. PICK x : x = <<s, p>> /\ x \in Cell /\ x[1] = s
  BY <1>1 DEF Cell
<1>3. PICK rows : /\ rows = With(was, x, entry)
                  /\ DOMAIN rows = DOMAIN was \cup {x} /\ rows[x] = entry
                  /\ \A y \in DOMAIN was : y # x => rows[y] = was[y]
  <2>1. PICK w, rows : w = was /\ rows = With(w, x, entry)
    OBVIOUS
  <2>2. DOMAIN rows = DOMAIN w \cup {x} /\ rows[x] = entry /\ \A y \in DOMAIN w : y # x => rows[y] = w[y]
    BY <2>1 DEF With
  <2> QED BY <2>1, <2>2
<1>4. PICK r : r = EntryCall(s, items, rows, cases)
  OBVIOUS
<1>5. r.at = "items" /\ r.s = s /\ r.items = items /\ r.rows = rows /\ r.cases = cases
  BY <1>4 DEF EntryCall
<1>6. IsEntry(labCall[c]) /\ CallOK(labCall[c], oosCase)
  BY CallKinds DEF EnterItem, At, LabInv, Calls, CallOK
<1>7. /\ \A k \in DOMAIN cases :
           \/ k \in DOMAIN own /\ cases[k] = own[k]
           \/ /\ k \in CaseId /\ cases[k].cell = x
              /\ CaseShape(cases[k]) /\ OosOpen(cases[k].status)
              /\ oosCase[k] # NoCase => oosCase[k].cell = x /\ oosCase[k].status = cases[k].status
              /\ \A d \in LabCall \ {c} : k \notin DOMAIN labCall[d].cases
      /\ DOMAIN own \subseteq DOMAIN cases
      /\ \A k \in DOMAIN own : cases[k] = own[k] \/ (cases[k].cell = x /\ own[k].cell = x)
      /\ EnteredBreach(x, entry) => HasCase(x, oosCase) \/ \E k \in DOMAIN cases : cases[k].cell = x
  <2>1. CASE cases = own /\ (EnteredBreach(<<s, p>>, entry) => HasCase(<<s, p>>, oosCase))
    BY <1>2, <2>1
  <2>2. CASE ~(cases = own /\ (EnteredBreach(<<s, p>>, entry) => HasCase(<<s, p>>, oosCase)))
    <3>1. PICK k, row :
                   /\ k \in CaseId
                   /\ cases = With(own, k, row)
                   /\ CaseShape(row) /\ OosOpen(row.status) /\ row.cell = x
                   /\ oosCase[k] # NoCase => oosCase[k].cell = x /\ oosCase[k].status = row.status
                   /\ oosCase[k] = NoCase => k \in FreshCases
                   /\ \A d \in LabCall \ {c} : k \notin DOMAIN labCall[d].cases
      BY <1>1, <1>2, <2>2
    <3>2. DOMAIN cases = DOMAIN own \cup {k} /\ cases[k] = row /\ \A j \in DOMAIN own : j # k => cases[j] = own[j]
      BY <3>1 DEF With
    <3>3. k \in DOMAIN own => own[k].cell = x
      <4>1. oosCase[k] = NoCase => k \notin DOMAIN own
        BY <3>1 DEF FreshCases
      <4> QED BY <1>6, <3>1, <4>1 DEF CallOK, OwnCases
    <3> QED BY <3>1, <3>2, <3>3
  <2> QED BY <2>1, <2>2
<1>8. CallShape(r)
  <2>1. DOMAIN items \subseteq Param /\ \A q \in DOMAIN items : items[q] \in Int
    BY <1>1, <1>6 DEF IsEntry
  <2>2. \A y \in DOMAIN rows : y \in Cell /\ y[1] = s /\ rows[y] \in ResultRow /\ ~rows[y].verified
    BY <1>1, <1>2, <1>3, <1>6 DEF IsEntry
  <2>3. DOMAIN cases \subseteq CaseId
    BY <1>6, <1>7 DEF IsEntry
  <2> QED BY <1>1, <1>4, <1>5, <2>1, <2>2, <2>3 DEF CallShape, IsEntry
<1>9. OwnCases(r, oosCase)
  BY <1>3, <1>5, <1>6, <1>7 DEF OwnCases, CallOK
<1>10. FollowedUp(r, oosCase)
  <2>1. ASSUME NEW y \in DOMAIN was, y # x, EnteredBreach(y, was[y])
        PROVE  HasCase(y, oosCase) \/ \E k \in DOMAIN cases : cases[k].cell = y
    <3>1. HasCase(y, oosCase) \/ \E k \in DOMAIN own : own[k].cell = y
      BY <1>6, <2>1 DEF CallOK, FollowedUp
    <3> QED BY <1>7, <2>1, <3>1
  <2> QED BY <1>3, <1>5, <1>7, <2>1 DEF FollowedUp
<1>11. CallOK(r, oosCase)
  BY <1>5, <1>8, <1>9, <1>10 DEF CallOK, Remembers
<1>12. \A d \in LabCall \ {c} : Apart(r, labCall[d])
  <2>1. ASSUME NEW d \in LabCall \ {c}
        PROVE  Apart(r, labCall[d])
    <3>1. x \notin DOMAIN labCall[d].rows
      BY <1>1, <1>2 DEF LockedCells
    <3>2. Apart(labCall[c], labCall[d])
      BY DEF LabInv, Calls
    <3> QED BY <1>3, <1>5, <1>7, <3>1, <3>2 DEF Apart
  <2> QED BY <2>1
<1>13. UNCHANGED <<sample, result, oosCase>>
  BY DEF EnterItem
<1>14. SampleTable(sample')
  BY <1>13 DEF LabInv
<1>15. labCall' = [labCall EXCEPT ![c] = r]
  BY <1>1, <1>2, <1>3, <1>4
<1> QED BY <1>11, <1>12, <1>13, <1>14, <1>15, Moving

\* The mark of a review keeps it: no breach is marked that has no case.
LEMMA ReviewWriteKeeps ==
  ASSUME LabInv, NEW c \in LabCall, ReviewWrite(c)
  PROVE  LabInv'
<1> DEFINE x == labCall[c].x
<1>1. IsReview(labCall[c]) /\ CallOK(labCall[c], oosCase) /\ labCall[c].at = "review"
  BY CallKinds DEF ReviewWrite, At, LabInv, Calls, CallOK
<1>2. /\ x \in Cell /\ result[x] \in ResultRow /\ labCall[c].read.oos \in BOOLEAN
      /\ labCall[c].decision \in {"VERIFIED", "REJECTED"}
  BY <1>1 DEF IsReview, LabInv
<1>3. PICK oos, seen : /\ oos = IF labCall[c].decision = "REJECTED" THEN labCall[c].read.oos ELSE result[x].oos
                       /\ seen = (labCall[c].read.value = result[x].value)
  OBVIOUS
<1>4. PICK row : row = [result[x] EXCEPT !.verified = TRUE, !.seen = seen, !.oos = oos]
  OBVIOUS
<1>5. row \in ResultRow /\ row.via = result[x].via /\ row.value = result[x].value
  <2>1. oos \in BOOLEAN /\ seen \in BOOLEAN
    BY <1>2, <1>3 DEF ResultRow
  <2> QED BY <1>2, <1>4, <2>1 DEF ResultRow
<1>6. PICK new : labCall' = [labCall EXCEPT ![c] = ReviewedCall(x, row, labCall[c].was, new)]
  <2>1. \E new : labCall' = [labCall EXCEPT ![c] = ReviewedCall(x, [result[x] EXCEPT
                   !.verified = TRUE, !.seen = labCall[c].read.value = result[x].value,
                   !.oos = IF labCall[c].decision = "REJECTED" THEN labCall[c].read.oos ELSE @], labCall[c].was, new)]
    BY DEF ReviewWrite
  <2>2. row = [result[x] EXCEPT
                   !.verified = TRUE, !.seen = labCall[c].read.value = result[x].value,
                   !.oos = IF labCall[c].decision = "REJECTED" THEN labCall[c].read.oos ELSE @]
    BY <1>3, <1>4
  <2> QED BY <2>1, <2>2
<1>7. PICK r : r = ReviewedCall(x, row, labCall[c].was, new)
  OBVIOUS
<1>8. r.at = "reviewed" /\ r.x = x /\ r.rows = With(NoRows, x, row) /\ r.cases = NoRows /\ r.was = labCall[c].was /\ r.new = new
  BY <1>7 DEF ReviewedCall
<1>9. DOMAIN r.rows = {x} /\ r.rows[x] = row
  BY <1>8 DEF With, NoRows
<1>10. CallShape(r)
  BY <1>2, <1>5, <1>7, <1>8, <1>9 DEF CallShape, IsReviewed
<1>11. EnteredBreach(x, row) => HasCase(x, oosCase)
  <2>1. EnteredBreach(x, row) => EnteredBreach(x, result[x])
    BY <1>5 DEF EnteredBreach
  <2> QED BY <1>2, <2>1 DEF LabInv
<1>12. CallOK(r, oosCase)
  <2>1. DOMAIN r.cases = {}
    BY <1>8, NothingWritten
  <2> QED BY <1>5, <1>8, <1>9, <1>10, <1>11, <2>1 DEF CallOK, OwnCases, FollowedUp, Remembers
<1>13. \A d \in LabCall \ {c} : Apart(r, labCall[d])
  <2>1. x \notin LockedCells(c)
    BY DEF ReviewWrite
  <2>2. \A d \in LabCall \ {c} : x \notin DOMAIN labCall[d].rows
    BY <2>1 DEF LockedCells
  <2>3. DOMAIN r.cases = {}
    BY <1>8, NothingWritten
  <2> QED BY <1>9, <2>2, <2>3 DEF Apart
<1>14. UNCHANGED <<sample, result, oosCase>>
  BY DEF ReviewWrite
<1>15. SampleTable(sample')
  BY <1>14 DEF LabInv
<1> QED BY <1>6, <1>7, <1>12, <1>13, <1>14, <1>15, Moving

\* The write of a case keeps it: the case stays with its result.
LEMMA CaseWriteKeeps ==
  ASSUME LabInv, NEW c \in LabCall, CaseWrite(c)
  PROVE  LabInv'
<1> DEFINE k == labCall[c].k
           next == labCall[c].next
<1>1. IsUpdate(labCall[c]) /\ Remembers(labCall[c], oosCase) /\ labCall[c].at = "case"
  BY CallKinds DEF CaseWrite, At, LabInv, Calls, CallOK
<1>2. k \in CaseId /\ CaseShape(next) /\ oosCase[k] # NoCase /\ next # NoCase /\ next.cell = oosCase[k].cell
  BY <1>1 DEF IsUpdate, Remembers
<1>3. /\ oosCase' = [oosCase EXCEPT ![k] = next] /\ labCall' = [labCall EXCEPT ![c] = LabIdle]
      /\ UNCHANGED <<sample, result>>
      /\ \A d \in LabCall \ {c} : k \notin DOMAIN labCall[d].cases
  BY DEF CaseWrite, EndCall, LockedCases
<1>4. oosCase'[k] = next /\ \A j \in CaseId : j # k => oosCase'[j] = oosCase[j]
  BY <1>2, <1>3 DEF LabInv, CaseTable
<1>5. CaseTable(oosCase')
  BY <1>2, <1>3, <1>4 DEF LabInv, CaseTable
<1>6. Later(oosCase, oosCase')
  BY <1>2, <1>4 DEF Later
<1>7. \A d \in LabCall \ {c} : \A j \in DOMAIN labCall[d].cases : oosCase'[j] = oosCase[j]
  <2>1. \A d \in LabCall \ {c} : DOMAIN labCall[d].cases \subseteq CaseId
    BY RowsOfCalls DEF LabInv, Calls, CallOK
  <2> QED BY <1>3, <1>4, <2>1
<1>8. Calls(labCall', oosCase')
  <2>1. \A d \in LabCall \ {c} : Apart(LabIdle, labCall[d])
    BY IdleOK, NothingHeld
  <2>2. CallOK(LabIdle, oosCase') /\ Calls(labCall, oosCase)
    BY IdleOK DEF LabInv
  <2>3. PICK u : u = oosCase'
    OBVIOUS
  <2>4. Calls([labCall EXCEPT ![c] = LabIdle], u)
    BY <1>6, <1>7, <2>1, <2>2, <2>3, CallMoves
  <2> QED BY <1>3, <2>3, <2>4
<1>9. \A x \in Cell : EnteredBreach(x, result[x]) => HasCase(x, oosCase')
  BY <1>6, CasesStay DEF LabInv
<1>10. SampleTable(sample') /\ (result' \in [Cell -> ResultRow])
  BY <1>3 DEF LabInv
<1>11. \A x \in Cell : EnteredBreach(x, result'[x]) => HasCase(x, oosCase')
  BY <1>3, <1>9
<1> QED BY <1>5, <1>8, <1>10, <1>11 DEF LabInv

\* What a commit makes of the results.
LEMMA ResultsCommitted ==
  ASSUME LabInv, NEW c \in LabCall, result' = Committed(result, labCall[c].rows)
  PROVE  /\ result' \in [Cell -> ResultRow]
         /\ \A x \in Cell : result'[x] = IF x \in DOMAIN labCall[c].rows THEN labCall[c].rows[x] ELSE result[x]
<1>1. DOMAIN result = Cell /\ \A x \in Cell : result[x] \in ResultRow
  BY DEF LabInv
<1>2. \A x \in DOMAIN labCall[c].rows : labCall[c].rows[x] \in ResultRow
  BY RowsOfCalls DEF LabInv, Calls, CallOK
<1> QED BY <1>1, <1>2 DEF Committed

\* The commit of a review keeps it.
LEMMA ReviewCommitKeeps ==
  ASSUME LabInv, NEW c \in LabCall, ReviewCommit(c)
  PROVE  LabInv'
<1>1. /\ result' = Committed(result, labCall[c].rows)
      /\ labCall' = [labCall EXCEPT ![c] = LabIdle] /\ UNCHANGED <<oosCase>>
      /\ labCall[c].at = "reviewed"
  BY DEF ReviewCommit, EndCall, At
<1>2. SampleTable(sample')
  <2>1. PICK s, new : sample' = sample \/ sample' = [sample EXCEPT ![s].status = new]
    BY DEF ReviewCommit
  <2> QED BY <2>1 DEF LabInv, SampleTable, SampleShape
<1>3. CallOK(labCall[c], oosCase)
  BY DEF LabInv, Calls
<1>4. \A x \in Cell : EnteredBreach(x, result'[x]) => HasCase(x, oosCase)
  <2>1. DOMAIN labCall[c].cases = {}
    BY <1>1, <1>3, RowsOfCalls DEF CallOK
  <2> QED BY <1>1, <1>3, <2>1, ResultsCommitted DEF CallOK, FollowedUp, LabInv
<1>5. Calls([labCall EXCEPT ![c] = LabIdle], oosCase)
  <2>1. \A d \in LabCall \ {c} : Apart(LabIdle, labCall[d])
    BY IdleOK, NothingHeld
  <2>2. CallOK(LabIdle, oosCase) /\ Calls(labCall, oosCase) /\ Later(oosCase, oosCase)
    BY IdleOK DEF LabInv, Later
  <2> QED BY <2>1, <2>2, CallMoves
<1>6. Calls(labCall', oosCase') /\ CaseTable(oosCase')
  BY <1>1, <1>5 DEF LabInv
<1>7. \A x \in Cell : EnteredBreach(x, result'[x]) => HasCase(x, oosCase')
  BY <1>1, <1>4
<1>8. result' \in [Cell -> ResultRow]
  BY <1>1, ResultsCommitted
<1> QED BY <1>2, <1>6, <1>7, <1>8 DEF LabInv

\* What an entry's commit makes of the cases.
LEMMA CasesCommitted ==
  ASSUME LabInv, NEW c \in LabCall, oosCase' = Committed(oosCase, labCall[c].cases)
  PROVE  /\ CaseTable(oosCase') /\ Later(oosCase, oosCase')
         /\ \A k \in CaseId : oosCase'[k] = IF k \in DOMAIN labCall[c].cases THEN labCall[c].cases[k] ELSE oosCase[k]
         /\ \A d \in LabCall \ {c} : \A k \in DOMAIN labCall[d].cases : oosCase'[k] = oosCase[k]
<1>1. OwnCases(labCall[c], oosCase) /\ CaseTable(oosCase)
  BY DEF LabInv, Calls, CallOK
<1>2. \A k \in CaseId : oosCase'[k] = IF k \in DOMAIN labCall[c].cases THEN labCall[c].cases[k] ELSE oosCase[k]
  BY <1>1 DEF CaseTable, Committed
<1>3. CaseTable(oosCase')
  <2>1. DOMAIN oosCase' = CaseId /\ oosCase' = [k \in CaseId |-> oosCase'[k]]
    BY <1>1 DEF CaseTable, Committed
  <2>2. \A k \in CaseId : CaseShape(oosCase'[k])
    BY <1>1, <1>2 DEF CaseTable, OwnCases
  <2> QED BY <2>1, <2>2 DEF CaseTable
<1>4. Later(oosCase, oosCase')
  <2>1. ASSUME NEW k \in DOMAIN labCall[c].cases, oosCase[k] # NoCase
        PROVE  labCall[c].cases[k] # NoCase /\ labCall[c].cases[k].cell = oosCase[k].cell
    BY <1>1, <2>1, NoCaseIsClosed DEF OwnCases
  <2> QED BY <1>2, <2>1 DEF Later
<1>5. \A d \in LabCall \ {c} : \A k \in DOMAIN labCall[d].cases : oosCase'[k] = oosCase[k]
  <2>1. ASSUME NEW d \in LabCall \ {c}, NEW k \in DOMAIN labCall[d].cases
        PROVE  oosCase'[k] = oosCase[k]
    <3>1. DOMAIN labCall[d].cases \subseteq CaseId
      BY RowsOfCalls DEF LabInv, Calls, CallOK
    <3>2. Apart(labCall[c], labCall[d])
      BY DEF LabInv, Calls
    <3>3. k \notin DOMAIN labCall[c].cases
      BY <3>2 DEF Apart
    <3> QED BY <1>2, <3>1, <3>3
  <2> QED BY <2>1
<1> QED BY <1>2, <1>3, <1>4, <1>5

\* The commit of an entry keeps it: its cases arrive with its rows.
LEMMA EnterCommitKeeps ==
  ASSUME LabInv, NEW c \in LabCall, EnterCommit(c)
  PROVE  LabInv'
<1>1. /\ result' = Committed(result, labCall[c].rows) /\ oosCase' = Committed(oosCase, labCall[c].cases)
      /\ sample' = [sample EXCEPT ![labCall[c].s].status = "RESULTED"]
      /\ labCall' = [labCall EXCEPT ![c] = LabIdle]
  BY DEF EnterCommit, EndCall
<1>2. SampleTable(sample')
  BY <1>1 DEF LabInv, SampleTable, SampleShape
<1>3. CallOK(labCall[c], oosCase)
  BY DEF LabInv, Calls
<1>4. \A x \in Cell : EnteredBreach(x, result'[x]) => HasCase(x, oosCase')
  <2>1. ASSUME NEW x \in Cell, x \in DOMAIN labCall[c].rows, EnteredBreach(x, labCall[c].rows[x])
        PROVE  HasCase(x, oosCase')
    <3>1. CASE HasCase(x, oosCase)
      BY <1>1, <3>1, CasesCommitted, CasesStay
    <3>2. ASSUME NEW k \in DOMAIN labCall[c].cases, labCall[c].cases[k].cell = x
          PROVE  HasCase(x, oosCase')
      <4>1. OosOpen(labCall[c].cases[k].status)
        BY <1>3 DEF CallOK, OwnCases
      <4>2. labCall[c].cases[k] # NoCase
        BY <4>1, NoCaseIsClosed
      <4>3. k \in CaseId
        BY <1>3, RowsOfCalls DEF CallOK
      <4>4. oosCase'[k] = labCall[c].cases[k]
        BY <1>1, <4>3, CasesCommitted
      <4> QED BY <3>2, <4>2, <4>3, <4>4 DEF HasCase
    <3> QED BY <1>3, <2>1, <3>1, <3>2 DEF CallOK, FollowedUp
  <2>2. ASSUME NEW x \in Cell, EnteredBreach(x, result[x])
        PROVE  HasCase(x, oosCase')
    BY <1>1, <2>2, CasesCommitted, CasesStay DEF LabInv
  <2> QED BY <1>1, <2>1, <2>2, ResultsCommitted
<1>5. Calls(labCall', oosCase')
  <2>1. \A d \in LabCall \ {c} : Apart(LabIdle, labCall[d])
    BY IdleOK, NothingHeld
  <2>2. PICK u : u = oosCase'
    OBVIOUS
  <2>3. CallOK(LabIdle, u) /\ Calls(labCall, oosCase)
    BY IdleOK DEF LabInv
  <2>4. Later(oosCase, u) /\ \A d \in LabCall \ {c} : \A k \in DOMAIN labCall[d].cases : u[k] = oosCase[k]
    BY <1>1, <2>2, CasesCommitted
  <2>5. Calls([labCall EXCEPT ![c] = LabIdle], u)
    BY <2>1, <2>3, <2>4, CallMoves
  <2> QED BY <1>1, <2>2, <2>5
<1>6. CaseTable(oosCase') /\ result' \in [Cell -> ResultRow]
  BY <1>1, CasesCommitted, ResultsCommitted
<1> QED BY <1>2, <1>4, <1>5, <1>6 DEF LabInv

\* A push keeps it: what it writes is no entry, and no call holds the row.
LEMMA PushKeeps ==
  ASSUME LabInv, PushResult
  PROVE  LabInv'
<1>1. PICK x \in Cell, row \in ResultRow :
        /\ row.via = "push"
        /\ result' = [result EXCEPT ![x] = row]
  <2>1. PICK x \in Cell, q \in PushedResult :
          result' = [result EXCEPT ![x].value = q.value, ![x].oos = q.oos, ![x].via = "push",
                                   ![x].seen = @ /\ result[x].value = q.value]
    BY DEF PushResult
  <2>2. PICK seen : seen = (result[x].seen /\ result[x].value = q.value)
    OBVIOUS
  <2>3. PICK row : row = [result[x] EXCEPT !.value = q.value, !.oos = q.oos, !.via = "push", !.seen = seen]
    OBVIOUS
  <2>4. result' = [result EXCEPT ![x] = row]
    BY <2>1, <2>2, <2>3
  <2>5. result[x] \in ResultRow /\ q.value \in Int /\ q.oos \in BOOLEAN /\ seen \in BOOLEAN
    BY <2>2, LabAssumption DEF LabInv, LabAssumption
  <2>6. row \in ResultRow /\ row.via = "push"
    BY <2>3, <2>5 DEF ResultRow
  <2> QED BY <2>4, <2>6
<1>2. UNCHANGED <<sample, oosCase, labCall>>
  BY DEF PushResult
<1>3. result' \in [Cell -> ResultRow]
  BY <1>1 DEF LabInv
<1>4. ASSUME NEW y \in Cell, EnteredBreach(y, result'[y])
      PROVE  HasCase(y, oosCase)
  <2>1. y # x
    BY <1>1, <1>4 DEF LabInv, EnteredBreach
  <2>2. result'[y] = result[y]
    BY <1>1, <2>1 DEF LabInv
  <2> QED BY <1>4, <2>2 DEF LabInv
<1>5. SampleTable(sample') /\ CaseTable(oosCase') /\ Calls(labCall', oosCase')
  BY <1>2 DEF LabInv
<1>6. \A y \in Cell : EnteredBreach(y, result'[y]) => HasCase(y, oosCase')
  BY <1>2, <1>4
<1> QED BY <1>3, <1>5, <1>6 DEF LabInv

-----------------------------------------------------------------------------
\* The invariant holds at the start.
LEMMA InitInv == LabInit => LabInv
<1> SUFFICES ASSUME LabInit PROVE LabInv
  OBVIOUS
<1>1. SampleTable(sample) /\ CaseTable(oosCase)
  BY DEF LabInit, SampleTable, SampleShape, NoSample, CaseTable, CaseShape, CaseDocumented, NoCase
<1>2. result \in [Cell -> ResultRow] /\ \A x \in Cell : ~EnteredBreach(x, result[x])
  BY DEF LabInit, NoResult, ResultRow, EnteredBreach
<1>3. Calls(labCall, oosCase)
  BY IdleOK, NothingHeld DEF LabInit, Calls
<1> QED BY <1>1, <1>2, <1>3 DEF LabInv

\* Every step keeps the invariant.
LEMMA StepInv == LabInv /\ [LabNext]_labVars => LabInv'
<1> SUFFICES ASSUME LabInv, [LabNext]_labVars PROVE LabInv'
  OBVIOUS
<1>1. CASE CreateSample \/ PushResult
  BY <1>1, CreateKeeps, PushKeeps
<1>2. ASSUME NEW c \in LabCall, LabStep(c)
      PROVE  LabInv'
  BY <1>2, EnterReadKeeps, EnterItemKeeps, EnterCommitKeeps, EndsKeep, ReviewReadKeeps, ReviewWriteKeeps,
     ReviewCommitKeeps, CaseReadKeeps, CaseWriteKeeps, PrintKeeps DEF LabStep
<1>3. CASE UNCHANGED labVars
  <2>1. Calls(labCall', oosCase') /\ CaseTable(oosCase') /\ SampleTable(sample')
    BY <1>3 DEF LabInv, labVars
  <2>2. result' \in [Cell -> ResultRow] /\ \A x \in Cell : EnteredBreach(x, result'[x]) => HasCase(x, oosCase')
    BY <1>3 DEF LabInv, labVars
  <2> QED BY <2>1, <2>2 DEF LabInv
<1> QED BY <1>1, <1>2, <1>3 DEF LabNext

\* The tables and the calls under way fit together, whatever overlaps.
THEOREM LabInvariant == LabSpecification => []LabInv
  BY InitInv, StepInv, PTL DEF LabSpecification

\* No breach an analyst entered goes without a case: the entry that writes it commits one
\* with it, and no review, no push and no update of a case takes it from its result.
THEOREM BreachesAreFollowedUp == LabSpecification => []EveryBreachIsFollowedUp
<1>1. LabInv => EveryBreachIsFollowedUp
  BY DEF LabInv, HasCase, EveryBreachIsFollowedUp
<1> QED BY <1>1, LabInvariant, PTL

\* A case has its texts at every stage: stale updates write what was checked as a whole, and
\* an entry that brings the severity up to date holds the case until it commits.
THEOREM CasesStayDocumented == LabSpecification => []CasesAreDocumented
<1>1. LabInv => CasesAreDocumented
  BY DEF LabInv, CaseTable, CaseShape, CaseDocumented, CasesAreDocumented
<1> QED BY <1>1, LabInvariant, PTL

-----------------------------------------------------------------------------
(* What a certificate shows.                                                 *)

\* Only a print's gate issues a certificate.
LEMMA WhoIssues ==
  ASSUME LabInv, [LabNext]_labVars, NEW c \in LabCall, At(c, "gate"), labCall'[c].at = "issued"
  PROVE  PrintGate(c)
<1>1. labCall' # labCall
  BY DEF At
<1>2. PICK d \in LabCall : LabStep(d)
  BY <1>1 DEF LabNext, labVars, CreateSample, PushResult
<1>3. PICK r : labCall' = [labCall EXCEPT ![d] = r]
  BY <1>2, <1>1 DEF LabStep, EnterRead, EnterItem, EnterCommit, EnterFails, ReviewRead, ReviewWrite,
     ReviewCommit, CaseRead, CaseWrite, PrintRead, PrintRows, PrintGate, PrintAnswer, EndCall
<1>4. d = c
  BY <1>3 DEF At
<1> QED
  BY <1>2, <1>4 DEF LabStep, At, EnterRead, EnterItem, EnterCommit, EnterFails, ReviewRead, ReviewWrite,
     ReviewCommit, CaseRead, CaseWrite, PrintRead, PrintRows, PrintAnswer

\* The gate lets no certificate through while a case of its sample is open.
LEMMA GateFindsNoneOpen ==
  ASSUME LabInv, NEW c \in LabCall, PrintGate(c), labCall'[c].at = "issued"
  PROVE  \A k \in CaseId : oosCase[k] # NoCase /\ oosCase[k].cell[1] = labCall[c].s
                            => ~OosOpen(oosCase[k].status)
<1> DEFINE open == {k \in CaseId : /\ oosCase[k] # NoCase /\ oosCase[k].cell[1] = labCall[c].s
                                    /\ OosOpen(oosCase[k].status)}
<1>1. Cardinality(open) = 0
  <2>1. DOMAIN labCall = LabCall
    BY DEF LabInv, Calls
  <2>2. LabIdle.at # "issued"
    BY DEF LabIdle
  <2> QED BY <2>1, <2>2 DEF PrintGate, canIssueCertificate
<1>2. IsFiniteSet(open)
  <2>1. IsFiniteSet(CaseId)
    BY FS_Interval, LabAssumption DEF LabAssumption, CaseId
  <2> QED BY <2>1, FS_Subset
<1>3. open = {}
  BY <1>1, <1>2, FS_EmptySet
<1> QED BY <1>3

\* What CertifiedBreachWasSettled says of a step.
Settled ==
  \A c \in LabCall : At(c, "gate") /\ labCall'[c].at = "issued" =>
    \A p \in DOMAIN labCall[c].read :
      LET x == <<labCall[c].s, p>>
          ofResult == {k \in CaseId : oosCase[k].cell = x}
      IN labCall[c].read[p].verified /\ EnteredBreach(x, labCall[c].read[p]) =>
           ofResult # {} /\ \A k \in ofResult : ~OosOpen(oosCase[k].status)

\* A certificate comes out with a breach only when that breach has a case and none of its
\* cases is open.
LEMMA StepSettles ==
  ASSUME LabInv, [LabNext]_labVars
  PROVE  Settled
<1> SUFFICES ASSUME NEW c \in LabCall, At(c, "gate"), labCall'[c].at = "issued",
                    NEW p \in DOMAIN labCall[c].read, NEW x, x = <<labCall[c].s, p>>,
                    EnteredBreach(x, labCall[c].read[p])
             PROVE  /\ \E k \in CaseId : oosCase[k].cell = x
                    /\ \A k \in CaseId : oosCase[k].cell = x => ~OosOpen(oosCase[k].status)
  BY DEF Settled
<1>1. PrintGate(c)
  BY WhoIssues
<1>2. HasCase(x, oosCase)
  BY DEF LabInv, Calls, CallOK, Remembers, At
<1>3. x[1] = labCall[c].s
  OBVIOUS
<1>4. ASSUME NEW k \in CaseId, oosCase[k].cell = x, OosOpen(oosCase[k].status)
      PROVE  FALSE
  BY <1>1, <1>3, <1>4, GateFindsNoneOpen, OpenIsACase
<1> QED BY <1>2, <1>4 DEF HasCase

\* Every breach an analyst entered that a certificate shows was a case, and the case was
\* closed or rejected, whatever went on between the reads of the print.
THEOREM CertifiedBreachesWereSettled == LabSpecification => CertifiedBreachWasSettled
<1>1. LabInv /\ [LabNext]_labVars => [Settled]_labVars
  BY StepSettles
<1>2. LabSpecification => [][Settled]_labVars
  BY <1>1, LabInvariant, PTL DEF LabSpecification
<1> QED BY <1>2, PTL DEF CertifiedBreachWasSettled, Settled
=============================================================================
