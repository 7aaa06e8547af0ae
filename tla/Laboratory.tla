----------------------------- MODULE Laboratory -----------------------------
(***************************************************************************)
(* The laboratory service (apps/api/src/lab/lab.service.ts with the rules  *)
(* of packages/domain/src/lab.ts): samples, the results entered on them,   *)
(* their review, out-of-specification cases and the certificate of         *)
(* analysis.                                                               *)
(*                                                                         *)
(* A call checks rows it reads before its transaction, then writes in a    *)
(* READ COMMITTED transaction that holds the locks of the rows it wrote    *)
(* until it commits.  What a transaction has written stays in its call     *)
(* until then, where no other call sees it.                                *)
(*                                                                         *)
(* The sync engine writes results as well (sync.ts:69): what a push may do *)
(* to one is an action here, whoever else is writing.                      *)
(*                                                                         *)
(* Left out: reading lists and screens, remarks, the audit trail, samples  *)
(* pushed by devices, a severity typed in by hand.                         *)
(***************************************************************************)
EXTENDS Integers, FiniteSets

CONSTANTS
  Sample, Param,
  Open,         \* no limit, no value
  LabEntry,     \* the [parameter -> number] entries analysts make
  PushedResult, \* what devices push of a result: its [value, oos]
  CaseDecision, \* the [to, cause, capa] updates of a case: new status, texts given
  LabSpec,      \* lab_specs rows: [param, product, from, min, max]
  SampleOf,     \* SampleOf[s]: the [unit, at] a sample is collected with
  LabUser,      \* profiles [id, sub, dept, wide, grants]
  DeptOf,       \* DeptOf[sub]: the department of a subdivision
  LabKind,      \* the subdivisions of kind LAB
  LabOrder,     \* the subdivisions of the work orders a sample may be linked to
  LabCall,      \* request slots
  MaxCases      \* bound: cases ever opened

Nobody == "none"
CaseId == 1..MaxCases
Cell == Sample \X Param

ASSUME LabAssumption ==
  /\ MaxCases \in Nat
  /\ \A items \in LabEntry : DOMAIN items \subseteq Param /\ \A p \in DOMAIN items : items[p] \in Int
  /\ \A d \in CaseDecision : d.to \in {"INVESTIGATING", "CAPA_DEFINED", "EFFECTIVENESS_CHECK",
                                        "CLOSED", "REJECTED"}
  /\ \A r \in PushedResult : r.value \in Int /\ r.oos \in BOOLEAN
  /\ \A u \in LabUser : {"id", "sub", "dept", "wide", "grants"} \subseteq DOMAIN u

VARIABLES
  sample,   \* sample[s]: [status, owner, collector]
  result,   \* result[<<s, p>>]: [value, oos, verified] and, as history, what wrote the value
            \* last (via) and whether its last reviewer had read that value (seen)
  oosCase,  \* oosCase[k]: [status, cell, severity, cause, capa]
  labCall   \* labCall[c]: the call under way

labVars == <<sample, result, oosCase, labCall>>

-----------------------------------------------------------------------------
(* packages/domain/src/lab.ts *)

Abs(n) == IF n < 0 THEN -n ELSE n

\* pctDeviation, in hundredths of a percent; 0 for no percentage.
PctDeviation(limit, spec) ==
  LET closed == spec.min # Open /\ spec.max # Open /\ spec.max > spec.min
      span == IF closed THEN spec.max - spec.min ELSE Abs(limit)
  IN IF span = 0 THEN 0 ELSE (20000 * Abs(limit) + span) \div (2 * span)

\* evaluateSpec: the limit a value breaches, Open for none.
BreachedLimit(value, spec) ==
  CASE spec.min # Open /\ value < spec.min -> spec.min
    [] spec.max # Open /\ value > spec.max /\ ~(spec.min # Open /\ value < spec.min) -> spec.max
    [] OTHER -> Open

OutOfSpec(value, spec) == BreachedLimit(value, spec) # Open

\* severityForVerdict.  A limit of zero with no range gives no percentage; a
\* limit of zero in a range gives 0 percent, which is MINOR.
SeverityFor(value, spec) ==
  LET limit == BreachedLimit(value, spec)
      d == PctDeviation(limit, spec)
      noSpan == limit = 0 /\ ~(spec.min # Open /\ spec.max # Open /\ spec.max > spec.min)
  IN CASE noSpan -> "MAJOR"
       [] ~noSpan /\ d >= 2500 -> "CRITICAL"
       [] ~noSpan /\ d \in 500..2499 -> "MAJOR"
       [] OTHER -> "MINOR"

OOS_TRANSITIONS ==
  [OPEN                |-> {"INVESTIGATING", "REJECTED"},
   INVESTIGATING       |-> {"CAPA_DEFINED", "REJECTED"},
   CAPA_DEFINED        |-> {"EFFECTIVENESS_CHECK", "INVESTIGATING"},
   EFFECTIVENESS_CHECK |-> {"CLOSED", "INVESTIGATING"},
   CLOSED              |-> {},
   REJECTED            |-> {}]

OosOpen(status) == status \in DOMAIN OOS_TRANSITIONS \ {"CLOSED", "REJECTED"}

\* statusAfterResultEntry: entry is accepted before review only.
EntryAccepted(status) == status \in {"COLLECTED", "IN_QUEUE", "ANALYZING", "RESULTED"}

\* Mutant: cases under way do not hold a certificate back.
canIssueDespiteCases(status, verifiedCount, openCases) ==
  status = "VERIFIED" /\ verifiedCount > 0

canIssueCertificate(status, verifiedCount, openCases) ==
  status = "VERIFIED" /\ verifiedCount > 0 /\ openCases = 0

\* specsFor: the newest row in force for the unit (or COMMON) when it was collected.
SpecFor(s, p) ==
  LET inForce == {r \in LabSpec : /\ r.param = p
                                  /\ r.product \in {SampleOf[s].unit, "COMMON"}
                                  /\ r.from <= SampleOf[s].at}
  IN IF inForce = {} THEN [min |-> Open, max |-> Open]
     ELSE CHOOSE r \in inForce : \A q \in inForce : q.from <= r.from

\* buildCertificateRows: the verified results, with their verdict.
CertificateRows(s, rows) ==
  {[param |-> p, value |-> rows[p].value,
    verdict |-> IF OutOfSpec(rows[p].value, SpecFor(s, p)) \/ rows[p].oos THEN "FAIL" ELSE "PASS"] :
      p \in {q \in DOMAIN rows : rows[q].verified}}

-----------------------------------------------------------------------------
(* Who may reach which sample: the route's guard, then sampleScope.          *)

ServesDepartment(u) == u.sub = Nobody \/ u.sub \in LabKind

SampleScope(u, code, s) ==
  /\ code \in DOMAIN u.grants
  /\ LET scope == u.grants[code]
         inDept == u.dept = Nobody \/ DeptOf[sample[s].owner] = u.dept
     IN \/ scope = "ALL" \/ u.wide
        \/ scope = "DEPT" /\ inDept
        \/ scope = "TEAM" /\ u.sub \in {Nobody, sample[s].owner}
        \/ scope = "SUBDEPT" /\ IF ServesDepartment(u) THEN inDept
                                ELSE sample[s].owner = u.sub \/ sample[s].collector = u.id
        \/ scope = "SELF" /\ sample[s].collector = u.id

\* The routes that write ask for more than one's own rows.
RouteScope(u, code) == code \in DOMAIN u.grants /\ u.grants[code] \in {"SUBDEPT", "DEPT", "ALL"}

\* resolveOwnerSubDept: the subdivision asked for, if the user may open samples for it.
OwnerFor(u, asked) == IF asked = Nobody THEN u.sub ELSE asked

MayOpenFor(u, asked) ==
  IF asked = Nobody THEN u.sub # Nobody
  ELSE LET scope == u.grants["lab.sample.create"]
       IN \/ scope = "ALL" \/ u.wide \/ asked = u.sub
          \/ scope = "DEPT" /\ DeptOf[asked] = u.dept

-----------------------------------------------------------------------------
NoSample == [status |-> "none", owner |-> Nobody, collector |-> Nobody]
NoResult == [value |-> Open, oos |-> FALSE, verified |-> FALSE, seen |-> FALSE, via |-> "none"]
NoCase == [status |-> "none", cell |-> <<Nobody, Nobody>>, severity |-> "MINOR", cause |-> FALSE, capa |-> FALSE]

\* Rows a transaction has written and not yet committed: none, one more, and the table
\* once they are in it.
NoRows == [x \in {} |-> x]
With(rows, x, row) == [y \in DOMAIN rows \cup {x} |-> IF y = x THEN row ELSE rows[y]]
Committed(table, rows) == [x \in DOMAIN table |-> IF x \in DOMAIN rows THEN rows[x] ELSE table[x]]

\* The calls under way: what each has read, and the rows it has written.
LabIdle == [at |-> "idle", kind |-> "none", rows |-> NoRows, cases |-> NoRows]
EntryCall(s, items, rows, cases) ==
  [at |-> "items", kind |-> "enter", s |-> s, items |-> items, rows |-> rows, cases |-> cases]
ReviewCall(x, decision, read, was) ==
  [at |-> "review", kind |-> "review", x |-> x, decision |-> decision, read |-> read, was |-> was,
   rows |-> NoRows, cases |-> NoRows]
ReviewedCall(x, row, was, new) ==
  [at |-> "reviewed", kind |-> "review", x |-> x, was |-> was, new |-> new,
   rows |-> With(NoRows, x, row), cases |-> NoRows]
CaseCall(k, next) ==
  [at |-> "case", kind |-> "case", k |-> k, next |-> next, rows |-> NoRows, cases |-> NoRows]
PrintCall(at, s, status, read) ==
  [at |-> at, kind |-> "print", s |-> s, status |-> status, read |-> read,
   rows |-> NoRows, cases |-> NoRows]

LabInit ==
  /\ sample = [s \in Sample |-> NoSample]
  /\ result = [x \in Cell |-> NoResult]
  /\ oosCase = [k \in CaseId |-> NoCase]
  /\ labCall = [c \in LabCall |-> LabIdle]

At(c, place) == labCall[c].at = place
EndCall(c) == labCall' = [labCall EXCEPT ![c] = LabIdle]

\* Rows another call's transaction holds.
LockedCells(c) == UNION {DOMAIN labCall[d].rows : d \in LabCall \ {c}}
LockedCases(c) == UNION {DOMAIN labCall[d].cases : d \in LabCall \ {c}}

-----------------------------------------------------------------------------
\* createSample.
CreateSample ==
  \E u \in LabUser, s \in Sample, asked \in DOMAIN DeptOf \cup {Nobody}, order \in LabOrder \cup {"unlinked"} :
    /\ sample[s] = NoSample
    /\ RouteScope(u, "lab.sample.create") /\ MayOpenFor(u, asked)
    /\ order # Nobody
    /\ sample' = [sample EXCEPT ![s] =
         [status |-> "COLLECTED", collector |-> u.id,
          owner |-> IF order = "unlinked" THEN OwnerFor(u, asked) ELSE order]]
    /\ UNCHANGED <<result, oosCase, labCall>>

-----------------------------------------------------------------------------
(* enterResults: the status is checked before the transaction.               *)
EnterRead(c) ==
  /\ At(c, "idle")
  /\ \E u \in LabUser, s \in Sample, items \in LabEntry :
       /\ EntryAccepted(sample[s].status)
       /\ RouteScope(u, "lab.result.enter") /\ SampleScope(u, "lab.result.enter", s)
       /\ labCall' = [labCall EXCEPT ![c] = EntryCall(s, items, NoRows, NoRows)]
  /\ UNCHANGED <<sample, result, oosCase>>

\* The open cases of a result, as call c sees them.
OpenCases(x) == {k \in CaseId : oosCase[k].cell = x /\ OosOpen(oosCase[k].status)}

\* nextNumber: a case number nobody drew.
FreshCases == {k \in CaseId : oosCase[k] = NoCase /\ \A d \in LabCall : k \notin DOMAIN labCall[d].cases}

NewCase(x, severity) == [NoCase EXCEPT !.status = "OPEN", !.cell = x, !.severity = severity]

\* The cases of a call after an out-of-specification entry: the severity of the one
\* that is open is brought up to date, otherwise a new one is opened.
CaseAfterBreach(cases, x, severity) ==
  IF OpenCases(x) = {}
  THEN With(cases, CHOOSE k \in FreshCases : TRUE, NewCase(x, severity))
  ELSE LET k == CHOOSE k \in OpenCases(x) : TRUE
       IN IF oosCase[k].severity = severity THEN cases
          ELSE With(cases, k, [oosCase[k] EXCEPT !.severity = severity])

\* One item: the result is written (its row stays locked), then its case.
EnterItem(c) ==
  /\ At(c, "items")
  /\ \E p \in DOMAIN labCall[c].items :
       LET x == <<labCall[c].s, p>>
           value == labCall[c].items[p]
           spec == SpecFor(labCall[c].s, p)
           oos == OutOfSpec(value, spec)
           entry == [NoResult EXCEPT !.value = value, !.oos = oos, !.via = "entry"]
           cases == IF oos THEN CaseAfterBreach(labCall[c].cases, x, SeverityFor(value, spec))
                    ELSE labCall[c].cases
       IN /\ x \notin LockedCells(c)
          /\ oos => OpenCases(x) # {} \/ FreshCases # {}
          /\ labCall' = [labCall EXCEPT ![c] =
               EntryCall(@.s, [q \in DOMAIN @.items \ {p} |-> @.items[q]],
                         With(@.rows, x, entry), cases)]
  /\ UNCHANGED <<sample, result, oosCase>>

\* Mutant: the cases of an entry are not part of its transaction.
EnterCommitWithoutCases(c) ==
  /\ At(c, "items") /\ DOMAIN labCall[c].items = {}
  /\ result' = Committed(result, labCall[c].rows)
  /\ sample' = [sample EXCEPT ![labCall[c].s].status = "RESULTED"]
  /\ EndCall(c)
  /\ UNCHANGED oosCase

\* The sample becomes RESULTED and the transaction commits.
EnterCommit(c) ==
  /\ At(c, "items") /\ DOMAIN labCall[c].items = {}
  /\ result' = Committed(result, labCall[c].rows)
  /\ oosCase' = Committed(oosCase, labCall[c].cases)
  /\ sample' = [sample EXCEPT ![labCall[c].s].status = "RESULTED"]
  /\ EndCall(c)

\* A parameter the lab does not know, or a crash, rolls the whole entry back.
EnterFails(c) ==
  /\ At(c, "items")
  /\ EndCall(c)
  /\ UNCHANGED <<sample, result, oosCase>>

-----------------------------------------------------------------------------
(* verifyResult: the result and the sample's status are read first.          *)
ReviewRead(c) ==
  /\ At(c, "idle")
  /\ \E u \in LabUser, x \in Cell, decision \in {"VERIFIED", "REJECTED"} :
       /\ result[x] # NoResult
       /\ RouteScope(u, "lab.result.verify") /\ SampleScope(u, "lab.result.verify", x[1])
       /\ ~(result[x].verified /\ decision = "VERIFIED")
       /\ labCall' = [labCall EXCEPT ![c] = ReviewCall(x, decision, [value |-> result[x].value, oos |-> result[x].oos], sample[x[1]].status)]
  /\ UNCHANGED <<sample, result, oosCase>>

\* count({ verifiedById: null }) after the own update: committed rows only.
OtherUnverified(x) ==
  {p \in Param : /\ p # x[2] /\ result[<<x[1], p>>] # NoResult
                 /\ ~result[<<x[1], p>>].verified}

\* The result is marked (whatever the decision; a rejection writes the mark of the
\* breach it had read back), then the rest is counted.
ReviewWrite(c) ==
  /\ At(c, "review")
  /\ LET x == labCall[c].x
         new == CASE labCall[c].decision = "REJECTED" -> "REJECTED"
                  [] labCall[c].decision # "REJECTED" /\ OtherUnverified(x) = {} -> "VERIFIED"
                  [] OTHER -> "RESULTED"
         row == [result[x] EXCEPT
                   !.verified = TRUE, !.seen = labCall[c].read.value = result[x].value,
                   !.oos = IF labCall[c].decision = "REJECTED" THEN labCall[c].read.oos ELSE @]
     IN /\ x \notin LockedCells(c)
        /\ labCall' = [labCall EXCEPT ![c] = ReviewedCall(x, row, labCall[c].was, new)]
  /\ UNCHANGED <<sample, result, oosCase>>

\* The sample follows if its status differs from the one read at first.
ReviewCommit(c) ==
  /\ At(c, "reviewed")
  /\ LET s == labCall[c].x[1]
     IN sample' = IF labCall[c].new = labCall[c].was THEN sample
                  ELSE [sample EXCEPT ![s].status = labCall[c].new]
  /\ result' = Committed(result, labCall[c].rows)
  /\ EndCall(c)
  /\ UNCHANGED <<oosCase>>

-----------------------------------------------------------------------------
(* updateOos: every rule is checked on the row read, the write is by id.     *)
\* Mutant: the text of the corrective action is asked for at the end only.
DocumentedAtTheEnd(next) == next.status = "CLOSED" => next.cause

Documented(next) ==
  /\ next.status \in {"CAPA_DEFINED", "CLOSED"} => next.capa
  /\ next.status = "CLOSED" => next.cause

CaseRead(c) ==
  /\ At(c, "idle")
  /\ \E u \in LabUser, k \in CaseId, d \in CaseDecision :
       LET row == oosCase[k]
           to == d.to
           next == [row EXCEPT !.status = to, !.cause = @ \/ d.cause, !.capa = @ \/ d.capa]
       IN /\ row # NoCase
          /\ SampleScope(u, "lab.oos.manage", row.cell[1])
          /\ to = row.status \/ to \in OOS_TRANSITIONS[row.status]
          /\ Documented(next)
          /\ labCall' = [labCall EXCEPT ![c] = CaseCall(k, next)]
  /\ UNCHANGED <<sample, result, oosCase>>

CaseWrite(c) ==
  /\ At(c, "case")
  /\ labCall[c].k \notin LockedCases(c)
  /\ oosCase' = [oosCase EXCEPT ![labCall[c].k] = labCall[c].next]
  /\ EndCall(c)
  /\ UNCHANGED <<sample, result>>

-----------------------------------------------------------------------------
(* certificate: the sample, its results and its open cases are read by       *)
(* statements of their own, outside a transaction.                           *)
PrintRead(c) ==
  /\ At(c, "idle")
  /\ \E u \in LabUser, s \in Sample :
       /\ sample[s] # NoSample
       /\ SampleScope(u, "lab.report.export", s)
       /\ labCall' = [labCall EXCEPT ![c] = PrintCall("rows", s, sample[s].status, NoRows)]
  /\ UNCHANGED <<sample, result, oosCase>>

PrintRows(c) ==
  /\ At(c, "rows")
  /\ LET s == labCall[c].s
         read == [p \in {q \in Param : result[<<s, q>>] # NoResult} |-> result[<<s, p>>]]
     IN labCall' = [labCall EXCEPT ![c] = PrintCall("gate", s, labCall[c].status, read)]
  /\ UNCHANGED <<sample, result, oosCase>>

\* The gate lets the certificate through, or answers that it cannot be issued.
PrintGate(c) ==
  /\ At(c, "gate")
  /\ LET s == labCall[c].s
         rows == CertificateRows(s, labCall[c].read)
         open == {k \in CaseId : oosCase[k] # NoCase /\ oosCase[k].cell[1] = s /\ OosOpen(oosCase[k].status)}
     IN labCall' = [labCall EXCEPT ![c] =
          IF canIssueCertificate(labCall[c].status, Cardinality(rows), Cardinality(open))
          THEN PrintCall("issued", s, labCall[c].status, NoRows) ELSE LabIdle]
  /\ UNCHANGED <<sample, result, oosCase>>

\* It is noted in the audit trail and answered.
PrintAnswer(c) ==
  /\ At(c, "issued")
  /\ EndCall(c)
  /\ UNCHANGED <<sample, result, oosCase>>

-----------------------------------------------------------------------------
\* A device's push of a result: the engine inserts the row or overwrites its number and
\* its mark, whatever the sample's status; the columns of the review it leaves alone.
\* (lab.service.ts:28 has the mark dropped on the way; it is not among DENIED_COLUMNS.)
PushResult ==
  \E u \in LabUser, x \in Cell, r \in PushedResult :
    /\ "lab.result.enter" \in DOMAIN u.grants
    /\ sample[x[1]] # NoSample
    /\ \A c \in LabCall : x \notin DOMAIN labCall[c].rows
    /\ result' = [result EXCEPT ![x].value = r.value, ![x].oos = r.oos, ![x].via = "push",
                                 ![x].seen = @ /\ result[x].value = r.value]
    /\ UNCHANGED <<sample, oosCase, labCall>>

-----------------------------------------------------------------------------
LabStep(c) ==
  \/ EnterRead(c) \/ EnterItem(c) \/ EnterCommit(c) \/ EnterFails(c)
  \/ ReviewRead(c) \/ ReviewWrite(c) \/ ReviewCommit(c)
  \/ CaseRead(c) \/ CaseWrite(c)
  \/ PrintRead(c) \/ PrintRows(c) \/ PrintGate(c) \/ PrintAnswer(c)

LabNext == CreateSample \/ PushResult \/ \E c \in LabCall : LabStep(c)

LabSpecification == LabInit /\ [][LabNext]_labVars

-----------------------------------------------------------------------------
\* The value of an entry that breaks its limits.
EnteredBreach(x, row) == row.via = "entry" /\ OutOfSpec(row.value, SpecFor(x[1], x[2]))

\* No out-of-specification entry goes without a follow-up: once committed, a case
\* of its result exists, whatever is entered, reviewed, pushed and decided beside it.
EveryBreachIsFollowedUp ==
  \A x \in Cell : EnteredBreach(x, result[x]) => \E k \in CaseId : oosCase[k].cell = x

\* "No corrective action without its text, no closing without a root cause"
\* (lab.service.ts:482-487), also when updates that read the case at different times
\* write it one over the other.
CasesAreDocumented ==
  \A k \in CaseId :
    /\ oosCase[k].status \in {"CAPA_DEFINED", "EFFECTIVENESS_CHECK", "CLOSED"} => oosCase[k].capa
    /\ oosCase[k].status = "CLOSED" => oosCase[k].cause

\* "No certificate ... with an open case" (lab.service.ts:32): a certificate
\* that shows a breach an analyst entered comes out only when a case of that very
\* result was opened and none of them is open any more, although the rows, the cases
\* and the status are read at different times.
CertifiedBreachWasSettled ==
  [][\A c \in LabCall : At(c, "gate") /\ labCall'[c].at = "issued" =>
       \A p \in DOMAIN labCall[c].read :
         LET x == <<labCall[c].s, p>>
             ofResult == {k \in CaseId : oosCase[k].cell = x}
         IN labCall[c].read[p].verified /\ EnteredBreach(x, labCall[c].read[p]) =>
              ofResult # {} /\ \A k \in ofResult : ~OosOpen(oosCase[k].status)]_labVars

\* "An endorsement of a number the reviewer did not see is not valid"
\* (lab.service.ts:302): a result counts as reviewed only with the number its reviewer
\* had read.
ReviewerSawTheNumber == \A x \in Cell : result[x].verified => result[x].seen
=============================================================================
