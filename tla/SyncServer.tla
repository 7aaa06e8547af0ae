----------------------------- MODULE SyncServer -----------------------------
(***************************************************************************)
(* The server half of offline sync                                         *)
(* (apps/api/src/sync/sync-engine.service.ts with the database triggers    *)
(* that feed sync_change_log).                                             *)
(*                                                                         *)
(* A push request is handled by a handler h: its operations are applied    *)
(* one after the other, and each operation is a series of separate         *)
(* database statements (look the opId up, read the row, write the row,     *)
(* record the opId) that share no transaction, so handlers interleave      *)
(* between any two of them and a crash may fall between any two.  Users at *)
(* the office edit the same rows in REST transactions (txn): the update    *)
(* locks the row, draws the change-feed number and becomes visible to      *)
(* others only at commit.                                                  *)
(*                                                                         *)
(* Left out: sync_conflicts and the devices table (written here, never     *)
(* read by the engine), business numbers, identity and audit columns.      *)
(***************************************************************************)
EXTENDS SyncPolicy

CONSTANTS
  Handler,     \* push requests the server may be handling at one time
  AccessSet,   \* the access contexts a session may carry
  MaxSeq       \* bound: office edits stop once the change feed reached this number

ASSUME MaxSeqAssumption == MaxSeq \in Nat

Perm == {"sync.push", "maint.wo.cancel", "wh.req.create", "maint.permit.create",
         "prod.log.create", "lab.result.enter", "hr.att.correct", "hr.att.import",
         "hr.form.create", "maint.condition.record", "maint.wo.execute"}

ASSUME AccessAssumption ==
  AccessSet \subseteq [can: SUBSET Perm, facilityWide: BOOLEAN, scope: SUBSET Record]

VARIABLES
  row,        \* row[r]: the database row; version 0 means there is none
  txn,        \* txn[r]: an office transaction that updated r, not yet committed
  log,        \* the committed entries of sync_change_log
  lastSeq,    \* last_value of the change-feed sequence
  stamped,    \* stamped[o]: the outcome sync_idempotency holds for opId o
  phase,      \* phase[h]: the next statement handler h executes
  todo,       \* todo[h]: the operations of its request still to apply
  access,     \* access[h]: the access context of its request
  plan,       \* plan[h]: the write decided from the row it read
  answers,    \* answers[h]: the results so far
  effect      \* history: effect[o]: what the database took from opId o

serverVars == <<row, txn, log, lastSeq, stamped, phase, todo, access, plan,
                answers, effect>>

-----------------------------------------------------------------------------
OkOutcome == {"APPLIED", "MERGED"}
Outcome   == OkOutcome \cup {"CONFLICT", "REJECTED"}

NoRow  == [version |-> 0, deleted |-> FALSE, data |-> [f \in Field |-> Blank]]
Row    == [version: Nat, deleted: BOOLEAN, data: RowData]
Entry  == [seq: Nat, rec: Record, version: Nat, deleted: BOOLEAN, data: RowData]
NoTxn  == [open |-> FALSE, seq |-> 0, image |-> NoRow]
Txn    == [open: BOOLEAN, seq: Nat, image: Row]
Plan   == [write: {"none", "insert", "update", "delete"}, set: Data, outcome: OkOutcome]
Result == [opId: OpId, rec: Record, outcome: Outcome, server: Data]

\* Columns no client may write; safeColumns hides them from reads as well.
DeniedColumns ==
  {"passwordHash", "syncSeq", "version", "createdAt", "updatedAt", "approvedById",
   "approvedAt", "closedById", "approverId", "verifiedById", "verifiedAt",
   "costCenterCode", "facilityId", "departmentId", "syncCursor", "isLocked",
   "reconciliationHash", "valuation", "creditUsed", "keeperUserId", "approvedBy"}
SafeColumns == Field \ DeniedColumns

Sanitize(d) == Only(d, SafeColumns)

\* Tables of ENTITY_MAP that have a deletedAt column / a scope column.
SoftDeleteEntity == {"workOrder", "shiftLog", "labSample", "asset", "document"}
UnscopedEntity == {"laborEntry", "processParam", "alarmAck", "pmPlanInstance",
                   "attendancePunch", "leaveRequest", "mobileFormRecord",
                   "notificationAck"}

\* Tables with a version column for fn_bump_version; the feed shows 1 for others.
VersionedEntity == {"workOrder", "partIssue", "shiftLog", "downtime", "alarmAck",
                    "labSample", "labResult", "permit", "asset", "assetReading",
                    "pmPlanInstance", "leaveRequest", "mobileFormRecord", "document"}
NextVersion(r) ==
  IF r.entity \in VersionedEntity THEN row[r].version + 1 ELSE 1

IsApproved(e, d) ==
  CASE e = "shiftLog"  -> At(d, "status") \cap {"APPROVED", "LOCKED"} # {}
    [] e = "workOrder" -> /\ At(d, "status") \cap {"CLOSED", "APPROVED", "ASSIGNED"} # {}
                          /\ At(d, "approverId") # Blank
    [] e \in {"labResult", "labSample"} ->
         At(d, "verifiedById") # Blank \/ At(d, "status") = {"VERIFIED"}
    [] e = "permit" -> At(d, "status") \cap {"APPROVED_BY_AREA", "APPROVED_BY_HSE",
                                             "OPEN", "EXTENDED"} # {}
    [] OTHER -> FALSE

\* The permission a push of entity e needs; {} is "none beyond sync.push".
PushPermission(e) ==
  CASE e = "partIssue"        -> {"wh.req.create"}
    [] e = "permit"           -> {"maint.permit.create"}
    [] e = "shiftLog"         -> {"prod.log.create"}
    [] e = "labResult"        -> {"lab.result.enter"}
    [] e = "attendancePunch"  -> {"hr.att.correct", "hr.att.import"}
    [] e = "mobileFormRecord" -> {"hr.form.create"}
    [] e = "assetReading"     -> {"maint.condition.record"}
    [] e = "laborEntry"       -> {"maint.wo.execute"}
    [] OTHER                  -> {}

PermissionGate(op, acc) ==
  LET e == op.rec.entity
  IN /\ "sync.push" \in acc.can
     /\ (op.kind = "DELETE" /\ e \in {"workOrder", "shiftLog", "labSample", "labResult", "permit"})
          => "maint.wo.cancel" \in acc.can \/ acc.facilityWide
     /\ PushPermission(e) # {} => PushPermission(e) \cap acc.can # {}
     /\ e \notin {"asset", "pmPlanInstance"}
     /\ e \notin RestOnlyEntity
     /\ op.kind = "DELETE" => e \notin AppendOnlyEntity

\* An UPSERT whose row is missing or elsewhere is let through (allowMissing).
InScope(op, acc) ==
  \/ acc.facilityWide
  \/ op.rec.entity \in UnscopedEntity
  \/ op.kind = "UPSERT"
  \/ row[op.rec].version > 0 /\ op.rec \in acc.scope

\* Entities serverStamp gives at least one column on creation.
StampedEntity == {"workOrder", "shiftLog", "labSample", "permit", "document",
                  "assetReading", "workOrderLog", "notificationAck"}

NoAccess == [can |-> {}, facilityWide |-> FALSE, scope |-> {}]

NoPlan == [write |-> "none", set |-> NoData, outcome |-> "APPLIED"]

-----------------------------------------------------------------------------
ServerInit ==
  /\ row = [r \in Record |-> NoRow]
  /\ txn = [r \in Record |-> NoTxn]
  /\ log = {}
  /\ lastSeq = 0
  /\ stamped = [o \in OpId |-> "none"]
  /\ phase = [h \in Handler |-> "idle"]
  /\ todo = [h \in Handler |-> <<>>]
  /\ access = [h \in Handler |-> NoAccess]
  /\ plan = [h \in Handler |-> NoPlan]
  /\ answers = [h \in Handler |-> <<>>]
  /\ effect = [o \in OpId |-> "none"]

feedVars == <<row, txn, log, lastSeq>>

\* The operation handler h is working on.
Cur(h) == Head(todo[h])

\* Handler h has the result of its current operation and turns to the next one.
Answer(h, outcome, server) ==
  /\ answers' = [answers EXCEPT ![h] =
       Append(@, [opId |-> Cur(h).opId, rec |-> Cur(h).rec,
                  outcome |-> outcome, server |-> server])]
  /\ todo' = [todo EXCEPT ![h] = Tail(@)]
  /\ phase' = [phase EXCEPT ![h] = "check"]
  /\ plan' = [plan EXCEPT ![h] = NoPlan]

\* The triggers of a synchronised table: the new row image goes to the feed
\* under the next number of the sequence.
Commit(r, image) ==
  /\ row' = [row EXCEPT ![r] = image]
  /\ lastSeq' = lastSeq + 1
  /\ log' = log \cup {[seq |-> lastSeq + 1, rec |-> r, version |-> image.version,
                       deleted |-> image.deleted, data |-> image.data]}

-----------------------------------------------------------------------------
\* POST /v1/sync/push: a batch reaches the server.
ReceivePush(h, ops, acc) ==
  /\ phase[h] = "idle"
  /\ ValidPush(ops)
  /\ phase' = [phase EXCEPT ![h] = "check"]
  /\ todo' = [todo EXCEPT ![h] = ops]
  /\ access' = [access EXCEPT ![h] = acc]
  /\ UNCHANGED <<feedVars, stamped, plan, answers, effect>>

\* applyOp, 1): an opId already recorded is answered from sync_idempotency.
AnswerDuplicate(h) ==
  /\ phase[h] = "check" /\ todo[h] # <<>>
  /\ stamped[Cur(h).opId] # "none"
  /\ Answer(h, stamped[Cur(h).opId], NoData)
  /\ UNCHANGED <<feedVars, stamped, access, effect>>

\* Mutant: sync_idempotency is not consulted.
PassGateUnchecked(h) ==
  /\ phase[h] = "check" /\ todo[h] # <<>>
  /\ PermissionGate(Cur(h), access[h])
  /\ phase' = [phase EXCEPT ![h] = "read"]
  /\ UNCHANGED <<feedVars, stamped, todo, access, plan, answers, effect>>

\* Mutant: an operation the gate refuses gets no result.
PassGateSilently(h) ==
  /\ phase[h] = "check" /\ todo[h] # <<>>
  /\ stamped[Cur(h).opId] = "none"
  /\ PermissionGate(Cur(h), access[h])
  /\ phase' = [phase EXCEPT ![h] = "read"]
  /\ UNCHANGED <<feedVars, stamped, todo, access, plan, answers, effect>>

\* applyOp, 2): a new opId passes the permission gate or is rejected.
PassGate(h) ==
  /\ phase[h] = "check" /\ todo[h] # <<>>
  /\ stamped[Cur(h).opId] = "none"
  /\ \/ /\ PermissionGate(Cur(h), access[h])
        /\ phase' = [phase EXCEPT ![h] = "read"]
        /\ UNCHANGED <<todo, plan, answers>>
     \/ /\ ~PermissionGate(Cur(h), access[h])
        /\ Answer(h, "REJECTED", NoData)
  /\ UNCHANGED <<feedVars, stamped, access, effect>>

\* History: the database already is what operation o asks for.
Vacuous(o) ==
  effect' = [effect EXCEPT ![o] = IF @ = "written" THEN @ ELSE "vacuous"]

Decide(h, p) ==
  /\ plan' = [plan EXCEPT ![h] = p]
  /\ phase' = [phase EXCEPT ![h] = "write"]
  /\ UNCHANGED <<todo, answers, effect>>

\* No column differs: the statement that would write is skipped.
SkipWrite(h) ==
  /\ plan' = [plan EXCEPT ![h] = NoPlan]
  /\ phase' = [phase EXCEPT ![h] = "stamp"]
  /\ Vacuous(Cur(h).opId)
  /\ UNCHANGED <<todo, answers>>

Reply(h, outcome, server) ==
  /\ Answer(h, outcome, server)
  /\ UNCHANGED effect

\* applyDelete, up to its UPDATE.
DecideDelete(h, op, existing) ==
  LET e       == op.rec.entity
      refused == IsApproved(e, Sanitize(existing.data)) /\ ~access[h].facilityWide
  IN \/ /\ e \notin SoftDeleteEntity
        /\ Reply(h, "REJECTED", NoData)
     \/ /\ e \in SoftDeleteEntity /\ existing.version = 0
        /\ Answer(h, "APPLIED", NoData)
        /\ Vacuous(op.opId)
     \/ /\ e \in SoftDeleteEntity /\ existing.version > 0 /\ refused
        /\ Reply(h, "REJECTED", NoData)
     \/ /\ e \in SoftDeleteEntity /\ existing.version > 0 /\ ~refused
        /\ Decide(h, [write |-> "delete", set |-> NoData, outcome |-> "APPLIED"])

\* applyWrite on a missing row, up to its INSERT.
DecideCreate(h, op) ==
  LET incoming == Sanitize(op.data)
  IN IF op.kind = "PATCH" \/ (DOMAIN incoming = {} /\ op.rec.entity \notin StampedEntity)
     THEN Reply(h, "REJECTED", NoData)
     ELSE Decide(h, [write |-> "insert", set |-> incoming, outcome |-> "APPLIED"])

\* applyWrite on an existing row, up to its UPDATE: only columns that differ
\* from the row as it was read are written.
DecideUpdate(h, op, existing) ==
  LET e        == op.rec.entity
      server   == Sanitize(existing.data)
      incoming == Sanitize(op.data)
      action   == ResolveConflict(e, IsApproved(e, server))
      payload  == IF action = "MERGE" THEN MergeFieldwise(e, server, incoming) ELSE incoming
      kept     == IF action = "MERGE" THEN KeptFromServer(e, incoming) ELSE {}
      changed  == Only(payload, {f \in DOMAIN payload : payload[f] # At(server, f)})
      success  == IF action = "MERGE" THEN "MERGED" ELSE "APPLIED"
      applies  == action \in {"MERGE", "APPLY_CLIENT"}
  IN \/ action = "REJECT" /\ Reply(h, "REJECTED", server)
     \/ action = "KEEP_SERVER" /\ Reply(h, "CONFLICT", server)
     \/ applies /\ DOMAIN changed = {} /\ kept # {} /\ Reply(h, "CONFLICT", server)
     \/ applies /\ DOMAIN changed = {} /\ kept = {} /\ SkipWrite(h)
     \/ /\ applies /\ DOMAIN changed # {}
        /\ Decide(h, [write |-> "update", set |-> changed, outcome |-> success])

\* applyOp, 3): the scope query and the read of the row.
ReadRow(h) ==
  /\ phase[h] = "read"
  /\ LET op == Cur(h)
         existing == row[op.rec]
     IN \/ ~InScope(op, access[h]) /\ Reply(h, "REJECTED", NoData)
        \/ /\ InScope(op, access[h])
           /\ \/ op.kind = "DELETE" /\ DecideDelete(h, op, existing)
              \/ op.kind # "DELETE" /\ existing.version = 0 /\ DecideCreate(h, op)
              \/ op.kind # "DELETE" /\ existing.version > 0 /\ DecideUpdate(h, op, existing)
  /\ UNCHANGED <<feedVars, stamped, access>>

\* Mutant: the write does not wait for an office transaction on the row.
WriteRowUnlocked(h) ==
  /\ phase[h] = "write"
  /\ Commit(Cur(h).rec, [version |-> NextVersion(Cur(h).rec), deleted |-> FALSE,
                         data |-> Overlay(row[Cur(h).rec].data, plan[h].set)])
  /\ effect' = [effect EXCEPT ![Cur(h).opId] = "written"]
  /\ phase' = [phase EXCEPT ![h] = "stamp"]
  /\ UNCHANGED <<txn, stamped, todo, access, plan, answers>>

\* The INSERT or UPDATE, a statement of its own with the row's triggers.
\* UPDATE waits for the row lock of an open office transaction.
WriteRow(h) ==
  /\ phase[h] = "write"
  /\ LET op == Cur(h)
         old == row[op.rec]
         data == IF plan[h].write = "delete" THEN old.data ELSE Overlay(old.data, plan[h].set)
         deleted == old.deleted \/ plan[h].write = "delete"
     IN /\ plan[h].write = "insert" => old.version = 0
        /\ ~txn[op.rec].open
        /\ Commit(op.rec, [version |-> NextVersion(op.rec), deleted |-> deleted, data |-> data])
        /\ effect' = [effect EXCEPT ![op.opId] = "written"]
  /\ phase' = [phase EXCEPT ![h] = "stamp"]
  /\ UNCHANGED <<txn, stamped, todo, access, plan, answers>>

\* Mutant: the failed write is reported as the success it was meant to be.
WriteFailsSilently(h) ==
  /\ phase[h] = "write"
  /\ phase' = [phase EXCEPT ![h] = "stamp"]
  /\ UNCHANGED <<feedVars, stamped, todo, access, plan, answers, effect>>

\* The statement raises: the key exists by now, or a constraint or the
\* connection fails.  The catch of applyOp turns it into a rejection.
WriteFails(h) ==
  /\ phase[h] = "write"
  /\ ~txn[Cur(h).rec].open
  /\ Answer(h, "REJECTED", NoData)
  /\ UNCHANGED <<feedVars, stamped, access, effect>>

\* success: the opId is recorded; ON CONFLICT keeps an earlier record.
StampOp(h) ==
  /\ phase[h] = "stamp"
  /\ stamped' = [stamped EXCEPT ![Cur(h).opId] = IF @ = "none" THEN plan[h].outcome ELSE @]
  /\ Answer(h, plan[h].outcome, NoData)
  /\ UNCHANGED <<feedVars, access, effect>>

\* success, with nothing recorded: the error of its INSERT is swallowed, the
\* error of the sequence query before it makes applyOp report a rejection.
StampFails(h) ==
  /\ phase[h] = "stamp"
  /\ \E outcome \in {plan[h].outcome, "REJECTED"} : Answer(h, outcome, NoData)
  /\ UNCHANGED <<feedVars, stamped, access, effect>>

\* Mutant: the response leaves before every operation has its result.
FinishPushEarly(h) ==
  /\ phase[h] = "check"
  /\ phase' = [phase EXCEPT ![h] = "idle"]
  /\ access' = [access EXCEPT ![h] = NoAccess]
  /\ answers' = [answers EXCEPT ![h] = <<>>]
  /\ UNCHANGED <<feedVars, stamped, todo, plan, effect>>

\* The response leaves the server (nextCursor is lastSeq at this moment).
FinishPush(h) ==
  /\ phase[h] = "check" /\ todo[h] = <<>>
  /\ phase' = [phase EXCEPT ![h] = "idle"]
  /\ access' = [access EXCEPT ![h] = NoAccess]
  /\ answers' = [answers EXCEPT ![h] = <<>>]
  /\ UNCHANGED <<feedVars, stamped, todo, plan, effect>>

\* The API process dies: every request in progress is gone, the database stays.
ServerCrash ==
  /\ \E h \in Handler : phase[h] # "idle"
  /\ phase' = [h \in Handler |-> "idle"]
  /\ todo' = [h \in Handler |-> <<>>]
  /\ access' = [h \in Handler |-> NoAccess]
  /\ plan' = [h \in Handler |-> NoPlan]
  /\ answers' = [h \in Handler |-> <<>>]
  /\ txn' = [r \in Record |-> NoTxn]
  /\ UNCHANGED <<row, log, lastSeq, stamped, effect>>

-----------------------------------------------------------------------------
\* An office user's REST transaction on record r: the UPDATE (or INSERT) ...
RestWrite(r, f, v) ==
  /\ ~txn[r].open
  /\ lastSeq < MaxSeq
  /\ lastSeq' = lastSeq + 1
  /\ txn' = [txn EXCEPT ![r] =
       [open |-> TRUE, seq |-> lastSeq + 1,
        image |-> [row[r] EXCEPT !.version = NextVersion(r), !.data = [@ EXCEPT ![f] = v]]]]
  /\ UNCHANGED <<row, log, stamped, phase, todo, access, plan, answers, effect>>

\* ... becomes visible at commit ...
RestCommit(r) ==
  /\ txn[r].open
  /\ row' = [row EXCEPT ![r] = txn[r].image]
  /\ log' = log \cup {[seq |-> txn[r].seq, rec |-> r, version |-> txn[r].image.version,
                       deleted |-> txn[r].image.deleted, data |-> txn[r].image.data]}
  /\ txn' = [txn EXCEPT ![r] = NoTxn]
  /\ UNCHANGED <<lastSeq, stamped, phase, todo, access, plan, answers, effect>>

\* ... or is rolled back and leaves a hole in the sequence.
RestAbort(r) ==
  /\ txn[r].open
  /\ txn' = [txn EXCEPT ![r] = NoTxn]
  /\ UNCHANGED <<row, log, lastSeq, stamped, phase, todo, access, plan, answers, effect>>

-----------------------------------------------------------------------------
ServerTypeOK ==
  /\ row \in [Record -> Row]
  /\ txn \in [Record -> Txn]
  /\ log \subseteq Entry
  /\ lastSeq \in Nat
  /\ stamped \in [OpId -> OkOutcome \cup {"none"}]
  /\ phase \in [Handler -> {"idle", "check", "read", "write", "stamp"}]
  /\ todo \in [Handler -> Seq(Op)]
  /\ access \in [Handler -> AccessSet \cup {NoAccess}]
  /\ plan \in [Handler -> Plan]
  /\ answers \in [Handler -> Seq(Result)]
  /\ effect \in [OpId -> {"none", "vacuous", "written"}]
  /\ \A h \in Handler :
       /\ phase[h] = "idle" => todo[h] = <<>>
       /\ phase[h] \in {"read", "write", "stamp"} => todo[h] # <<>>

\* Every push is answered (or cut by a crash): no statement of a handler waits
\* for ever, not even on a row an office transaction holds.
EveryPushEnds == \A h \in Handler : phase[h] # "idle" ~> phase[h] = "idle"

\* No operation is acknowledged and lost: whatever sync_idempotency records,
\* and whatever success a handler is about to report, the database has taken
\* in, although the write and the record of the opId are separate statements
\* with crashes, failures and twin requests in between.
AckedOpTookEffect ==
  /\ \A o \in OpId : stamped[o] # "none" => effect[o] # "none"
  /\ \A h \in Handler : \A i \in 1..Len(answers[h]) :
       answers[h][i].outcome \in OkOutcome => effect[answers[h][i].opId] # "none"

\* The change feed replays to the database: the entry with the highest number
\* of a record is the record's row, whoever wrote it and in whatever order
\* the transactions committed.
FeedReplaysRows ==
  \A r \in Record :
    LET entries == {x \in log : x.rec = r}
    IN IF row[r].version = 0 THEN entries = {}
       ELSE \E x \in entries :
              /\ \A y \in entries : y.seq <= x.seq
              /\ x.version = row[r].version
              /\ x.deleted = row[r].deleted
              /\ x.data = row[r].data

\* What a push may do to a row that exists, even one decided from a row read
\* before an office user changed it: nothing to reject and server_wins
\* entities, and elsewhere never a protected or denied column, never a filled
\* column blanked, never a deletion undone.
MayPush(r) ==
  /\ r.entity \in FieldMergeEntity \cup AppendOnlyEntity
  /\ \A f \in Field : f \in ProtectedFields(r.entity) \cup DeniedColumns =>
       row'[r].data[f] = row[r].data[f]
  /\ r.entity \in FieldMergeEntity =>
       \A f \in Field : row[r].data[f] # Blank => row'[r].data[f] # Blank
  /\ row[r].deleted => row'[r].deleted

PushRespectsPolicy ==
  [][\A r \in Record : row[r].version > 0 /\ row'[r] # row[r] =>
       txn[r].open \/ MayPush(r)]_serverVars

=============================================================================
