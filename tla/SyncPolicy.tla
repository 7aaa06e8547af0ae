----------------------------- MODULE SyncPolicy -----------------------------
(***************************************************************************)
(* The offline-sync contract shared by the server and the devices          *)
(* (packages/domain/src/sync.ts): the table of synchronised entities, the  *)
(* field-wise merge, the conflict decision and the validity of a push.     *)
(*                                                                         *)
(* Data.  A field value is the set of its lines: {} is a blank value       *)
(* (undefined, null or empty), a scalar is a singleton, and an append      *)
(* field (description, notes, ...) may hold several lines.  The order of   *)
(* the lines is abstracted.  A record's data is a function from the field  *)
(* names it carries to their values: on a device the domain may be partial *)
(* (an absent key and a blank key differ for protected fields), on the     *)
(* server it is the whole row.                                             *)
(***************************************************************************)
EXTENDS Naturals, Sequences, FiniteSets

CONSTANTS
  Field,      \* the column names the records of a model use
  Value,      \* the lines a column may hold
  Record,     \* the records, each an [entity, id] pair as in "entity:id"
  OpId        \* the idempotency keys of operations

Entity == {"workOrder", "workOrderLog", "laborEntry", "partIssue", "shiftLog",
           "processParam", "downtime", "alarmAck", "labSample", "labResult",
           "permit", "asset", "assetReading", "pmPlanInstance",
           "attendancePunch", "leaveRequest", "mobileFormRecord", "document",
           "notificationAck"}

ASSUME RecordAssumption == \A r \in Record : r.entity \in Entity

OpKind == {"UPSERT", "PATCH", "DELETE"}

FieldMergeEntity == {"workOrder", "shiftLog", "downtime", "labSample",
                     "labResult", "leaveRequest"}
RejectEntity     == {"partIssue", "permit"}
ServerWinsEntity == {"asset", "pmPlanInstance"}
AppendOnlyEntity ==
  Entity \ (FieldMergeEntity \cup RejectEntity \cup ServerWinsEntity)
RestOnlyEntity   == {"document"}
ServerIdEntity   == {"partIssue", "asset", "pmPlanInstance", "notificationAck"}

ProtectedFields(e) ==
  CASE e = "workOrder" -> {"status", "approverId", "partsCost", "laborCost",
                           "contractorCost", "assetId", "targetEndAt"}
    [] e = "shiftLog"     -> {"status", "approvedById", "approvedAt"}
    [] e = "downtime"     -> {"verifiedById", "verifiedAt"}
    [] e = "labSample"    -> {"status", "workOrderId"}
    [] e = "labResult"    -> {"verifiedById", "verifiedAt"}
    [] e = "permit"       -> {"status", "areaApproverId", "hseApproverId", "closedAt"}
    [] e = "leaveRequest" -> {"status", "approverUserId", "decidedAt"}
    [] OTHER              -> {}

AppendFields(e) ==
  CASE e = "workOrder" -> {"description"}
    [] e = "shiftLog"  -> {"notes", "eventsJson"}
    [] e = "downtime"  -> {"causeNotes"}
    [] e = "labResult" -> {"remarks"}
    [] OTHER           -> {}

PushPriority(e) ==
  CASE e \in {"workOrderLog", "partIssue", "shiftLog", "downtime", "alarmAck",
              "permit", "mobileFormRecord"} -> 1
    [] e \in {"asset", "attendancePunch", "leaveRequest", "document",
              "notificationAck"} -> 3
    [] OTHER -> 2

-----------------------------------------------------------------------------
Blank == {}

\* Records whose keys are some of the fields, and records with every field.
Data    == UNION {[F -> SUBSET Value] : F \in SUBSET Field}
RowData == [Field -> SUBSET Value]
NoData  == [f \in {} |-> Blank]
At(d, f) == IF f \in DOMAIN d THEN d[f] ELSE Blank

\* { ...base, ...over }
Overlay(base, over) ==
  [f \in DOMAIN base \cup DOMAIN over |->
     IF f \in DOMAIN over THEN over[f] ELSE base[f]]

Only(d, fields) == [f \in DOMAIN d \cap fields |-> d[f]]

\* Mutant: the client's text replaces the server's.
AppendValueReplacing(serverVal, clientVal) == clientVal

\* Event fields: the client's lines are added to the server's, once each.
AppendValue(serverVal, clientVal) == serverVal \cup clientVal

\* Mutant: protected fields are merged like the others.
MergeUnprotected(e, server, client) ==
  [f \in DOMAIN server \cup DOMAIN client |->
     IF At(client, f) = Blank THEN At(server, f)
     ELSE IF f \in AppendFields(e) THEN AppendValue(At(server, f), client[f])
     ELSE client[f]]

MergeFieldwise(e, server, client) ==
  [f \in DOMAIN server \cup (DOMAIN client \ ProtectedFields(e)) |->
     IF f \in ProtectedFields(e) \/ At(client, f) = Blank THEN At(server, f)
     ELSE IF f \in AppendFields(e) THEN AppendValue(At(server, f), client[f])
     ELSE client[f]]

KeptFromServer(e, client) == DOMAIN client \cap ProtectedFields(e)

ResolveConflict(e, serverApproved) ==
  CASE serverApproved /\ ProtectedFields(e) # {} ->
         (IF e \in FieldMergeEntity THEN "MERGE" ELSE "KEEP_SERVER")
    [] e \in AppendOnlyEntity -> "APPLY_CLIENT"
    [] e \in FieldMergeEntity -> "MERGE"
    [] e \in ServerWinsEntity -> "KEEP_SERVER"
    [] OTHER                  -> "REJECT"

-----------------------------------------------------------------------------
\* A change operation: op.at stands for clientTimestamp, which only orders a
\* device's own operations.
Op == [opId: OpId, rec: Record, kind: OpKind, data: Data, at: Nat]

\* What the server demands of a batch before it looks at any operation.
ValidPush(ops) ==
  /\ \A i, j \in 1..Len(ops) : ops[i].opId = ops[j].opId => i = j
  /\ \A i \in 1..Len(ops) :
       /\ ops[i].kind = "DELETE" => ops[i].rec.entity \notin ServerIdEntity
       /\ ops[i].kind = "PATCH" => DOMAIN ops[i].data # {}

=============================================================================
