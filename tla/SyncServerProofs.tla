-------------------------- MODULE SyncServerProofs --------------------------
(***************************************************************************)
(* Facts about the handlers of SyncServer, for every instance of the       *)
(* constants and whoever calls them: a step of the server preserves        *)
(* ServerTypeOK and the inductive invariants behind AckedOpTookEffect,     *)
(* FeedReplaysRows and PushRespectsPolicy.                                 *)
(***************************************************************************)
EXTENDS SyncServer, SequenceTheorems, TLAPS

-----------------------------------------------------------------------------
(* Record data.                                                              *)

\* A member of Data is a function from some of the fields to sets of lines.
LEMMA DataDomain ==
  ASSUME NEW d \in Data
  PROVE  DOMAIN d \subseteq Field /\ \A f \in DOMAIN d : d[f] \in SUBSET Value
BY DEF Data

\* Every such function is a member of Data.
LEMMA DataIntro ==
  ASSUME NEW F \in SUBSET Field, NEW d \in [F -> SUBSET Value]
  PROVE  d \in Data
BY DEF Data

\* The data of a row is data.
LEMMA RowDataIsData ==
  ASSUME NEW d \in RowData
  PROVE  d \in Data
BY DataIntro DEF RowData

\* A record without keys is data.
LEMMA NoDataIsData == NoData \in Data
<1>1. NoData \in [{} -> SUBSET Value]
  BY DEF NoData
<1> QED BY <1>1, DataIntro

\* At never leaves the field values.
LEMMA AtType ==
  ASSUME NEW d \in Data, NEW f
  PROVE  At(d, f) \in SUBSET Value
BY DataDomain DEF At, Blank

\* Restricting data to some fields gives data on those fields.
LEMMA OnlyType ==
  ASSUME NEW d \in Data, NEW S
  PROVE  /\ Only(d, S) \in Data
         /\ DOMAIN Only(d, S) = DOMAIN d \cap S
         /\ \A f \in DOMAIN d \cap S : Only(d, S)[f] = d[f]
<1>1. DOMAIN d \cap S \in SUBSET Field
  BY DataDomain
<1>2. Only(d, S) \in [DOMAIN d \cap S -> SUBSET Value]
  BY DataDomain DEF Only
<1> QED BY <1>1, <1>2, DataIntro DEF Only

\* What sanitize keeps is data without a denied column.
LEMMA SanitizeType ==
  ASSUME NEW d \in Data
  PROVE  Sanitize(d) \in Data /\ DOMAIN Sanitize(d) \cap DeniedColumns = {}
BY OnlyType DEF Sanitize, SafeColumns

\* A row overlaid with data is a row.
LEMMA OverlayType ==
  ASSUME NEW base \in RowData, NEW over \in Data
  PROVE  /\ Overlay(base, over) \in RowData
         /\ \A f \in Field :
              Overlay(base, over)[f] = IF f \in DOMAIN over THEN over[f] ELSE base[f]
<1>1. DOMAIN base \cup DOMAIN over = Field
  BY DataDomain DEF RowData
<1>2. \A f \in Field : (IF f \in DOMAIN over THEN over[f] ELSE base[f]) \in SUBSET Value
  BY DataDomain DEF RowData
<1> QED BY <1>1, <1>2 DEF Overlay, RowData

\* The field-wise merge of two records is a record.
LEMMA MergeType ==
  ASSUME NEW e, NEW server \in Data, NEW client \in Data
  PROVE  MergeFieldwise(e, server, client) \in Data
<1> DEFINE F == DOMAIN server \cup (DOMAIN client \ ProtectedFields(e))
<1>1. F \in SUBSET Field
  BY DataDomain
<1>2. MergeFieldwise(e, server, client) \in [F -> SUBSET Value]
  <2>1. ASSUME NEW f \in F
        PROVE  (IF f \in ProtectedFields(e) \/ At(client, f) = Blank THEN At(server, f)
                ELSE IF f \in AppendFields(e) THEN AppendValue(At(server, f), client[f])
                ELSE client[f]) \in SUBSET Value
    <3>1. CASE f \in ProtectedFields(e) \/ At(client, f) = Blank
      BY <3>1, AtType
    <3>2. CASE ~(f \in ProtectedFields(e) \/ At(client, f) = Blank)
      <4>1. At(client, f) = client[f] /\ client[f] \in SUBSET Value
        BY <3>2, DataDomain DEF At
      <4>2. At(server, f) \in SUBSET Value
        BY AtType
      <4>3. AppendValue(At(server, f), client[f]) \in SUBSET Value
        BY <4>1, <4>2 DEF AppendValue
      <4> QED BY <3>2, <4>1, <4>3
    <3> QED BY <3>1, <3>2
  <2> QED BY <2>1 DEF MergeFieldwise
<1> QED BY <1>1, <1>2, DataIntro

-----------------------------------------------------------------------------
(* The steps of the server, as a client of SyncServer may take them.         *)

Serve(h) ==
  \/ AnswerDuplicate(h) \/ PassGate(h) \/ ReadRow(h) \/ WriteRow(h)
  \/ WriteFails(h) \/ StampOp(h) \/ StampFails(h) \/ FinishPush(h)

OfficeStep(r) ==
  \/ \E f \in Field, v \in SUBSET Value : RestWrite(r, f, v)
  \/ RestCommit(r)
  \/ RestAbort(r)

ServerStep ==
  \/ \E h \in Handler, ops \in Seq(Op), acc \in AccessSet : ReceivePush(h, ops, acc)
  \/ \E h \in Handler : Serve(h)
  \/ \E r \in Record : OfficeStep(r)
  \/ ServerCrash

\* The conjuncts of ServerTypeOK about the database and about the handlers.
FeedTyped ==
  /\ row \in [Record -> Row]
  /\ txn \in [Record -> Txn]
  /\ log \subseteq Entry
  /\ lastSeq \in Nat

HandlersTyped ==
  /\ phase \in [Handler -> {"idle", "check", "read", "write", "stamp"}]
  /\ todo \in [Handler -> Seq(Op)]
  /\ access \in [Handler -> AccessSet \cup {NoAccess}]
  /\ plan \in [Handler -> Plan]
  /\ answers \in [Handler -> Seq(Result)]
  /\ \A h \in Handler :
       /\ phase[h] = "idle" => todo[h] = <<>>
       /\ phase[h] \in {"read", "write", "stamp"} => todo[h] # <<>>

HistoryTyped ==
  /\ stamped \in [OpId -> OkOutcome \cup {"none"}]
  /\ effect \in [OpId -> {"none", "vacuous", "written"}]

\* ServerTypeOK is these three, in a state and in the next one.
LEMMA TypeParts ==
  /\ ServerTypeOK <=> FeedTyped /\ HandlersTyped /\ HistoryTyped
  /\ ServerTypeOK' <=> FeedTyped' /\ HandlersTyped' /\ HistoryTyped'
BY DEF ServerTypeOK, FeedTyped, HandlersTyped, HistoryTyped

\* The operation a busy handler works on is an operation.
LEMMA CurType ==
  ASSUME HandlersTyped, NEW h \in Handler, todo[h] # <<>>
  PROVE  /\ Cur(h) \in Op
         /\ Cur(h).opId \in OpId /\ Cur(h).rec \in Record /\ Cur(h).data \in Data
         /\ Cur(h).kind \in OpKind
         /\ Tail(todo[h]) \in Seq(Op)
<1>1. todo[h] \in Seq(Op)
  BY DEF HandlersTyped
<1>2. Cur(h) \in Op /\ Tail(todo[h]) \in Seq(Op)
  BY <1>1, HeadTailProperties DEF Cur
<1> QED BY <1>2 DEF Op

\* The plan of a handler without one.
LEMMA NoPlanType == NoPlan \in Plan
BY NoDataIsData DEF NoPlan, Plan, OkOutcome

\* Answering an operation keeps the handlers well typed.
LEMMA AnswerType ==
  ASSUME HandlersTyped, NEW h \in Handler, todo[h] # <<>>,
         NEW outcome \in Outcome, NEW server \in Data,
         Answer(h, outcome, server), UNCHANGED access
  PROVE  HandlersTyped'
<1> DEFINE res == [opId |-> Cur(h).opId, rec |-> Cur(h).rec,
                   outcome |-> outcome, server |-> server]
<1>1. res \in Result
  BY CurType DEF Result
<1>2. Append(answers[h], res) \in Seq(Result)
  BY <1>1, AppendProperties DEF HandlersTyped
<1>3. answers' = [answers EXCEPT ![h] = Append(answers[h], res)]
  BY DEF Answer
<1>4. answers' \in [Handler -> Seq(Result)]
  BY <1>2, <1>3 DEF HandlersTyped
<1>5. Tail(todo[h]) \in Seq(Op)
  BY CurType
<1>6. /\ todo' = [todo EXCEPT ![h] = Tail(todo[h])]
      /\ phase' = [phase EXCEPT ![h] = "check"]
      /\ plan' = [plan EXCEPT ![h] = NoPlan]
  BY DEF Answer
<1>7. /\ todo' \in [Handler -> Seq(Op)]
      /\ phase' \in [Handler -> {"idle", "check", "read", "write", "stamp"}]
      /\ plan' \in [Handler -> Plan]
      /\ access' \in [Handler -> AccessSet \cup {NoAccess}]
  BY <1>5, <1>6, NoPlanType DEF HandlersTyped
<1>8. ASSUME NEW g \in Handler
      PROVE  /\ phase'[g] = "idle" => todo'[g] = <<>>
             /\ phase'[g] \in {"read", "write", "stamp"} => todo'[g] # <<>>
  BY <1>6 DEF HandlersTyped
<1> QED BY <1>4, <1>7, <1>8 DEF HandlersTyped

\* Moving on with a plan keeps the handlers well typed.
LEMMA MoveType ==
  ASSUME HandlersTyped, NEW h \in Handler, todo[h] # <<>>,
         NEW p \in Plan, NEW next \in {"read", "write", "stamp"},
         phase' = [phase EXCEPT ![h] = next], plan' = [plan EXCEPT ![h] = p],
         UNCHANGED <<todo, access, answers>>
  PROVE  HandlersTyped'
BY DEF HandlersTyped

\* A commit keeps the database well typed.
LEMMA CommitType ==
  ASSUME FeedTyped, NEW r \in Record, NEW image \in Row, Commit(r, image), UNCHANGED txn
  PROVE  FeedTyped'
<1>1. [seq |-> lastSeq + 1, rec |-> r, version |-> image.version,
       deleted |-> image.deleted, data |-> image.data] \in Entry
  BY DEF FeedTyped, Row, Entry
<1> QED BY <1>1 DEF FeedTyped, Commit

\* The next version of a row is a number above 0.
LEMMA NextVersionType ==
  ASSUME FeedTyped, NEW r \in Record
  PROVE  NextVersion(r) \in Nat /\ NextVersion(r) > 0
BY DEF FeedTyped, Row, NextVersion

-----------------------------------------------------------------------------
(* What the read of a row decides.                                           *)

\* The writes a plan may ask for: an update keeps to the columns the policy
\* leaves to clients, a delete is of a row clients may delete.
PlanAllowed(op, p) ==
  /\ p.write \in {"insert", "update", "delete"}
  /\ DOMAIN p.set \cap DeniedColumns = {}
  /\ p.write = "delete" => op.kind = "DELETE" /\ op.rec.entity \in SoftDeleteEntity
  /\ p.write = "update" =>
       /\ op.rec.entity \in FieldMergeEntity \cup AppendOnlyEntity
       /\ DOMAIN p.set \cap ProtectedFields(op.rec.entity) = {}
       /\ op.rec.entity \in FieldMergeEntity => \A f \in DOMAIN p.set : p.set[f] # Blank

\* The ways a read can end: a result without a write, a result or a stamp for
\* what the database already holds, or a plan.
RepliesWithoutEffect(h) ==
  \E outcome \in {"CONFLICT", "REJECTED"}, server \in Data :
    Answer(h, outcome, server) /\ UNCHANGED effect

AnswersVacuously(h) == Answer(h, "APPLIED", NoData) /\ Vacuous(Cur(h).opId)

Plans(h) == \E p \in Plan : PlanAllowed(Cur(h), p) /\ Decide(h, p)

\* applyDelete ends in one of these ways.
LEMMA DeleteOutcome ==
  ASSUME HandlersTyped, NEW h \in Handler, todo[h] # <<>>, Cur(h).kind = "DELETE",
         NEW existing \in Row, DecideDelete(h, Cur(h), existing)
  PROVE  RepliesWithoutEffect(h) \/ AnswersVacuously(h) \/ Plans(h)
<1> DEFINE p == [write |-> "delete", set |-> NoData, outcome |-> "APPLIED"]
           soft == Cur(h).rec.entity \in SoftDeleteEntity
<1>1. p \in Plan
  BY NoDataIsData DEF Plan, OkOutcome
<1>2. soft => PlanAllowed(Cur(h), p)
  BY DEF PlanAllowed, NoData
<1>3. \/ Reply(h, "REJECTED", NoData)
      \/ Answer(h, "APPLIED", NoData) /\ Vacuous(Cur(h).opId)
      \/ soft /\ Decide(h, p)
  BY DEF DecideDelete
<1> QED
  BY <1>1, <1>2, <1>3, NoDataIsData
  DEF Reply, RepliesWithoutEffect, AnswersVacuously, Plans

\* applyWrite on a missing row ends in one of these ways.
LEMMA CreateOutcome ==
  ASSUME HandlersTyped, NEW h \in Handler, todo[h] # <<>>, DecideCreate(h, Cur(h))
  PROVE  RepliesWithoutEffect(h) \/ Plans(h)
<1> DEFINE incoming == Sanitize(Cur(h).data)
           p == [write |-> "insert", set |-> incoming, outcome |-> "APPLIED"]
<1>1. incoming \in Data /\ DOMAIN incoming \cap DeniedColumns = {}
  BY CurType, SanitizeType
<1>2. p \in Plan /\ PlanAllowed(Cur(h), p)
  BY <1>1 DEF Plan, PlanAllowed, OkOutcome
<1>3. Reply(h, "REJECTED", NoData) \/ Decide(h, p)
  BY DEF DecideCreate
<1> QED BY <1>2, <1>3, NoDataIsData DEF Reply, RepliesWithoutEffect, Plans

\* A merge or an append changes no protected column, and a merge blanks none.
LEMMA ChangedColumns ==
  ASSUME NEW e \in Entity, NEW server \in Data, NEW incoming \in Data,
         NEW action \in {"MERGE", "APPLY_CLIENT"},
         action = "MERGE" => e \in FieldMergeEntity,
         action = "APPLY_CLIENT" => e \in AppendOnlyEntity,
         NEW payload,
         payload = IF action = "MERGE" THEN MergeFieldwise(e, server, incoming) ELSE incoming,
         NEW f \in DOMAIN payload, payload[f] # At(server, f)
  PROVE  /\ f \in DOMAIN server \cup DOMAIN incoming
         /\ f \notin ProtectedFields(e)
         /\ action = "MERGE" => payload[f] # Blank
<1>1. CASE action = "MERGE"
  <2>1. payload = MergeFieldwise(e, server, incoming)
    BY <1>1
  <2>2. f \in DOMAIN server \cup (DOMAIN incoming \ ProtectedFields(e))
    BY <2>1 DEF MergeFieldwise
  <2>3. payload[f] = IF f \in ProtectedFields(e) \/ At(incoming, f) = Blank THEN At(server, f)
                     ELSE IF f \in AppendFields(e) THEN AppendValue(At(server, f), incoming[f])
                     ELSE incoming[f]
    BY <2>1, <2>2 DEF MergeFieldwise
  <2>4. f \notin ProtectedFields(e) /\ At(incoming, f) # Blank
    BY <2>3
  <2>5. incoming[f] # Blank
    BY <2>4 DEF At
  <2>6. AppendValue(At(server, f), incoming[f]) # Blank
    BY <2>5 DEF AppendValue, Blank
  <2> QED BY <2>2, <2>3, <2>4, <2>5, <2>6
<1>2. CASE action = "APPLY_CLIENT"
  <2>1. ProtectedFields(e) = {}
    BY <1>2 DEF Entity, AppendOnlyEntity, FieldMergeEntity, RejectEntity, ServerWinsEntity,
               ProtectedFields
  <2> QED BY <1>2, <2>1
<1> QED BY <1>1, <1>2

\* applyWrite on an existing row ends in one of these ways.
LEMMA UpdateOutcome ==
  ASSUME HandlersTyped, NEW h \in Handler, todo[h] # <<>>,
         NEW existing \in Row, DecideUpdate(h, Cur(h), existing)
  PROVE  RepliesWithoutEffect(h) \/ SkipWrite(h) \/ Plans(h)
<1> DEFINE e        == Cur(h).rec.entity
           server   == Sanitize(existing.data)
           incoming == Sanitize(Cur(h).data)
           action   == ResolveConflict(e, IsApproved(e, server))
           payload  == IF action = "MERGE" THEN MergeFieldwise(e, server, incoming) ELSE incoming
           differs  == {f \in DOMAIN payload : payload[f] # At(server, f)}
           changed  == Only(payload, differs)
           success  == IF action = "MERGE" THEN "MERGED" ELSE "APPLIED"
           p == [write |-> "update", set |-> changed, outcome |-> success]
<1>1. e \in Entity
  BY CurType, RecordAssumption
<1>2. /\ server \in Data /\ DOMAIN server \cap DeniedColumns = {}
      /\ incoming \in Data /\ DOMAIN incoming \cap DeniedColumns = {}
  BY CurType, RowDataIsData, SanitizeType DEF Row
<1>3. payload \in Data
  BY <1>2, MergeType
<1>4. /\ changed \in Data
      /\ DOMAIN changed = differs
      /\ \A f \in differs : changed[f] = payload[f]
  <2>1. DOMAIN payload \cap differs = differs
    OBVIOUS
  <2> QED BY <1>3, <2>1, OnlyType
<1>5. /\ action = "MERGE" => e \in FieldMergeEntity
      /\ action = "APPLY_CLIENT" => e \in AppendOnlyEntity
  <2> HIDE DEF e
  <2>1. CASE IsApproved(e, server) /\ ProtectedFields(e) # {}
    BY <2>1 DEF ResolveConflict
  <2>2. CASE ~(IsApproved(e, server) /\ ProtectedFields(e) # {})
    BY <2>2 DEF ResolveConflict
  <2> QED BY <2>1, <2>2
<1>6. ASSUME action \in {"MERGE", "APPLY_CLIENT"}
      PROVE  p \in Plan /\ PlanAllowed(Cur(h), p)
  <2>1. p \in Plan
    BY <1>4 DEF Plan, OkOutcome
  <2>2. ASSUME NEW f \in differs
        PROVE  /\ f \in DOMAIN server \cup DOMAIN incoming
               /\ f \notin ProtectedFields(e)
               /\ action = "MERGE" => payload[f] # Blank
    <3>1. f \in DOMAIN payload /\ payload[f] # At(server, f)
      OBVIOUS
    <3> HIDE DEF e, server, incoming, action, payload
    <3> QED
      BY <1>1, <1>2, <1>5, <1>6, <3>1, ChangedColumns DEF payload
  <2>3. DOMAIN changed \cap DeniedColumns = {}
    BY <1>2, <1>4, <2>2
  <2>4. DOMAIN changed \cap ProtectedFields(e) = {}
    BY <1>4, <2>2
  <2>5. e \in FieldMergeEntity => \A f \in DOMAIN changed : changed[f] # Blank
    <3>1. e \in FieldMergeEntity => action = "MERGE"
      BY <1>5, <1>6 DEF AppendOnlyEntity
    <3> QED BY <1>4, <2>2, <3>1
  <2>6. e \in FieldMergeEntity \cup AppendOnlyEntity
    BY <1>5, <1>6
  <2> HIDE DEF changed
  <2> QED BY <2>1, <2>3, <2>4, <2>5, <2>6 DEF PlanAllowed
<1>7. \/ Reply(h, "REJECTED", server)
      \/ Reply(h, "CONFLICT", server)
      \/ SkipWrite(h)
      \/ action \in {"MERGE", "APPLY_CLIENT"} /\ Decide(h, p)
  BY DEF DecideUpdate
<1> HIDE DEF server, action, p
<1> QED BY <1>2, <1>6, <1>7 DEF Reply, RepliesWithoutEffect, Plans

\* The read of a row ends in one of these ways.
LEMMA ReadOutcome ==
  ASSUME FeedTyped, HandlersTyped, NEW h \in Handler, ReadRow(h)
  PROVE  /\ todo[h] # <<>>
         /\ UNCHANGED <<row, txn, log, lastSeq, stamped, access>>
         /\ \/ RepliesWithoutEffect(h) \/ AnswersVacuously(h)
            \/ SkipWrite(h) \/ Plans(h)
<1>1. todo[h] # <<>> /\ UNCHANGED <<row, txn, log, lastSeq, stamped, access>>
  BY DEF ReadRow, HandlersTyped, feedVars
<1>2. row[Cur(h).rec] \in Row
  BY <1>1, CurType DEF FeedTyped
<1>3. CASE Reply(h, "REJECTED", NoData)
  BY <1>1, <1>3, NoDataIsData DEF Reply, RepliesWithoutEffect
<1>4. CASE Cur(h).kind = "DELETE" /\ DecideDelete(h, Cur(h), row[Cur(h).rec])
  BY <1>1, <1>2, <1>4, DeleteOutcome
<1>5. CASE DecideCreate(h, Cur(h))
  BY <1>1, <1>5, CreateOutcome
<1>6. CASE DecideUpdate(h, Cur(h), row[Cur(h).rec])
  BY <1>1, <1>2, <1>6, UpdateOutcome
<1> QED BY <1>3, <1>4, <1>5, <1>6 DEF ReadRow

-----------------------------------------------------------------------------
(* Type correctness.                                                         *)

\* The initial state is well typed.
LEMMA TypeInit == ServerInit => ServerTypeOK
<1> SUFFICES ASSUME ServerInit PROVE ServerTypeOK
  OBVIOUS
<1>1. NoRow \in Row /\ NoTxn \in Txn
  BY DEF NoRow, Row, RowData, NoTxn, Txn, Blank
<1>2. FeedTyped
  BY <1>1 DEF ServerInit, FeedTyped
<1>3. <<>> \in Seq(Op) /\ <<>> \in Seq(Result)
  BY EmptySeq
<1>4. HandlersTyped
  BY <1>3, NoPlanType DEF ServerInit, HandlersTyped
<1>5. HistoryTyped
  BY DEF ServerInit, HistoryTyped
<1> QED BY <1>2, <1>4, <1>5, TypeParts

\* A read keeps the handlers and the history well typed.
LEMMA ReadType ==
  ASSUME FeedTyped, HandlersTyped, HistoryTyped, NEW h \in Handler, ReadRow(h)
  PROVE  FeedTyped' /\ HandlersTyped' /\ HistoryTyped'
<1>1. todo[h] # <<>> /\ UNCHANGED <<row, txn, log, lastSeq, stamped, access>>
  BY ReadOutcome
<1>2. FeedTyped'
  BY <1>1 DEF FeedTyped
<1>3. CASE RepliesWithoutEffect(h)
  <2>1. PICK outcome \in {"CONFLICT", "REJECTED"}, server \in Data :
          Answer(h, outcome, server) /\ UNCHANGED effect
    BY <1>3 DEF RepliesWithoutEffect
  <2>2. outcome \in Outcome
    BY DEF Outcome
  <2>3. HandlersTyped'
    BY <1>1, <2>1, <2>2, AnswerType
  <2> QED BY <1>1, <1>2, <2>1, <2>3 DEF HistoryTyped
<1>4. CASE AnswersVacuously(h)
  <2>1. "APPLIED" \in Outcome
    BY DEF Outcome, OkOutcome
  <2>2. HandlersTyped'
    BY <1>1, <1>4, <2>1, NoDataIsData, AnswerType DEF AnswersVacuously
  <2> QED BY <1>1, <1>2, <1>4, <2>2 DEF HistoryTyped, AnswersVacuously, Vacuous
<1>5. CASE SkipWrite(h)
  <2>1. HandlersTyped'
    <3>1. /\ phase' = [phase EXCEPT ![h] = "stamp"] /\ plan' = [plan EXCEPT ![h] = NoPlan]
          /\ UNCHANGED <<todo, access, answers>>
      BY <1>1, <1>5 DEF SkipWrite
    <3> QED BY <1>1, <3>1, NoPlanType, MoveType
  <2> QED BY <1>1, <1>2, <1>5, <2>1 DEF HistoryTyped, SkipWrite, Vacuous
<1>6. CASE Plans(h)
  <2>1. PICK p \in Plan : Decide(h, p)
    BY <1>6 DEF Plans
  <2>2. HandlersTyped'
    <3>1. /\ phase' = [phase EXCEPT ![h] = "write"] /\ plan' = [plan EXCEPT ![h] = p]
          /\ UNCHANGED <<todo, access, answers>>
      BY <1>1, <2>1 DEF Decide
    <3> QED BY <1>1, <3>1, MoveType
  <2> QED BY <1>1, <1>2, <2>1, <2>2 DEF HistoryTyped, Decide
<1> QED BY <1>3, <1>4, <1>5, <1>6, ReadOutcome

\* A write commits a well-typed row.
LEMMA WriteType ==
  ASSUME FeedTyped, HandlersTyped, HistoryTyped, NEW h \in Handler, WriteRow(h)
  PROVE  FeedTyped' /\ HandlersTyped' /\ HistoryTyped'
<1> DEFINE r == Cur(h).rec
           data == IF plan[h].write = "delete" THEN row[r].data
                   ELSE Overlay(row[r].data, plan[h].set)
           image == [version |-> NextVersion(r),
                     deleted |-> row[r].deleted \/ plan[h].write = "delete", data |-> data]
<1>1. todo[h] # <<>> /\ r \in Record /\ Cur(h).opId \in OpId
  BY CurType DEF WriteRow, HandlersTyped
<1>2. row[r] \in Row /\ plan[h] \in Plan
  BY <1>1 DEF FeedTyped, HandlersTyped
<1>3. data \in RowData
  BY <1>2, OverlayType DEF Row, Plan
<1>4. image \in Row
  BY <1>1, <1>2, <1>3, NextVersionType DEF Row
<1>5. Commit(r, image) /\ UNCHANGED txn
  BY DEF WriteRow
<1>6. FeedTyped'
  <2> HIDE DEF image, r
  <2> QED BY <1>1, <1>4, <1>5, CommitType
<1>7. /\ phase' = [phase EXCEPT ![h] = "stamp"]
      /\ effect' = [effect EXCEPT ![Cur(h).opId] = "written"]
      /\ UNCHANGED <<stamped, todo, access, plan, answers>>
  BY DEF WriteRow
<1>8. HandlersTyped'
  BY <1>1, <1>7 DEF HandlersTyped
<1>9. HistoryTyped'
  BY <1>7 DEF HistoryTyped
<1> QED BY <1>6, <1>8, <1>9

\* A stamp records a success.
LEMMA StampType ==
  ASSUME FeedTyped, HandlersTyped, HistoryTyped, NEW h \in Handler,
         StampOp(h) \/ StampFails(h)
  PROVE  FeedTyped' /\ HandlersTyped' /\ HistoryTyped'
<1>1. todo[h] # <<>> /\ plan[h].outcome \in OkOutcome
  BY DEF StampOp, StampFails, HandlersTyped, Plan
<1>2. {plan[h].outcome, "REJECTED"} \subseteq Outcome
  BY <1>1 DEF Outcome
<1>3. /\ \E outcome \in Outcome : Answer(h, outcome, NoData)
      /\ UNCHANGED <<row, txn, log, lastSeq, access, effect>>
  BY <1>2 DEF StampOp, StampFails, feedVars
<1>4. HandlersTyped'
  BY <1>1, <1>2, <1>3, NoDataIsData, AnswerType
<1>5. HistoryTyped'
  BY <1>1, <1>3 DEF HistoryTyped, StampOp, StampFails
<1> QED BY <1>3, <1>4, <1>5 DEF FeedTyped

\* Every step of the server keeps the state well typed.
LEMMA TypeStep ==
  ASSUME ServerTypeOK, ServerStep \/ UNCHANGED serverVars
  PROVE  ServerTypeOK'
<1> USE TypeParts
<1>1. ASSUME NEW h \in Handler, NEW ops \in Seq(Op), NEW acc \in AccessSet,
             ReceivePush(h, ops, acc)
      PROVE  ServerTypeOK'
  BY <1>1 DEF ReceivePush, FeedTyped, HandlersTyped, HistoryTyped, feedVars
<1>2. ASSUME NEW h \in Handler, AnswerDuplicate(h)
      PROVE  ServerTypeOK'
  <2>1. todo[h] # <<>> /\ Cur(h).opId \in OpId
    BY <1>2, CurType DEF AnswerDuplicate
  <2>2. stamped[Cur(h).opId] \in Outcome
    BY <1>2, <2>1 DEF AnswerDuplicate, HistoryTyped, Outcome
  <2>3. /\ Answer(h, stamped[Cur(h).opId], NoData)
        /\ UNCHANGED <<row, txn, log, lastSeq, stamped, access, effect>>
    BY <1>2 DEF AnswerDuplicate, feedVars
  <2>4. HandlersTyped'
    BY <2>1, <2>2, <2>3, NoDataIsData, AnswerType
  <2> QED BY <2>3, <2>4 DEF FeedTyped, HistoryTyped
<1>3. ASSUME NEW h \in Handler, PassGate(h)
      PROVE  ServerTypeOK'
  <2>1. todo[h] # <<>> /\ UNCHANGED <<row, txn, log, lastSeq, stamped, access, effect>>
    BY <1>3 DEF PassGate, feedVars
  <2>2. FeedTyped' /\ HistoryTyped'
    BY <2>1 DEF FeedTyped, HistoryTyped
  <2>3. CASE phase' = [phase EXCEPT ![h] = "read"] /\ UNCHANGED <<todo, plan, answers>>
    BY <2>1, <2>2, <2>3 DEF HandlersTyped
  <2>4. CASE Answer(h, "REJECTED", NoData)
    BY <2>1, <2>2, <2>4, NoDataIsData, AnswerType DEF Outcome
  <2> QED BY <1>3, <2>3, <2>4 DEF PassGate
<1>4. ASSUME NEW h \in Handler, ReadRow(h)
      PROVE  ServerTypeOK'
  BY <1>4, ReadType
<1>5. ASSUME NEW h \in Handler, WriteRow(h)
      PROVE  ServerTypeOK'
  BY <1>5, WriteType
<1>6. ASSUME NEW h \in Handler, WriteFails(h)
      PROVE  ServerTypeOK'
  <2>1. /\ todo[h] # <<>> /\ Answer(h, "REJECTED", NoData)
        /\ UNCHANGED <<row, txn, log, lastSeq, stamped, access, effect>>
    BY <1>6 DEF WriteFails, HandlersTyped, feedVars
  <2>2. HandlersTyped'
    BY <2>1, NoDataIsData, AnswerType DEF Outcome
  <2> QED BY <2>1, <2>2 DEF FeedTyped, HistoryTyped
<1>7. ASSUME NEW h \in Handler, StampOp(h) \/ StampFails(h)
      PROVE  ServerTypeOK'
  BY <1>7, StampType
<1>8. ASSUME NEW h \in Handler, FinishPush(h)
      PROVE  ServerTypeOK'
  BY <1>8, EmptySeq DEF FinishPush, FeedTyped, HandlersTyped, HistoryTyped, feedVars
<1>9. ASSUME NEW r \in Record, NEW f \in Field, NEW v \in SUBSET Value, RestWrite(r, f, v)
      PROVE  ServerTypeOK'
  <2> DEFINE image == [row[r] EXCEPT !.version = NextVersion(r), !.data = [@ EXCEPT ![f] = v]]
  <2>1. image \in Row
    BY NextVersionType DEF FeedTyped, Row, RowData
  <2>2. FeedTyped'
    BY <1>9, <2>1 DEF RestWrite, FeedTyped, Txn
  <2> QED BY <1>9, <2>2 DEF RestWrite, HandlersTyped, HistoryTyped
<1>10. ASSUME NEW r \in Record, RestCommit(r)
       PROVE  ServerTypeOK'
  <2>1. txn[r].image \in Row /\ txn[r].seq \in Nat /\ NoTxn \in Txn
    BY DEF FeedTyped, Txn, NoTxn, NoRow, Row, RowData, Blank
  <2>2. FeedTyped'
    BY <1>10, <2>1 DEF RestCommit, FeedTyped, Entry, Row
  <2> QED BY <1>10, <2>2 DEF RestCommit, HandlersTyped, HistoryTyped
<1>11. ASSUME NEW r \in Record, RestAbort(r)
       PROVE  ServerTypeOK'
  <2>1. NoTxn \in Txn
    BY DEF Txn, NoTxn, NoRow, Row, RowData, Blank
  <2> QED BY <1>11, <2>1 DEF RestAbort, FeedTyped, HandlersTyped, HistoryTyped
<1>12. ASSUME ServerCrash
       PROVE  ServerTypeOK'
  <2>1. NoTxn \in Txn
    BY DEF Txn, NoTxn, NoRow, Row, RowData, Blank
  <2> QED
    BY <1>12, <2>1, NoPlanType, EmptySeq
    DEF ServerCrash, FeedTyped, HandlersTyped, HistoryTyped
<1>13. ASSUME UNCHANGED serverVars
       PROVE  ServerTypeOK'
  BY <1>13 DEF serverVars, FeedTyped, HandlersTyped, HistoryTyped
<1> QED
  BY <1>1, <1>2, <1>3, <1>4, <1>5, <1>6, <1>7, <1>8, <1>9, <1>10, <1>11, <1>12, <1>13
  DEF ServerStep, Serve, OfficeStep

-----------------------------------------------------------------------------
(* No operation is acknowledged and lost.  The strengthening: an operation   *)
(* about to be stamped has taken effect.                                     *)

StampFollowsEffect ==
  \A h \in Handler : phase[h] = "stamp" => effect[Cur(h).opId] # "none"

AckInv == AckedOpTookEffect /\ StampFollowsEffect

\* No step takes an effect back.
LEMMA EffectGrows ==
  ASSUME ServerTypeOK, ServerStep \/ UNCHANGED serverVars,
         NEW o \in OpId, effect[o] # "none"
  PROVE  effect'[o] # "none"
<1>1. ASSUME NEW h \in Handler, ReadRow(h)
      PROVE  effect'[o] # "none"
  <2>1. UNCHANGED effect \/ Vacuous(Cur(h).opId)
    BY <1>1, TypeParts, ReadOutcome
    DEF RepliesWithoutEffect, AnswersVacuously, SkipWrite, Plans, Decide
  <2> QED BY <2>1, TypeParts DEF HistoryTyped, Vacuous
<1>2. ASSUME NEW h \in Handler, WriteRow(h)
      PROVE  effect'[o] # "none"
  <2>1. effect' = [effect EXCEPT ![Cur(h).opId] = "written"]
    BY <1>2 DEF WriteRow
  <2> QED BY <2>1, TypeParts DEF HistoryTyped
<1> QED
  BY <1>1, <1>2
  DEF ServerStep, Serve, OfficeStep, ReceivePush, AnswerDuplicate, PassGate, WriteFails,
      StampOp, StampFails, FinishPush, RestWrite, RestCommit, RestAbort, ServerCrash, serverVars

\* Answering keeps the acknowledgements honest when a success had its effect.
LEMMA AnswerAck ==
  ASSUME ServerTypeOK, AckInv, ServerStep, NEW h \in Handler, todo[h] # <<>>,
         NEW outcome \in Outcome, NEW server \in Data, Answer(h, outcome, server),
         outcome \in OkOutcome => effect'[Cur(h).opId] # "none",
         \A o \in OpId : stamped'[o] # "none" => effect'[o] # "none"
  PROVE  AckInv'
<1> USE TypeParts
<1> DEFINE res == [opId |-> Cur(h).opId, rec |-> Cur(h).rec,
                   outcome |-> outcome, server |-> server]
<1>1. res \in Result /\ answers[h] \in Seq(Result)
  BY CurType DEF Result, HandlersTyped
<1>2. /\ answers' = [answers EXCEPT ![h] = Append(answers[h], res)]
      /\ todo' = [todo EXCEPT ![h] = Tail(todo[h])]
      /\ phase' = [phase EXCEPT ![h] = "check"]
  BY DEF Answer
<1>3. ASSUME NEW g \in Handler, NEW i \in 1..Len(answers'[g]),
             answers'[g][i].outcome \in OkOutcome
      PROVE  effect'[answers'[g][i].opId] # "none"
  <2> HIDE DEF res
  <2>1. CASE g = h /\ i = Len(answers[h]) + 1
    <3>1. answers'[h] = Append(answers[h], res)
      BY <1>2 DEF HandlersTyped
    <3>2. answers'[g][i] = res
      BY <1>1, <2>1, <3>1, AppendProperties
    <3> QED BY <1>3, <3>2 DEF res
  <2>2. CASE ~(g = h /\ i = Len(answers[h]) + 1)
    <3>1. i \in 1..Len(answers[g]) /\ answers'[g][i] = answers[g][i]
      <4>1. CASE g = h
        <5>1. answers'[h] = Append(answers[h], res)
          BY <1>2 DEF HandlersTyped
        <5>2. Len(answers'[h]) = Len(answers[h]) + 1 /\ Len(answers[h]) \in Nat
          BY <1>1, <5>1, AppendProperties, LenProperties
        <5>3. i \in 1..Len(answers[h])
          BY <2>2, <4>1, <5>2
        <5> QED BY <1>1, <4>1, <5>1, <5>3, AppendProperties
      <4>2. CASE g # h
        BY <1>2, <4>2 DEF HandlersTyped
      <4> QED BY <4>1, <4>2
    <3>2. answers[g][i].opId \in OpId
      <4>1. answers[g] \in Seq(Result)
        BY DEF HandlersTyped
      <4>2. answers[g][i] \in Result
        BY <3>1, <4>1, ElementOfSeq
      <4> QED BY <4>2 DEF Result
    <3>3. effect[answers[g][i].opId] # "none"
      BY <1>3, <3>1 DEF AckInv, AckedOpTookEffect
    <3> QED BY <3>1, <3>2, <3>3, EffectGrows
  <2> QED BY <2>1, <2>2
<1>4. ASSUME NEW g \in Handler, phase'[g] = "stamp"
      PROVE  effect'[Cur(g)'.opId] # "none"
  <2>1. g # h /\ phase[g] = "stamp" /\ todo'[g] = todo[g]
    BY <1>2, <1>4 DEF HandlersTyped
  <2>2. Cur(g)' = Cur(g)
    BY <2>1 DEF Cur
  <2>3. Cur(g).opId \in OpId
    BY <2>1, CurType DEF HandlersTyped
  <2>4. effect[Cur(g).opId] # "none"
    BY <2>1 DEF AckInv, StampFollowsEffect
  <2> QED BY <2>2, <2>3, <2>4, EffectGrows
<1> QED BY <1>3, <1>4 DEF AckInv, AckedOpTookEffect, StampFollowsEffect

\* Moving on keeps the acknowledgements honest.
LEMMA MoveAck ==
  ASSUME ServerTypeOK, AckInv, ServerStep, NEW h \in Handler, todo[h] # <<>>,
         UNCHANGED <<stamped, todo, answers>>,
         NEW next \in {"read", "write", "stamp"}, phase' = [phase EXCEPT ![h] = next],
         next = "stamp" => effect'[Cur(h).opId] # "none"
  PROVE  AckInv'
<1> USE TypeParts
<1>1. ASSUME NEW o \in OpId, stamped'[o] # "none"
      PROVE  effect'[o] # "none"
  BY <1>1, EffectGrows DEF AckInv, AckedOpTookEffect
<1>2. ASSUME NEW g \in Handler, NEW i \in 1..Len(answers[g]),
             answers[g][i].outcome \in OkOutcome
      PROVE  effect'[answers[g][i].opId] # "none"
  <2>1. answers[g] \in Seq(Result)
    BY DEF HandlersTyped
  <2>2. answers[g][i] \in Result
    BY <2>1, ElementOfSeq
  <2>3. answers[g][i].opId \in OpId
    BY <2>2 DEF Result
  <2> QED BY <1>2, <2>3, EffectGrows DEF AckInv, AckedOpTookEffect
<1>3. ASSUME NEW g \in Handler, phase'[g] = "stamp"
      PROVE  effect'[Cur(g)'.opId] # "none"
  <2>1. Cur(g)' = Cur(g)
    BY DEF Cur
  <2>2. CASE g = h
    BY <1>3, <2>1, <2>2 DEF HandlersTyped
  <2>3. CASE g # h
    <3>1. phase[g] = "stamp"
      BY <1>3, <2>3 DEF HandlersTyped
    <3>2. Cur(g).opId \in OpId
      BY <3>1, CurType DEF HandlersTyped
    <3> QED BY <2>1, <3>1, <3>2, EffectGrows DEF AckInv, StampFollowsEffect
  <2> QED BY <2>2, <2>3
<1> QED BY <1>1, <1>2, <1>3 DEF AckInv, AckedOpTookEffect, StampFollowsEffect

\* The initial state acknowledges nothing.
LEMMA AckInit == ServerInit => AckInv
<1>1. Len(<<>>) = 0
  BY EmptySeq
<1> QED BY <1>1 DEF ServerInit, AckInv, AckedOpTookEffect, StampFollowsEffect

\* Every step of the server keeps the acknowledgements honest.
LEMMA AckStep ==
  ASSUME ServerTypeOK, AckInv, ServerStep \/ UNCHANGED serverVars
  PROVE  AckInv'
<1> USE TypeParts
<1> DEFINE Stamped == \A o \in OpId : stamped[o] # "none" => effect[o] # "none"
           Answered == \A g \in Handler : \A i \in 1..Len(answers[g]) :
                         answers[g][i].outcome \in OkOutcome => effect[answers[g][i].opId] # "none"
<1>0. ASSUME NEW o \in OpId, UNCHANGED stamped, stamped'[o] # "none", ServerStep
      PROVE  effect'[o] # "none"
  BY <1>0, EffectGrows DEF AckInv, AckedOpTookEffect
<1>1. ASSUME NEW h \in Handler, NEW ops \in Seq(Op), NEW acc \in AccessSet,
             ReceivePush(h, ops, acc)
      PROVE  AckInv'
  <2>1. /\ UNCHANGED <<stamped, answers, effect>>
        /\ todo' = [todo EXCEPT ![h] = ops]
        /\ phase' = [phase EXCEPT ![h] = "check"]
    BY <1>1 DEF ReceivePush
  <2>2. ASSUME NEW g \in Handler, phase'[g] = "stamp"
        PROVE  effect'[Cur(g)'.opId] # "none"
    <3>1. g # h /\ phase[g] = "stamp" /\ todo'[g] = todo[g]
      BY <2>1, <2>2 DEF HandlersTyped
    <3> QED BY <2>1, <3>1 DEF AckInv, StampFollowsEffect, Cur
  <2> QED BY <2>1, <2>2 DEF AckInv, AckedOpTookEffect, StampFollowsEffect
<1>2. ASSUME NEW h \in Handler, AnswerDuplicate(h)
      PROVE  AckInv'
  <2>1. /\ todo[h] # <<>> /\ stamped[Cur(h).opId] # "none"
        /\ Answer(h, stamped[Cur(h).opId], NoData)
        /\ UNCHANGED <<stamped, effect>>
    BY <1>2 DEF AnswerDuplicate
  <2>2. Cur(h).opId \in OpId
    BY <2>1, CurType
  <2>3. stamped[Cur(h).opId] \in Outcome
    BY <2>1, <2>2 DEF HistoryTyped, Outcome
  <2>4. effect'[Cur(h).opId] # "none"
    BY <2>1, <2>2 DEF AckInv, AckedOpTookEffect
  <2>5. ServerStep
    BY <1>2 DEF ServerStep, Serve
  <2> QED BY <1>0, <2>1, <2>3, <2>4, <2>5, NoDataIsData, AnswerAck
<1>3. ASSUME NEW h \in Handler, PassGate(h)
      PROVE  AckInv'
  <2>1. todo[h] # <<>> /\ UNCHANGED <<stamped, effect>> /\ ServerStep
    BY <1>3 DEF PassGate, ServerStep, Serve
  <2>2. CASE phase' = [phase EXCEPT ![h] = "read"] /\ UNCHANGED <<todo, plan, answers>>
    BY <2>1, <2>2, MoveAck
  <2>3. CASE Answer(h, "REJECTED", NoData)
    BY <1>0, <2>1, <2>3, NoDataIsData, AnswerAck DEF Outcome, OkOutcome
  <2> QED BY <1>3, <2>2, <2>3 DEF PassGate
<1>4. ASSUME NEW h \in Handler, ReadRow(h)
      PROVE  AckInv'
  <2>1. todo[h] # <<>> /\ UNCHANGED stamped /\ ServerStep
    BY <1>4, ReadOutcome DEF ServerStep, Serve
  <2>2. Cur(h).opId \in OpId
    BY <2>1, CurType
  <2>3. Vacuous(Cur(h).opId) => effect'[Cur(h).opId] # "none"
    BY <2>2 DEF Vacuous, HistoryTyped
  <2>4. CASE RepliesWithoutEffect(h)
    <3>1. PICK outcome \in {"CONFLICT", "REJECTED"}, server \in Data : Answer(h, outcome, server)
      BY <2>4 DEF RepliesWithoutEffect
    <3>2. outcome \in Outcome /\ outcome \notin OkOutcome
      BY DEF Outcome, OkOutcome
    <3> QED BY <1>0, <2>1, <3>1, <3>2, AnswerAck
  <2>5. CASE AnswersVacuously(h)
    <3>1. "APPLIED" \in Outcome
      BY DEF Outcome, OkOutcome
    <3> QED BY <1>0, <2>1, <2>3, <2>5, <3>1, NoDataIsData, AnswerAck DEF AnswersVacuously
  <2>6. CASE SkipWrite(h)
    <3>1. UNCHANGED <<stamped, todo, answers>> /\ phase' = [phase EXCEPT ![h] = "stamp"]
      BY <2>1, <2>6 DEF SkipWrite
    <3>2. effect'[Cur(h).opId] # "none"
      BY <2>3, <2>6 DEF SkipWrite
    <3> QED BY <2>1, <3>1, <3>2, MoveAck
  <2>7. CASE Plans(h)
    <3>1. UNCHANGED <<stamped, todo, answers>> /\ phase' = [phase EXCEPT ![h] = "write"]
      BY <2>1, <2>7 DEF Plans, Decide
    <3> QED BY <2>1, <3>1, MoveAck
  <2> QED BY <1>4, <2>4, <2>5, <2>6, <2>7, ReadOutcome
<1>5. ASSUME NEW h \in Handler, WriteRow(h)
      PROVE  AckInv'
  <2>1. /\ todo[h] # <<>> /\ UNCHANGED <<stamped, todo, answers>>
        /\ phase' = [phase EXCEPT ![h] = "stamp"]
        /\ effect' = [effect EXCEPT ![Cur(h).opId] = "written"]
    BY <1>5 DEF WriteRow, HandlersTyped
  <2>2. effect'[Cur(h).opId] # "none"
    BY <2>1, CurType DEF HistoryTyped
  <2>3. ServerStep
    BY <1>5 DEF ServerStep, Serve
  <2> QED BY <2>1, <2>2, <2>3, MoveAck
<1>6. ASSUME NEW h \in Handler, WriteFails(h)
      PROVE  AckInv'
  <2>1. /\ todo[h] # <<>> /\ Answer(h, "REJECTED", NoData) /\ UNCHANGED stamped /\ ServerStep
    BY <1>6 DEF WriteFails, HandlersTyped, ServerStep, Serve
  <2> QED BY <1>0, <2>1, NoDataIsData, AnswerAck DEF Outcome, OkOutcome
<1>7. ASSUME NEW h \in Handler, StampOp(h) \/ StampFails(h)
      PROVE  AckInv'
  <2>1. /\ todo[h] # <<>> /\ phase[h] = "stamp" /\ plan[h].outcome \in OkOutcome
        /\ UNCHANGED effect /\ ServerStep
    BY <1>7 DEF StampOp, StampFails, HandlersTyped, Plan, ServerStep, Serve
  <2>2. \E outcome \in Outcome : Answer(h, outcome, NoData)
    BY <1>7, <2>1 DEF StampOp, StampFails, Outcome
  <2>3. effect'[Cur(h).opId] # "none"
    BY <2>1 DEF AckInv, StampFollowsEffect
  <2>4. \A o \in OpId : stamped'[o] # "none" => effect'[o] # "none"
    BY <1>7, <2>1, <2>3 DEF StampOp, StampFails, HistoryTyped, AckInv, AckedOpTookEffect
  <2> QED BY <2>1, <2>2, <2>3, <2>4, NoDataIsData, AnswerAck
<1>8. ASSUME NEW h \in Handler, FinishPush(h)
      PROVE  AckInv'
  <2>1. /\ answers' = [answers EXCEPT ![h] = <<>>] /\ phase' = [phase EXCEPT ![h] = "idle"]
        /\ UNCHANGED <<stamped, todo, effect>> /\ Len(<<>>) = 0
    BY <1>8, EmptySeq DEF FinishPush
  <2>2. Answered'
    BY <2>1 DEF HandlersTyped, AckInv, AckedOpTookEffect
  <2>3. StampFollowsEffect'
    BY <2>1 DEF HandlersTyped, AckInv, StampFollowsEffect, Cur
  <2>4. Stamped'
    BY <2>1 DEF AckInv, AckedOpTookEffect
  <2> QED BY <2>2, <2>3, <2>4 DEF AckInv, AckedOpTookEffect
<1>9. ASSUME ServerCrash
      PROVE  AckInv'
  <2>1. /\ answers' = [h \in Handler |-> <<>>] /\ phase' = [h \in Handler |-> "idle"]
        /\ UNCHANGED <<stamped, effect>> /\ Len(<<>>) = 0
    BY <1>9, EmptySeq DEF ServerCrash
  <2> QED BY <2>1 DEF AckInv, AckedOpTookEffect, StampFollowsEffect
<1>10. ASSUME UNCHANGED <<stamped, phase, todo, answers, effect>>
       PROVE  AckInv'
  BY <1>10 DEF AckInv, AckedOpTookEffect, StampFollowsEffect, Cur
<1>11. (\E r \in Record : OfficeStep(r)) \/ UNCHANGED serverVars
         => UNCHANGED <<stamped, phase, todo, answers, effect>>
  BY DEF OfficeStep, RestWrite, RestCommit, RestAbort, serverVars
<1> QED
  BY <1>1, <1>2, <1>3, <1>4, <1>5, <1>6, <1>7, <1>8, <1>9, <1>10, <1>11 DEF ServerStep, Serve

-----------------------------------------------------------------------------
(* The change feed replays to the database.  The strengthening: no number of *)
(* the feed is beyond the sequence, and the number an open office            *)
(* transaction drew is above those of its record's entries, because the row  *)
(* lock keeps every other writer of that record out until it ends.           *)

OpenTxnIsNewest ==
  /\ \A x \in log : x.seq <= lastSeq
  /\ \A r \in Record : txn[r].open =>
       /\ txn[r].seq <= lastSeq
       /\ txn[r].image.version > 0
       /\ \A x \in log : x.rec = r => x.seq < txn[r].seq

FeedInv == FeedReplaysRows /\ OpenTxnIsNewest

\* The initial feed is empty, as the database is.
LEMMA FeedInit == ServerInit => FeedInv
BY DEF ServerInit, FeedInv, FeedReplaysRows, OpenTxnIsNewest, NoRow, NoTxn

\* An entry of record r above its others, with the image that becomes r's row.
LEMMA FeedGrows ==
  ASSUME FeedTyped, FeedReplaysRows, NEW r \in Record, NEW image \in Row, NEW n \in Nat,
         image.version > 0,
         \A x \in log : x.rec = r => x.seq < n,
         row' = [row EXCEPT ![r] = image],
         log' = log \cup {[seq |-> n, rec |-> r, version |-> image.version,
                           deleted |-> image.deleted, data |-> image.data]}
  PROVE  FeedReplaysRows'
<1> DEFINE new == [seq |-> n, rec |-> r, version |-> image.version,
                   deleted |-> image.deleted, data |-> image.data]
<1>1. row'[r] = image
  BY DEF FeedTyped
<1>2. new \in log' /\ new.rec = r
  OBVIOUS
<1>3. ASSUME NEW y \in log', y.rec = r
      PROVE  y.seq <= new.seq
  <2>1. CASE y = new
    BY <2>1
  <2>2. CASE y \in log
    BY <1>3, <2>2 DEF FeedTyped, Entry
  <2> QED BY <2>1, <2>2
<1>4. row'[r].version # 0
  BY <1>1 DEF Row
<1>5. ASSUME NEW q \in Record, q # r
      PROVE  /\ row'[q] = row[q]
             /\ {x \in log' : x.rec = q} = {x \in log : x.rec = q}
  BY <1>5 DEF FeedTyped
<1> HIDE DEF new
<1>6. \E x \in {z \in log' : z.rec = r} :
        /\ \A y \in {z \in log' : z.rec = r} : y.seq <= x.seq
        /\ x.version = row'[r].version
        /\ x.deleted = row'[r].deleted
        /\ x.data = row'[r].data
  <2>1. new.version = row'[r].version /\ new.deleted = row'[r].deleted /\ new.data = row'[r].data
    BY <1>1 DEF new
  <2> QED BY <1>2, <1>3, <2>1
<1> QED BY <1>4, <1>5, <1>6 DEF FeedReplaysRows

\* A handler's write extends the feed.
LEMMA WriteFeed ==
  ASSUME ServerTypeOK, FeedInv, NEW h \in Handler, WriteRow(h)
  PROVE  FeedInv'
<1> USE TypeParts
<1> DEFINE r == Cur(h).rec
           data == IF plan[h].write = "delete" THEN row[r].data
                   ELSE Overlay(row[r].data, plan[h].set)
           image == [version |-> NextVersion(r),
                     deleted |-> row[r].deleted \/ plan[h].write = "delete", data |-> data]
<1>1. todo[h] # <<>> /\ r \in Record
  BY CurType DEF WriteRow, HandlersTyped
<1>2. row[r] \in Row /\ plan[h] \in Plan
  BY <1>1 DEF FeedTyped, HandlersTyped
<1>3. data \in RowData
  BY <1>2, OverlayType DEF Row, Plan
<1>4. image \in Row /\ image.version > 0
  BY <1>1, <1>2, <1>3, NextVersionType DEF Row
<1>5. Commit(r, image) /\ UNCHANGED txn /\ ~txn[r].open
  BY DEF WriteRow
<1> HIDE DEF image, r
<1>6. \A x \in log : x.seq < lastSeq + 1
  BY DEF FeedInv, OpenTxnIsNewest, FeedTyped, Entry
<1>7. FeedReplaysRows'
  <2>1. /\ row' = [row EXCEPT ![r] = image]
        /\ log' = log \cup {[seq |-> lastSeq + 1, rec |-> r, version |-> image.version,
                             deleted |-> image.deleted, data |-> image.data]}
    BY <1>5 DEF Commit
  <2>2. lastSeq + 1 \in Nat /\ FeedTyped /\ FeedReplaysRows
    BY DEF FeedTyped, FeedInv
  <2> QED BY <1>1, <1>4, <1>6, <2>1, <2>2, FeedGrows
<1>8. OpenTxnIsNewest'
  <2>1. ASSUME NEW x \in log'
        PROVE  x.seq <= lastSeq' /\ (x \in log \/ x.rec = r)
    BY <1>5, <1>6 DEF Commit, FeedTyped, Entry
  <2>2. ASSUME NEW q \in Record, txn'[q].open
        PROVE  /\ txn'[q].seq <= lastSeq'
               /\ txn'[q].image.version > 0
               /\ \A x \in log' : x.rec = q => x.seq < txn'[q].seq
    <3>1. q # r /\ txn[q] \in Txn
      BY <1>5, <2>2 DEF FeedTyped
    <3>2. txn'[q] = txn[q] /\ lastSeq' = lastSeq + 1
      BY <1>5 DEF Commit
    <3>3. txn'[q].seq <= lastSeq' /\ txn'[q].image.version > 0
      BY <2>2, <3>1, <3>2 DEF FeedInv, OpenTxnIsNewest, FeedTyped, Txn
    <3>4. \A x \in log' : x.rec = q => x \in log
      BY <2>1, <3>1
    <3>5. \A x \in log : x.rec = q => x.seq < txn'[q].seq
      BY <2>2, <3>2 DEF FeedInv, OpenTxnIsNewest
    <3> QED BY <3>3, <3>4, <3>5
  <2> QED BY <2>1, <2>2 DEF OpenTxnIsNewest
<1> QED BY <1>7, <1>8 DEF FeedInv

\* Every step of the server keeps the feed in line with the database.
LEMMA FeedStep ==
  ASSUME ServerTypeOK, FeedInv, ServerStep \/ UNCHANGED serverVars
  PROVE  FeedInv'
<1> USE TypeParts
<1>1. ASSUME NEW h \in Handler, WriteRow(h)
      PROVE  FeedInv'
  BY <1>1, WriteFeed
<1>2. ASSUME NEW r \in Record, NEW f \in Field, NEW v \in SUBSET Value, RestWrite(r, f, v)
      PROVE  FeedInv'
  <2> DEFINE image == [row[r] EXCEPT !.version = NextVersion(r), !.data = [@ EXCEPT ![f] = v]]
  <2>1. image.version > 0
    BY NextVersionType DEF FeedTyped, Row
  <2> HIDE DEF image
  <2>2. /\ txn' = [txn EXCEPT ![r] = [open |-> TRUE, seq |-> lastSeq + 1, image |-> image]]
        /\ lastSeq' = lastSeq + 1 /\ UNCHANGED <<row, log>>
    BY <1>2 DEF RestWrite, image
  <2>3. FeedReplaysRows'
    BY <2>2 DEF FeedInv, FeedReplaysRows
  <2>4. \A x \in log : x.seq <= lastSeq' /\ x.seq < lastSeq + 1
    BY <2>2 DEF FeedInv, OpenTxnIsNewest, FeedTyped, Entry
  <2>5. ASSUME NEW q \in Record, txn'[q].open
        PROVE  /\ txn'[q].seq <= lastSeq'
               /\ txn'[q].image.version > 0
               /\ \A x \in log : x.rec = q => x.seq < txn'[q].seq
    <3>1. CASE q = r
      <4>1. txn'[q] = [open |-> TRUE, seq |-> lastSeq + 1, image |-> image]
        BY <2>2, <3>1 DEF FeedTyped
      <4> QED BY <2>1, <2>2, <2>4, <4>1 DEF FeedTyped
    <3>2. CASE q # r
      <4>1. txn'[q] = txn[q] /\ txn[q] \in Txn
        BY <2>2, <3>2 DEF FeedTyped
      <4> QED BY <2>2, <2>5, <4>1 DEF FeedInv, OpenTxnIsNewest, FeedTyped, Txn
    <3> QED BY <3>1, <3>2
  <2> QED BY <2>2, <2>3, <2>4, <2>5 DEF FeedInv, OpenTxnIsNewest
<1>3. ASSUME NEW r \in Record, RestCommit(r)
      PROVE  FeedInv'
  <2>1. /\ txn[r] \in Txn /\ txn[r].image \in Row /\ txn[r].seq \in Nat
        /\ txn[r].image.version > 0 /\ txn[r].seq <= lastSeq
        /\ \A x \in log : x.rec = r => x.seq < txn[r].seq
    BY <1>3 DEF RestCommit, FeedTyped, Txn, FeedInv, OpenTxnIsNewest
  <2>2. /\ row' = [row EXCEPT ![r] = txn[r].image]
        /\ log' = log \cup {[seq |-> txn[r].seq, rec |-> r, version |-> txn[r].image.version,
                             deleted |-> txn[r].image.deleted, data |-> txn[r].image.data]}
        /\ txn' = [txn EXCEPT ![r] = NoTxn]
        /\ UNCHANGED lastSeq
    BY <1>3 DEF RestCommit
  <2>3. FeedReplaysRows'
    BY <2>1, <2>2, FeedGrows DEF FeedInv
  <2>4. ASSUME NEW x \in log'
        PROVE  x.seq <= lastSeq /\ (x \in log \/ x.rec = r)
    BY <2>1, <2>2 DEF FeedInv, OpenTxnIsNewest
  <2>5. ASSUME NEW q \in Record, txn'[q].open
        PROVE  q # r /\ txn'[q] = txn[q]
    BY <2>2, <2>5 DEF FeedTyped, NoTxn
  <2> QED BY <2>2, <2>3, <2>4, <2>5 DEF FeedInv, OpenTxnIsNewest
<1>4. ASSUME NEW r \in Record, RestAbort(r)
      PROVE  FeedInv'
  <2>1. txn' = [txn EXCEPT ![r] = NoTxn] /\ UNCHANGED <<row, log, lastSeq>>
    BY <1>4 DEF RestAbort
  <2>2. ASSUME NEW q \in Record, txn'[q].open
        PROVE  txn'[q] = txn[q]
    BY <2>1, <2>2 DEF FeedTyped, NoTxn
  <2> QED BY <2>1, <2>2 DEF FeedInv, FeedReplaysRows, OpenTxnIsNewest
<1>5. ASSUME ServerCrash
      PROVE  FeedInv'
  <2>1. txn' = [r \in Record |-> NoTxn] /\ UNCHANGED <<row, log, lastSeq>>
    BY <1>5 DEF ServerCrash
  <2> QED BY <2>1 DEF NoTxn, FeedInv, FeedReplaysRows, OpenTxnIsNewest
<1>6. ASSUME NEW h \in Handler, ReadRow(h)
      PROVE  FeedInv'
  <2>1. UNCHANGED <<row, txn, log, lastSeq>>
    BY <1>6, ReadOutcome
  <2> QED BY <2>1 DEF FeedInv, FeedReplaysRows, OpenTxnIsNewest
<1>7. ASSUME UNCHANGED <<row, txn, log, lastSeq>>
      PROVE  FeedInv'
  BY <1>7 DEF FeedInv, FeedReplaysRows, OpenTxnIsNewest
<1>8. ASSUME NEW h \in Handler,
             \/ AnswerDuplicate(h) \/ PassGate(h) \/ WriteFails(h) \/ StampOp(h)
             \/ StampFails(h) \/ FinishPush(h)
             \/ \E ops \in Seq(Op), acc \in AccessSet : ReceivePush(h, ops, acc)
      PROVE  UNCHANGED <<row, txn, log, lastSeq>>
  BY <1>8
  DEF AnswerDuplicate, PassGate, WriteFails, StampOp, StampFails, FinishPush, ReceivePush, feedVars
<1>9. UNCHANGED serverVars => UNCHANGED <<row, txn, log, lastSeq>>
  BY DEF serverVars
<1> QED
  BY <1>1, <1>2, <1>3, <1>4, <1>5, <1>6, <1>7, <1>8, <1>9 DEF ServerStep, Serve, OfficeStep

-----------------------------------------------------------------------------
(* Pushes respect the policy.  The strengthening: the operation of a handler *)
(* that reads or writes has passed the gate, and a plan asks only for what   *)
(* the policy allows, from when it is decided to when it is written.         *)

PlanInv ==
  \A h \in Handler :
    /\ phase[h] \in {"read", "write"} => PermissionGate(Cur(h), access[h])
    /\ phase[h] = "write" => PlanAllowed(Cur(h), plan[h])

\* The action of PushRespectsPolicy.
PolicyAction ==
  \A r \in Record : row[r].version > 0 /\ row'[r] # row[r] => txn[r].open \/ MayPush(r)

\* The initial state has no plan.
LEMMA PlanInit == ServerInit => PlanInv
BY DEF ServerInit, PlanInv

\* The other handlers' operations and plans stay as they are.
LEMMA PlanFrame ==
  ASSUME HandlersTyped, PlanInv, NEW h \in Handler,
         \A g \in Handler \ {h} : /\ phase'[g] = phase[g] /\ todo'[g] = todo[g]
                                  /\ access'[g] = access[g] /\ plan'[g] = plan[g],
         phase'[h] \in {"read", "write"} => PermissionGate(Cur(h)', access'[h]),
         phase'[h] = "write" => PlanAllowed(Cur(h)', plan'[h])
  PROVE  PlanInv'
<1>1. ASSUME NEW g \in Handler, g # h
      PROVE  Cur(g)' = Cur(g) /\ phase'[g] = phase[g] /\ access'[g] = access[g] /\ plan'[g] = plan[g]
  BY <1>1 DEF Cur
<1> QED BY <1>1 DEF PlanInv

\* An answered operation leaves no plan behind.
LEMMA AnswerPlan ==
  ASSUME HandlersTyped, PlanInv, NEW h \in Handler, NEW outcome, NEW server,
         Answer(h, outcome, server), UNCHANGED access
  PROVE  PlanInv'
<1>1. /\ todo' = [todo EXCEPT ![h] = Tail(todo[h])]
      /\ phase' = [phase EXCEPT ![h] = "check"]
      /\ plan' = [plan EXCEPT ![h] = NoPlan]
  BY DEF Answer
<1>2. /\ phase'[h] = "check"
      /\ \A g \in Handler \ {h} : /\ phase'[g] = phase[g] /\ todo'[g] = todo[g]
                                  /\ access'[g] = access[g] /\ plan'[g] = plan[g]
  BY <1>1 DEF HandlersTyped
<1> QED BY <1>2, PlanFrame

\* Every step of the server keeps the plans within the policy.
LEMMA PlanStep ==
  ASSUME ServerTypeOK, PlanInv, ServerStep \/ UNCHANGED serverVars
  PROVE  PlanInv'
<1> USE TypeParts
<1>1. ASSUME NEW h \in Handler,
             \/ \E ops \in Seq(Op), acc \in AccessSet : ReceivePush(h, ops, acc)
             \/ WriteRow(h) \/ FinishPush(h)
      PROVE  PlanInv'
  <2>1. /\ phase'[h] \in {"check", "stamp", "idle"}
        /\ \A g \in Handler \ {h} : /\ phase'[g] = phase[g] /\ todo'[g] = todo[g]
                                    /\ access'[g] = access[g] /\ plan'[g] = plan[g]
    BY <1>1 DEF ReceivePush, WriteRow, FinishPush, HandlersTyped
  <2> QED BY <2>1, PlanFrame
<1>2. ASSUME NEW h \in Handler, NEW outcome, NEW server,
             Answer(h, outcome, server), UNCHANGED access
      PROVE  PlanInv'
  BY <1>2, AnswerPlan
<1>3. ASSUME NEW h \in Handler, PassGate(h)
      PROVE  PlanInv'
  <2>1. CASE Answer(h, "REJECTED", NoData)
    BY <1>2, <1>3, <2>1 DEF PassGate
  <2>2. CASE /\ PermissionGate(Cur(h), access[h]) /\ phase' = [phase EXCEPT ![h] = "read"]
             /\ UNCHANGED <<todo, plan, answers>>
    <3>1. UNCHANGED access /\ Cur(h)' = Cur(h) /\ phase'[h] = "read"
      BY <1>3, <2>2 DEF PassGate, Cur, HandlersTyped
    <3>2. \A g \in Handler \ {h} : /\ phase'[g] = phase[g] /\ todo'[g] = todo[g]
                                   /\ access'[g] = access[g] /\ plan'[g] = plan[g]
      BY <2>2, <3>1 DEF HandlersTyped
    <3> QED BY <2>2, <3>1, <3>2, PlanFrame
  <2> QED BY <1>3, <2>1, <2>2 DEF PassGate
<1>4. ASSUME NEW h \in Handler, ReadRow(h)
      PROVE  PlanInv'
  <2>1. UNCHANGED access /\ phase[h] = "read"
    BY <1>4, ReadOutcome DEF ReadRow
  <2>2. CASE RepliesWithoutEffect(h) \/ AnswersVacuously(h)
    BY <1>2, <2>1, <2>2 DEF RepliesWithoutEffect, AnswersVacuously
  <2>3. CASE SkipWrite(h)
    <3>1. /\ phase' = [phase EXCEPT ![h] = "stamp"]
          /\ plan' = [plan EXCEPT ![h] = NoPlan] /\ UNCHANGED todo
      BY <2>3 DEF SkipWrite
    <3>2. /\ phase'[h] = "stamp"
          /\ \A g \in Handler \ {h} : /\ phase'[g] = phase[g] /\ todo'[g] = todo[g]
                                      /\ access'[g] = access[g] /\ plan'[g] = plan[g]
      BY <2>1, <3>1 DEF HandlersTyped
    <3> QED BY <3>2, PlanFrame
  <2>4. CASE Plans(h)
    <3>1. PICK p \in Plan : PlanAllowed(Cur(h), p) /\ Decide(h, p)
      BY <2>4 DEF Plans
    <3>2. /\ phase' = [phase EXCEPT ![h] = "write"]
          /\ plan' = [plan EXCEPT ![h] = p] /\ UNCHANGED todo
      BY <3>1 DEF Decide
    <3>3. /\ Cur(h)' = Cur(h) /\ plan'[h] = p
          /\ \A g \in Handler \ {h} : /\ phase'[g] = phase[g] /\ todo'[g] = todo[g]
                                      /\ access'[g] = access[g] /\ plan'[g] = plan[g]
      BY <2>1, <3>2 DEF Cur, HandlersTyped
    <3>4. PermissionGate(Cur(h), access[h])
      BY <2>1 DEF PlanInv
    <3> QED BY <2>1, <3>1, <3>3, <3>4, PlanFrame
  <2> QED BY <1>4, <2>2, <2>3, <2>4, ReadOutcome
<1>5. ASSUME ServerCrash
      PROVE  PlanInv'
  BY <1>5 DEF ServerCrash, PlanInv
<1>6. ASSUME UNCHANGED <<phase, todo, access, plan>>
      PROVE  PlanInv'
  BY <1>6 DEF PlanInv, Cur
<1>7. ASSUME NEW h \in Handler,
             AnswerDuplicate(h) \/ WriteFails(h) \/ StampOp(h) \/ StampFails(h)
      PROVE  PlanInv'
  BY <1>2, <1>7 DEF AnswerDuplicate, WriteFails, StampOp, StampFails
<1>8. (\E r \in Record : OfficeStep(r)) \/ UNCHANGED serverVars
        => UNCHANGED <<phase, todo, access, plan>>
  BY DEF OfficeStep, RestWrite, RestCommit, RestAbort, serverVars
<1> QED BY <1>1, <1>3, <1>4, <1>5, <1>6, <1>7, <1>8 DEF ServerStep, Serve

\* A write within its plan is one the policy allows, whatever happened to the
\* row since it was read.
LEMMA WritePolicy ==
  ASSUME ServerTypeOK, PlanInv, NEW h \in Handler, WriteRow(h),
         NEW r \in Record, row[r].version > 0, row'[r] # row[r]
  PROVE  MayPush(r)
<1> USE TypeParts
<1> DEFINE data == IF plan[h].write = "delete" THEN row[r].data
                   ELSE Overlay(row[r].data, plan[h].set)
           image == [version |-> NextVersion(r),
                     deleted |-> row[r].deleted \/ plan[h].write = "delete", data |-> data]
<1>1. todo[h] # <<>> /\ Cur(h).rec \in Record /\ Cur(h).kind \in OpKind
  BY CurType DEF WriteRow, HandlersTyped
<1>2. r = Cur(h).rec
  BY <1>1 DEF WriteRow, Commit, FeedTyped
<1>3. row[r] \in Row /\ plan[h] \in Plan
  BY DEF FeedTyped, HandlersTyped
<1>4. row'[r] = image
  BY <1>2 DEF WriteRow, Commit, FeedTyped
<1>5. PermissionGate(Cur(h), access[h]) /\ PlanAllowed(Cur(h), plan[h])
  BY DEF WriteRow, PlanInv
<1>6. row[r].deleted => row'[r].deleted
  <2>1. row'[r].deleted = (row[r].deleted \/ plan[h].write = "delete")
    BY <1>4
  <2>2. ASSUME row[r].deleted PROVE (row[r].deleted \/ plan[h].write = "delete") = TRUE
    BY <2>2
  <2>3. ASSUME row[r].deleted PROVE row'[r].deleted = TRUE
    BY <2>1, <2>2, <2>3
  <2> QED BY <2>3
<1>7. plan[h].write \in {"update", "delete"}
  BY <1>2, <1>3, <1>5 DEF WriteRow, PlanAllowed, Row
<1>8. CASE plan[h].write = "delete"
  <2>1. r.entity \in SoftDeleteEntity /\ r.entity \notin {"asset", "document"}
    BY <1>2, <1>5, <1>8 DEF PlanAllowed, PermissionGate, RestOnlyEntity
  <2>2. r.entity \in FieldMergeEntity
    BY <2>1 DEF SoftDeleteEntity, FieldMergeEntity
  <2>3. row'[r].data = row[r].data
    BY <1>4, <1>8
  <2> QED BY <1>6, <2>2, <2>3 DEF MayPush
<1>9. CASE plan[h].write = "update"
  <2>1. /\ r.entity \in FieldMergeEntity \cup AppendOnlyEntity
        /\ DOMAIN plan[h].set \cap ProtectedFields(r.entity) = {}
        /\ DOMAIN plan[h].set \cap DeniedColumns = {}
        /\ r.entity \in FieldMergeEntity => \A f \in DOMAIN plan[h].set : plan[h].set[f] # Blank
    BY <1>2, <1>5, <1>9 DEF PlanAllowed
  <2>2. \A f \in Field :
          row'[r].data[f] = IF f \in DOMAIN plan[h].set THEN plan[h].set[f] ELSE row[r].data[f]
    BY <1>3, <1>4, <1>9, OverlayType DEF Row, Plan
  <2>3. \A f \in Field : f \in ProtectedFields(r.entity) \cup DeniedColumns =>
          row'[r].data[f] = row[r].data[f]
    BY <2>1, <2>2
  <2>4. r.entity \in FieldMergeEntity =>
          \A f \in Field : row[r].data[f] # Blank => row'[r].data[f] # Blank
    BY <2>1, <2>2
  <2> QED BY <1>6, <2>1, <2>3, <2>4 DEF MayPush
<1> QED BY <1>7, <1>8, <1>9

\* Every step of the server respects the policy.
LEMMA PolicyStep ==
  ASSUME ServerTypeOK, PlanInv, ServerStep \/ UNCHANGED serverVars
  PROVE  PolicyAction
<1> USE TypeParts
<1>1. ASSUME NEW h \in Handler, WriteRow(h)
      PROVE  PolicyAction
  BY <1>1, WritePolicy DEF PolicyAction
<1>2. ASSUME NEW h \in Handler, ReadRow(h)
      PROVE  UNCHANGED row
  BY <1>2, ReadOutcome
<1>3. ASSUME NEW q \in Record, RestCommit(q)
      PROVE  PolicyAction
  <2>1. txn[q].open /\ row' = [row EXCEPT ![q] = txn[q].image]
    BY <1>3 DEF RestCommit
  <2>2. \A r \in Record : r # q => row'[r] = row[r]
    BY <2>1 DEF FeedTyped
  <2> QED BY <2>1, <2>2 DEF PolicyAction
<1>4. ASSUME UNCHANGED row
      PROVE  PolicyAction
  BY <1>4 DEF PolicyAction
<1>5. ASSUME NEW h \in Handler,
             \/ AnswerDuplicate(h) \/ PassGate(h) \/ WriteFails(h) \/ StampOp(h)
             \/ StampFails(h) \/ FinishPush(h)
             \/ \E ops \in Seq(Op), acc \in AccessSet : ReceivePush(h, ops, acc)
      PROVE  UNCHANGED row
  BY <1>5
  DEF AnswerDuplicate, PassGate, WriteFails, StampOp, StampFails, FinishPush, ReceivePush, feedVars
<1>6. ASSUME NEW r \in Record,
             \/ RestAbort(r)
             \/ \E f \in Field, v \in SUBSET Value : RestWrite(r, f, v)
      PROVE  UNCHANGED row
  BY <1>6 DEF RestAbort, RestWrite
<1>7. ServerCrash \/ UNCHANGED serverVars => UNCHANGED row
  BY DEF ServerCrash, serverVars
<1> QED
  BY <1>1, <1>2, <1>3, <1>4, <1>5, <1>6, <1>7 DEF ServerStep, Serve, OfficeStep

=============================================================================
