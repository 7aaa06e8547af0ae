----------------------------- MODULE OfflineSync -----------------------------
(***************************************************************************)
(* Devices and server together: the sync client every device runs          *)
(* (packages/domain/src/client.ts, with the desktop's wipe of              *)
(* apps/desktop/src/data) against the handlers of SyncServer.              *)
(*                                                                         *)
(* A device keeps its records, its queue of operations, its conflicts and  *)
(* its cursor in a durable store; one sync cycle at a time pushes the      *)
(* queue in batches and then pulls pages of the change feed, every request *)
(* and every store access being a step others interleave with: the user    *)
(* goes on editing, office users edit, the network drops a request or its  *)
(* answer, the device or the server restarts.  A handler whose device gave *)
(* up goes on all the same.                                                *)
(*                                                                         *)
(* Left out: schemaVersion, clock skew, backoff delays, maxPullPages, and  *)
(* a record of an opId that fails (PushService has it).                    *)
(***************************************************************************)
EXTENDS SyncServer

CONSTANTS
  Device,
  Desktop,      \* the devices that run the desktop app (the others: the phone's)
  LocalEdits,   \* the [rec, kind, data] edits a user may make
  PullScope,    \* PullScope[d]: the records whose changes d may read
  RestEdits,    \* the [rec, field, value] edits office users may make
  BatchSize,    \* operations in one push
  PageLimit,    \* changes in one pull
  MaxGap,       \* distance to the end of the feed that asks for a full resync
  MaxEdits,     \* bound: edits per device
  MaxFaults,    \* bound: lost requests and crashes in a behaviour
  WriteErrors   \* may the database refuse a write that could succeed?

WorkOrderKey(r) == [entity |-> "workOrder", id |-> r.id]

ASSUME DeviceAssumption ==
  /\ \A r \in Record : WorkOrderKey(r) \in Record
  /\ Desktop \subseteq Device
  /\ {BatchSize, PageLimit} \subseteq Nat \ {0}
  /\ {MaxGap, MaxEdits, MaxFaults} \subseteq Nat
  /\ OpId = Device \X (1..2 * MaxEdits)
  /\ PullScope \in [Device -> SUBSET Record]
  /\ WriteErrors \in BOOLEAN
  /\ "none" \notin Handler

ASSUME EditsAssumption ==
  /\ LocalEdits \subseteq [rec: Record, kind: OpKind, data: Data]
  /\ RestEdits \subseteq [rec: Record, field: Field, value: SUBSET Value]

VARIABLES
  store,      \* store[d][r]: the local copy of record r
  pending,    \* pending[d]: the queued operations
  conflicts,  \* conflicts[d]: the conflicts waiting for the user
  cursor,     \* cursor[d]: the stored feed position
  draft,      \* draft[d]: a queue() call under way
  opEntity,   \* opEntity[d]: the opIds whose entity the process remembers
  cycle,      \* cycle[d]: the sync cycle under way
  failed,     \* failed[d]: the opIds whose pending entry holds an error
  made,       \* made[d]: edits made so far; also the device's clock
  seen,       \* history: the feed numbers d took over
  faults      \* faults so far

deviceVars == <<store, pending, conflicts, cursor, draft, opEntity, cycle, failed,
                made, seen>>
vars == <<serverVars, deviceVars, faults>>

-----------------------------------------------------------------------------
\* Mutant: the entity of the operation is not remembered.
FiledUnderWorkOrder(d, result) == WorkOrderKey(result.rec)

\* entityOf falls back to workOrder, so a record may be filed under that key.
FiledUnder(d, result) ==
  IF result.opId \in opEntity[d] THEN result.rec ELSE WorkOrderKey(result.rec)

Absent == [known |-> FALSE, version |-> 0, deleted |-> FALSE, data |-> NoData]
Local(version, deleted, data) ==
  [known |-> TRUE, version |-> version, deleted |-> deleted, data |-> data]

NoDraft == [stage |-> "none"]
Resting == [step |-> "idle", ops |-> <<>>, asked |-> "none", results |-> <<>>,
            changes |-> <<>>, held |-> Absent, reached |-> 0, more |-> FALSE]

\* planPushBatches: by priority, then by client timestamp.
Before(a, b) ==
  LET pa == PushPriority(a.rec.entity)
      pb == PushPriority(b.rec.entity)
  IN pa < pb \/ (pa = pb /\ a.at < b.at)
PushOrder(ops) ==
  CHOOSE s \in [1..Cardinality(ops) -> ops] :
    \A i, j \in 1..Cardinality(ops) : i < j => s[i] # s[j] /\ ~Before(s[j], s[i])

Prefix(s, n) == SubSeq(s, 1, IF n < Len(s) THEN n ELSE Len(s))

\* pull: the visible entries after a position, in feed order.
FeedAfter(d, position) ==
  LET news == {x \in log : x.seq > position /\ x.rec \in PullScope[d]}
  IN CHOOSE s \in [1..Cardinality(news) -> news] :
       \A i, j \in 1..Cardinality(news) : i < j => s[i].seq < s[j].seq

\* applyRemoteChange: what the store holds of a record after change x, having
\* held `held` when the change was taken up.
RemoteApplied(x, held) ==
  LET e == x.rec.entity
  IN CASE x.deleted -> Local(x.version, e \notin AppendOnlyEntity, Overlay(held.data, x.data))
       [] ~x.deleted /\ held.known /\ e \in FieldMergeEntity ->
            Local(x.version, FALSE, MergeFieldwise(e, x.data, held.data))
       [] OTHER -> Local(x.version, FALSE, x.data)

\* mergeServerRecord: the local data after a conflict answer.
ServerMerged(e, server, client) ==
  IF e \in AppendOnlyEntity \cup ServerWinsEntity THEN server
  ELSE MergeFieldwise(e, server, client)

-----------------------------------------------------------------------------
Init ==
  /\ ServerInit
  /\ store = [d \in Device |-> [k \in Record |-> Absent]]
  /\ pending = [d \in Device |-> {}]
  /\ conflicts = [d \in Device |-> {}]
  /\ cursor = [d \in Device |-> 0]
  /\ draft = [d \in Device |-> NoDraft]
  /\ opEntity = [d \in Device |-> {}]
  /\ cycle = [d \in Device |-> Resting]
  /\ failed = [d \in Device |-> {}]
  /\ made = [d \in Device |-> 0]
  /\ seen = [d \in Device |-> {}]
  /\ faults = 0

\* Mutant: addPending without the key on opId.
AddPendingTwice(d, ops, op) == ops \cup {op}

\* addPending: the desktop's store replaces an entry of the same opId, the
\* phone's keeps the one it has.
AddPending(d, ops, op) ==
  LET same == {x \in ops : x.opId = op.opId}
  IN IF d \in Desktop THEN (ops \ same) \cup {op}
     ELSE IF same = {} THEN ops \cup {op} ELSE ops

\* The opIds in the queue.
Queued(d) == {op.opId : op \in pending[d]}

Without(entries, opId) == {x \in entries : x.opId # opId}

Step(d, step) == cycle[d].step = step
GoTo(d, step) == cycle' = [cycle EXCEPT ![d].step = step]

-----------------------------------------------------------------------------
(* queue(): read the record and build the operation, write the record, add   *)
(* the operation to the queue.  The screens (repo.ts, fieldRepo.ts) create   *)
(* a record under a fresh id and edit or delete one they show.               *)
QueueRead(d) ==
  /\ draft[d] = NoDraft
  /\ made[d] < MaxEdits
  /\ made' = [made EXCEPT ![d] = @ + 1]
  /\ \E edit \in LocalEdits :
       LET current == store[d][edit.rec]
           data == IF edit.kind = "PATCH" THEN Overlay(current.data, edit.data) ELSE edit.data
           op == [opId |-> <<d, made[d] + 1>>, rec |-> edit.rec, kind |-> edit.kind,
                  data |-> data, at |-> made[d] + 1]
       IN /\ (edit.kind = "UPSERT") = ~current.known
          /\ draft' = [draft EXCEPT ![d] = [stage |-> "write", op |-> op, current |-> current]]
  /\ UNCHANGED <<serverVars, store, pending, conflicts, cursor, opEntity, cycle, failed, seen, faults>>

QueueWrite(d) ==
  /\ draft[d].stage = "write"
  /\ LET op == draft[d].op
         current == draft[d].current
     IN store' =
          IF op.kind # "DELETE"
          THEN [store EXCEPT ![d][op.rec] = Local(current.version + 1, FALSE, op.data)]
          ELSE IF op.rec.entity \notin AppendOnlyEntity
          THEN [store EXCEPT ![d][op.rec] = Local(current.version + 1, TRUE, current.data)]
          ELSE store
  /\ draft' = [draft EXCEPT ![d].stage = "add"]
  /\ UNCHANGED <<serverVars, pending, conflicts, cursor, opEntity, cycle, failed, made, seen, faults>>

QueueAdd(d) ==
  /\ draft[d].stage = "add"
  /\ pending' = [pending EXCEPT ![d] = AddPending(d, @, draft[d].op)]
  /\ opEntity' = [opEntity EXCEPT ![d] = @ \cup {draft[d].op.opId}]
  /\ draft' = [draft EXCEPT ![d] = NoDraft]
  /\ UNCHANGED <<serverVars, store, conflicts, cursor, cycle, failed, made, seen, faults>>

-----------------------------------------------------------------------------
(* syncOnce: pushAll, then pullAll.                                          *)

\* A cycle begins with the queue as it is now, planned into batches.
BeginSync(d) ==
  /\ Step(d, "idle")
  /\ cycle' = [cycle EXCEPT ![d].step = IF pending[d] = {} THEN "pull" ELSE "send",
                            ![d].ops = PushOrder(pending[d]),
                            ![d].reached = cursor[d]]
  /\ UNCHANGED <<serverVars, store, pending, conflicts, cursor, draft, opEntity, failed, made, seen, faults>>

\* A batch reaches handler h.
SendBatch(d, h) ==
  /\ Step(d, "send")
  /\ \E acc \in AccessSet : ReceivePush(h, Prefix(cycle[d].ops, BatchSize), acc)
  /\ cycle' = [cycle EXCEPT ![d].step = "wait", ![d].asked = h,
                            ![d].ops = SubSeq(@, BatchSize + 1, Len(@))]
  /\ UNCHANGED <<store, pending, conflicts, cursor, draft, opEntity, failed, made, seen, faults>>

\* The response of handler h reaches the device that still waits for it, or nobody.
Respond(h) ==
  /\ FinishPush(h)
  /\ cycle' = [d \in Device |->
       IF cycle[d].asked # h THEN cycle[d]
       ELSE [cycle[d] EXCEPT !.step = "results", !.asked = "none", !.results = answers[h],
                             !.reached = IF lastSeq > @ THEN lastSeq ELSE @]]
  /\ UNCHANGED <<store, pending, conflicts, cursor, draft, opEntity, failed, made, seen, faults>>

\* Mutant: whatever is no conflict counts as accepted.
okUnlessConflict(outcome) == outcome # "CONFLICT"

okOutcome(outcome) == outcome \in OkOutcome

\* applyResults, one result: an accepted operation leaves the queue; a
\* conflict is filed and its local record merged, the operation stays; a
\* rejected operation stays with its error.
HandleResult(d) ==
  /\ Step(d, "results") /\ cycle[d].results # <<>>
  /\ LET res == Head(cycle[d].results)
         key == FiledUnder(d, res)
         local == store[d][key]
     IN \/ /\ okOutcome(res.outcome)
           /\ pending' = [pending EXCEPT ![d] = Without(@, res.opId)]
           /\ UNCHANGED <<store, conflicts, failed>>
        \/ /\ res.outcome = "CONFLICT"
           /\ conflicts' = [conflicts EXCEPT ![d] =
                Without(@, res.opId) \cup {[opId |-> res.opId, rec |-> key, server |-> res.server, client |-> local.data]}]
           /\ store' = [store EXCEPT ![d][key] =
                Local(local.version, FALSE, ServerMerged(key.entity, res.server, local.data))]
           /\ UNCHANGED <<pending, failed>>
        \/ /\ ~okOutcome(res.outcome) /\ res.outcome # "CONFLICT"
           /\ failed' = [failed EXCEPT ![d] = @ \cup ({res.opId} \cap Queued(d))]
           /\ UNCHANGED <<store, pending, conflicts>>
  /\ cycle' = [cycle EXCEPT ![d].results = Tail(@)]
  /\ UNCHANGED <<serverVars, cursor, draft, opEntity, made, seen, faults>>

\* All results of a batch are handled: the next batch, or the end of pushAll,
\* which stores the position the server reported as the device's cursor.
EndBatch(d) ==
  /\ Step(d, "results") /\ cycle[d].results = <<>>
  /\ IF cycle[d].ops # <<>>
     THEN GoTo(d, "send") /\ UNCHANGED cursor
     ELSE GoTo(d, "pull") /\ cursor' = [cursor EXCEPT ![d] = cycle[d].reached]
  /\ UNCHANGED <<serverVars, store, pending, conflicts, draft, opEntity, failed, made, seen, faults>>

-----------------------------------------------------------------------------
\* GET /v1/sync/pull.
PullPage(d) ==
  /\ Step(d, "pull")
  /\ LET feed == FeedAfter(d, cycle[d].reached)
         page == Prefix(feed, PageLimit)
         position == IF page = <<>> THEN cycle[d].reached ELSE page[Len(page)].seq
     IN IF lastSeq > position + MaxGap
        THEN /\ cursor' = [cursor EXCEPT ![d] = 0]
             /\ cycle' = [cycle EXCEPT ![d] = [Resting EXCEPT !.step = "wipe"]]
        ELSE /\ cycle' = [cycle EXCEPT ![d].step = "apply", ![d].changes = page,
                            ![d].reached = position, ![d].more = Len(feed) > PageLimit]
             /\ UNCHANGED cursor
  /\ UNCHANGED <<serverVars, store, pending, conflicts, draft, opEntity, failed, made, seen, faults>>

\* One change: the local record is read ...
ReadLocal(d) ==
  /\ Step(d, "apply") /\ cycle[d].changes # <<>>
  /\ cycle' = [cycle EXCEPT ![d].step = "merge",
                            ![d].held = store[d][Head(cycle[d].changes).rec]]
  /\ UNCHANGED <<serverVars, store, pending, conflicts, cursor, draft, opEntity, failed, made, seen, faults>>

\* ... and its merge with the change written.
WriteLocal(d) ==
  /\ Step(d, "merge")
  /\ LET x == Head(cycle[d].changes)
     IN /\ store' = [store EXCEPT ![d][x.rec] = RemoteApplied(x, cycle[d].held)]
        /\ seen' = [seen EXCEPT ![d] = @ \cup {x.seq}]
  /\ cycle' = [cycle EXCEPT ![d].step = "apply", ![d].changes = Tail(@), ![d].held = Absent]
  /\ UNCHANGED <<serverVars, pending, conflicts, cursor, draft, opEntity, failed, made, faults>>

\* The page is applied: the next page, or the end of the cycle.
EndPage(d) ==
  /\ Step(d, "apply") /\ cycle[d].changes = <<>>
  /\ IF cycle[d].more
     THEN GoTo(d, "pull") /\ UNCHANGED cursor
     ELSE /\ cycle' = [cycle EXCEPT ![d] = Resting]
          /\ cursor' = [cursor EXCEPT ![d] = cycle[d].reached]
  /\ UNCHANGED <<serverVars, store, pending, conflicts, draft, opEntity, failed, made, seen, faults>>

\* A full resync was asked for: the desktop drops the records without queued work.
Wipe(d) ==
  /\ Step(d, "wipe")
  /\ store' = [store EXCEPT ![d] =
       [k \in Record |-> IF d \in Desktop /\ \A op \in pending[d] : op.rec # k THEN Absent ELSE @[k]]]
  /\ cycle' = [cycle EXCEPT ![d] = Resting]
  /\ UNCHANGED <<serverVars, pending, conflicts, cursor, draft, opEntity, failed, made, seen, faults>>

-----------------------------------------------------------------------------
(* resolveConflict: the user's decision on a conflict.                       *)
TakeServer(d) ==
  /\ \E c \in conflicts[d] :
       /\ store' = [store EXCEPT ![d][c.rec] = Local(0, FALSE, c.server)]
       /\ conflicts' = [conflicts EXCEPT ![d] = @ \ {c}]
       /\ pending' = [pending EXCEPT ![d] = Without(@, c.opId)]
  /\ UNCHANGED <<serverVars, cursor, draft, opEntity, cycle, failed, made, seen, faults>>

\* The device's copy is sent again under a forced opId; forcing a forced
\* operation once more is left out (bound).
TakeLocal(d) ==
  /\ \E c \in conflicts[d] :
       LET forced == <<d, c.opId[2] + MaxEdits>>
           op == [opId |-> forced, rec |-> c.rec, kind |-> "UPSERT", data |-> c.client,
                  at |-> made[d] + 1]
       IN /\ c.opId[2] <= MaxEdits
          /\ conflicts' = [conflicts EXCEPT ![d] =
               Without(Without(@, c.opId), forced) \cup {[c EXCEPT !.opId = forced]}]
          /\ pending' = [pending EXCEPT ![d] = AddPending(d, Without(@, c.opId), op)]
          /\ failed' = IF d \in Desktop THEN [failed EXCEPT ![d] = @ \ {forced}] ELSE failed
  /\ UNCHANGED <<serverVars, store, cursor, draft, opEntity, cycle, made, seen, faults>>

-----------------------------------------------------------------------------
Fault == faults < MaxFaults /\ faults' = faults + 1

\* Mutant: the device never notices that the answer will not come.
LoseRequestUnnoticed(d) ==
  /\ cycle[d].step \in {"send", "wait", "pull"}
  /\ Fault
  /\ cycle' = [cycle EXCEPT ![d].asked = "none", ![d].step = "wait"]
  /\ UNCHANGED <<serverVars, store, pending, conflicts, cursor, draft, opEntity, failed, made, seen>>

\* A request or its response is lost: offline() ends the cycle, the queue stays.
LoseRequest(d) ==
  /\ cycle[d].step \in {"send", "wait", "pull"}
  /\ Fault
  /\ cycle' = [cycle EXCEPT ![d] = Resting]
  /\ UNCHANGED <<serverVars, store, pending, conflicts, cursor, draft, opEntity, failed, made, seen>>

\* The app is killed: what was not in the store is gone.
DeviceRestart(d) ==
  /\ Fault
  /\ cycle' = [cycle EXCEPT ![d] = Resting]
  /\ draft' = [draft EXCEPT ![d] = NoDraft]
  /\ opEntity' = [opEntity EXCEPT ![d] = {}]
  /\ UNCHANGED <<serverVars, store, pending, conflicts, cursor, failed, made, seen>>

\* The server restarts; devices waiting for an answer get a connection error.
ServerRestart ==
  /\ Fault
  /\ ServerCrash
  /\ cycle' = [d \in Device |-> IF Step(d, "wait") THEN Resting ELSE cycle[d]]
  /\ UNCHANGED <<store, pending, conflicts, cursor, draft, opEntity, failed, made, seen>>

-----------------------------------------------------------------------------
Edit(d) == QueueRead(d) \/ QueueWrite(d) \/ QueueAdd(d)

Sync(d) ==
  \/ BeginSync(d) \/ HandleResult(d) \/ EndBatch(d)
  \/ PullPage(d) \/ ReadLocal(d) \/ WriteLocal(d) \/ EndPage(d) \/ Wipe(d)
  \/ \E h \in Handler : SendBatch(d, h)

KeyExists(h) == plan[h].write = "insert" /\ row[Cur(h).rec].version > 0

Handle(h) ==
  /\ \/ AnswerDuplicate(h) \/ PassGate(h) \/ ReadRow(h) \/ WriteRow(h) \/ StampOp(h)
     \/ (WriteErrors \/ KeyExists(h)) /\ WriteFails(h)
  /\ UNCHANGED <<deviceVars, faults>>

Office ==
  /\ \/ \E e \in RestEdits : RestWrite(e.rec, e.field, e.value)
     \/ \E r \in Record : RestCommit(r)
  /\ UNCHANGED <<deviceVars, faults>>

Next ==
  \/ \E d \in Device : \/ Edit(d) \/ Sync(d) \/ TakeServer(d) \/ TakeLocal(d)
                       \/ LoseRequest(d) \/ DeviceRestart(d)
  \/ \E h \in Handler : Handle(h) \/ Respond(h)
  \/ Office
  \/ ServerRestart

Spec == Init /\ [][Next]_vars

\* The app runs a cycle every so often and finishes a queue() it began, the
\* server's handlers and the office's transactions go on, a response in a
\* network that works arrives.  Edits, decisions and faults are up to others.
Fairness ==
  /\ \A d \in Device : WF_vars(QueueWrite(d) \/ QueueAdd(d)) /\ WF_vars(Sync(d))
  /\ \A h \in Handler : WF_vars(Handle(h)) /\ WF_vars(Respond(h))
  /\ WF_vars(\E r \in Record : RestCommit(r) /\ UNCHANGED <<deviceVars, faults>>)

FairSpec == Spec /\ Fairness

-----------------------------------------------------------------------------
LocalRecord == [known: BOOLEAN, version: Nat, deleted: BOOLEAN,
                data: Data]

TypeOK ==
  /\ ServerTypeOK
  /\ store \in [Device -> [Record -> LocalRecord]]
  /\ \A d \in Device :
       /\ pending[d] \subseteq Op
       /\ Cardinality(Queued(d)) = Cardinality(pending[d])
       /\ \A c \in conflicts[d] : c.opId \in OpId /\ c.rec \in Record
       /\ failed[d] \cup opEntity[d] \subseteq OpId
       /\ draft[d].stage \in {"none", "write", "add"}
       /\ cycle[d].step \in {"idle", "send", "wait", "results", "pull", "apply", "merge", "wipe"}
       /\ cycle[d].asked = "none" <=> ~Step(d, "wait")
       /\ {cursor[d], cycle[d].reached} \subseteq 0..lastSeq

\* A queued operation never silently disappears: it leaves the queue only after
\* the database has taken it, or by the user's decision on its conflict, in
\* spite of lost requests and answers, restarts on both sides and handlers
\* that go on after their device gave up.
QueuedWorkNotLost ==
  [][\A d \in Device : \A o \in Queued(d) \ Queued(d)' :
       \/ effect[o] # "none"
       \/ \E c \in conflicts[d] \ conflicts'[d] : c.opId = o]_vars

\* "cursor = serverSeq the client reached" (packages/domain/src/sync.ts): every
\* change at or before a device's stored cursor has been applied on the device.
NoMissedChange ==
  \A d \in Device : \A x \in log :
    x.seq <= cursor[d] /\ x.rec \in PullScope[d] => x.seq \in seen[d]

\* A device without edits of its own shows what the office wrote: its copy of a
\* record is an image the change feed carried.
UneditedCopyFollowsFeed ==
  \A d \in Device : \A r \in Record :
    made[d] = 0 /\ store[d][r].known =>
      \E x \in log : x.rec = r /\ x.version = store[d][r].version /\ x.data = store[d][r].data

\* What the user is asked to decide is genuine: the server's version offered was the
\* row of the record the conflict is filed under, at some time, less the columns that
\* are hidden from clients.  Only when the process
\* no longer knows the operation (it restarted since, or the operation is a forced one)
\* may the conflict be another record's, filed under the work order of the same id
\* (client.ts:406-413).
ConflictIsGenuine ==
  \A d \in Device : \A c \in conflicts[d] :
    \E x \in log :
      /\ Sanitize(x.data) = c.server
      /\ \/ x.rec = c.rec
         \/ c.opId \notin opEntity[d] /\ c.rec = WorkOrderKey(x.rec)

\* Every queued operation is answered in the end: it leaves the queue, or the
\* user can see its error or its conflict.
QueuedWorkAnswered ==
  \A d \in Device : \A o \in OpId :
    o \in Queued(d)
      ~> \/ o \notin Queued(d)
         \/ o \in failed[d]
         \/ \E c \in conflicts[d] : c.opId = o

=============================================================================
