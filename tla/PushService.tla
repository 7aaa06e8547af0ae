---------------------------- MODULE PushService ----------------------------
(***************************************************************************)
(* The sync server facing clients that may send anything: a batch of       *)
(* Requests can arrive whenever a handler is free, so operations are       *)
(* re-sent after an answer, sent twice at once and reordered, while office *)
(* users edit the same rows.  OfflineSync drives the same handlers with    *)
(* the real devices.                                                       *)
(***************************************************************************)
EXTENDS SyncServer

CONSTANTS
  Requests,    \* the batches clients may send
  RestEdits,   \* the [rec, field, value] edits office users may make
  MaxPush,     \* bound: batches received in a behaviour
  Faults       \* the faults that may strike: "crash", "stamp"

ASSUME MaxPushAssumption == MaxPush \in Nat
ASSUME RequestsAssumption == Requests \subseteq Seq(Op)
ASSUME RestEditsAssumption ==
  RestEdits \subseteq [rec: Record, field: Field, value: SUBSET Value]

VARIABLE received   \* how many batches arrived, for the bound MaxPush

vars == <<serverVars, received>>

Init == ServerInit /\ received = 0

Receive(h) ==
  /\ received < MaxPush
  /\ \E ops \in Requests, acc \in AccessSet : ReceivePush(h, ops, acc)
  /\ received' = received + 1

Handle(h) ==
  /\ \/ AnswerDuplicate(h) \/ PassGate(h) \/ ReadRow(h) \/ WriteRow(h)
     \/ WriteFails(h) \/ StampOp(h) \/ FinishPush(h)
     \/ "stamp" \in Faults /\ StampFails(h)
  /\ UNCHANGED received

Crash == "crash" \in Faults /\ ServerCrash /\ UNCHANGED received

OfficeEdit ==
  /\ \E e \in RestEdits : RestWrite(e.rec, e.field, e.value)
  /\ UNCHANGED received

OfficeEnd(r) == (RestCommit(r) \/ RestAbort(r)) /\ UNCHANGED received

Next ==
  \/ \E h \in Handler : Receive(h) \/ Handle(h)
  \/ \E r \in Record : OfficeEnd(r)
  \/ Crash
  \/ OfficeEdit

Spec == Init /\ [][Next]_vars

-----------------------------------------------------------------------------
TypeOK == ServerTypeOK /\ received \in 0..MaxPush

\* Re-sending an operation does not apply it again (docs/04, "re-sending does
\* not repeat the application"): a handler writes only for an opId that was never written.
NoOpAppliedTwice ==
  [][\A h \in Handler : phase[h] = "write" /\ phase'[h] = "stamp" =>
       effect[Cur(h).opId] # "written"]_vars

\* The lines of an append field survive every push: each client's notes are
\* added to those already there.
AppendedLinesKept ==
  [][\A r \in Record : \A f \in Field : f \in AppendFields(r.entity) =>
       row[r].data[f] \subseteq row'[r].data[f] \/ txn[r].open]_vars

\* An approved record is deleted only by a facility-wide user.
ApprovedRowNotDeleted ==
  [][\A h \in Handler : phase[h] = "write" /\ phase'[h] = "stamp" =>
       LET r == Cur(h).rec
       IN row'[r].deleted /\ ~row[r].deleted /\ IsApproved(r.entity, row[r].data) =>
            access[h].facilityWide]_vars

=============================================================================
