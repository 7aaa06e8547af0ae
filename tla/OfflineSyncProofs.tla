-------------------------- MODULE OfflineSyncProofs --------------------------
(***************************************************************************)
(* Devices and server together, for any number of devices, records and     *)
(* handlers and any bounds: every state is well typed, a queued operation  *)
(* leaves its queue only when the database has taken it or its user        *)
(* decided, and what a conflict offers was once the row.  The facts about  *)
(* the server's own steps are in SyncServerProofs.                         *)
(***************************************************************************)
EXTENDS OfflineSync, SyncServerProofs, FiniteSetTheorems, WellFoundedInduction

-----------------------------------------------------------------------------
(* The inductive invariant.                                                  *)

\* The opIds that may be on their way: a queue() call under way has numbered its
\* operation, and nobody else has seen that number yet.
Issued(o) ==
  /\ o \in OpId
  /\ o[2] <= MaxEdits =>
       o[2] <= made[o[1]] /\ (draft[o[1]] = NoDraft \/ o[2] # made[o[1]])

IssuedOp == {op \in Op : Issued(op.opId)}

\* The data was, less the hidden columns, the row of record r.
WasRow(r, data) == \E x \in log : x.rec = r /\ Sanitize(x.data) = data

\* The results the server gives: a success has been taken by the database, and a
\* conflict comes with a row of the record.
HonestResult ==
  {res \in Result :
     /\ Issued(res.opId)
     /\ res.outcome \in OkOutcome => effect[res.opId] # "none"
     /\ res.outcome = "CONFLICT" => WasRow(res.rec, res.server)}

Conflict == [opId: OpId, rec: Record, server: Data, client: Data]

\* What ConflictIsGenuine says of one conflict.
Genuine(d, c) ==
  \E x \in log :
    /\ Sanitize(x.data) = c.server
    /\ \/ x.rec = c.rec
       \/ c.opId \notin opEntity[d] /\ c.rec = WorkOrderKey(x.rec)

Draft == [stage: {"write", "add"}, op: Op, current: LocalRecord]

Cycle == [step: {"idle", "send", "wait", "results", "pull", "apply", "merge", "wipe"},
          ops: Seq(IssuedOp), asked: Handler \cup {"none"}, results: Seq(HonestResult),
          changes: Seq(Entry), held: LocalRecord, reached: 0..lastSeq, more: BOOLEAN]

\* The queue holds one entry of an opId.
QueueInv(d) ==
  /\ pending[d] \in SUBSET IssuedOp
  /\ IsFiniteSet(pending[d])
  /\ \A x, y \in pending[d] : x.opId = y.opId => x = y

ConflictInv(d) ==
  \A c \in conflicts[d] : c \in Conflict /\ Issued(c.opId) /\ Genuine(d, c)

DraftInv(d) ==
  draft[d] # NoDraft =>
    draft[d] \in Draft /\ draft[d].op.opId = <<d, made[d]>> /\ made[d] \in 1..MaxEdits

CycleInv(d) ==
  /\ cycle[d] \in Cycle
  /\ cycle[d].asked = "none" <=> cycle[d].step # "wait"
  /\ cycle[d].step = "merge" => cycle[d].changes # <<>>

DeviceInv(d) ==
  /\ store[d] \in [Record -> LocalRecord]
  /\ QueueInv(d)
  /\ ConflictInv(d)
  /\ cursor[d] \in 0..lastSeq
  /\ DraftInv(d)
  /\ opEntity[d] \in SUBSET {o \in OpId : o[2] <= MaxEdits}
  /\ CycleInv(d)
  /\ failed[d] \in SUBSET OpId
  /\ made[d] \in 0..MaxEdits

\* The devices' variables are functions on the devices.
OnDevices(f) == f = [d \in Device |-> f[d]]

Shape ==
  /\ OnDevices(store) /\ OnDevices(pending) /\ OnDevices(conflicts) /\ OnDevices(cursor)
  /\ OnDevices(draft) /\ OnDevices(opEntity) /\ OnDevices(cycle) /\ OnDevices(failed)
  /\ OnDevices(made)

\* The feed is finite and no number is drawn twice.
FeedNumbers ==
  /\ IsFiniteSet(log)
  /\ \A x \in log : x.seq <= lastSeq
  /\ \A x, y \in log : x.seq = y.seq => x = y
  /\ \A r \in Record : txn[r].open => \A x \in log : x.seq # txn[r].seq
  /\ \A r, q \in Record : txn[r].open /\ txn[q].open /\ txn[r].seq = txn[q].seq => r = q

ServerInv ==
  /\ ServerTypeOK /\ AckInv /\ FeedInv /\ FeedNumbers
  /\ \A h \in Handler : todo[h] \in Seq(IssuedOp) /\ answers[h] \in Seq(HonestResult)

SyncInv ==
  /\ ServerInv
  /\ Shape
  /\ \A d \in Device : DeviceInv(d)

-----------------------------------------------------------------------------
(* Orders on finite sets, for the two sequences the client sorts.            *)

\* Among finite sets, those with a property include one none of whose elements can
\* be taken away: induction over finite sets, with a set in place of the property.
LEMMA SmallestSet ==
  ASSUME NEW S, NEW Having \in SUBSET (SUBSET S), IsFiniteSet(S), Having # {}
  PROVE  \E M \in Having : \A x \in M : M \ {x} \notin Having
<1>1. Having \subseteq FiniteSubsetsOf(S)
  BY FS_FiniteSubsetsOfFinite
<1>2. PICK M \in Having : \A T \in Having : <<T, M>> \notin StrictSubsetOrdering(S)
  BY <1>1, FS_StrictSubsetOrderingWellFounded, WFMin
<1>3. ASSUME NEW x \in M
      PROVE  M \ {x} \notin Having
  BY <1>2 DEF StrictSubsetOrdering
<1> QED BY <1>3

\* A finite set has a least element under a strict order.
LEMMA LeastElement ==
  ASSUME NEW S, IsFiniteSet(S), S # {}, NEW R,
         \A x \in S : <<x, x>> \notin R,
         \A x, y, z \in S : <<x, y>> \in R /\ <<y, z>> \in R => <<x, z>> \in R
  PROVE  \E m \in S : \A x \in S : <<x, m>> \notin R
<1> DEFINE Least(M, m) == m \in M /\ \A x \in M : <<x, m>> \notin R
           NoLeast == {M \in SUBSET S : M # {} /\ ~\E m \in M : Least(M, m)}
<1>1. SUFFICES ASSUME NoLeast # {} PROVE FALSE
  OBVIOUS
<1>2. PICK M \in NoLeast : \A x \in M : M \ {x} \notin NoLeast
  BY <1>1, SmallestSet
<1>3. PICK a \in M : TRUE
  OBVIOUS
<1>4. CASE M \ {a} = {}
  <2>1. Least(M, a)
    BY <1>4
  <2> QED BY <2>1
<1>5. CASE M \ {a} # {}
  <2>1. PICK m \in M \ {a} : Least(M \ {a}, m)
    BY <1>2, <1>5
  <2>2. CASE <<a, m>> \notin R
    <3>1. Least(M, m)
      BY <2>1, <2>2
    <3> QED BY <3>1
  <2>3. CASE <<a, m>> \in R
    <3>1. ASSUME NEW x \in M, <<x, a>> \in R
          PROVE  FALSE
      <4>1. x # a /\ <<x, m>> \in R
        BY <2>3, <3>1
      <4> QED BY <2>1, <4>1
    <3>2. Least(M, a)
      BY <3>1
    <3> QED BY <3>2
  <2> QED BY <2>2, <2>3
<1> QED BY <1>4, <1>5

\* A finite set can be put in an order.
LEMMA InOrder ==
  ASSUME NEW S, IsFiniteSet(S), NEW R,
         \A x \in S : <<x, x>> \notin R,
         \A x, y, z \in S : <<x, y>> \in R /\ <<y, z>> \in R => <<x, z>> \in R
  PROVE  \E s \in [1..Cardinality(S) -> S] :
           \A i, j \in 1..Cardinality(S) : i < j => s[i] # s[j] /\ <<s[j], s[i]>> \notin R
<1> DEFINE Sorted(M, s) ==
             \A i, j \in 1..Cardinality(M) : i < j => s[i] # s[j] /\ <<s[j], s[i]>> \notin R
           Unsorted == {M \in SUBSET S : ~\E s \in [1..Cardinality(M) -> M] : Sorted(M, s)}
<1>1. SUFFICES ASSUME Unsorted # {} PROVE FALSE
  OBVIOUS
<1>2. PICK M \in Unsorted : \A x \in M : M \ {x} \notin Unsorted
  BY <1>1, SmallestSet
<1>3. IsFiniteSet(M)
  BY FS_Subset
<1>4. M # {}
  <2>1. SUFFICES ASSUME M = {} PROVE FALSE
    OBVIOUS
  <2>2. Cardinality(M) = 0 /\ 1..0 = {}
    BY <2>1, FS_EmptySet
  <2>3. [i \in 1..Cardinality(M) |-> {}] \in [1..Cardinality(M) -> M]
    BY <2>2
  <2>4. Sorted(M, [i \in 1..Cardinality(M) |-> {}])
    BY <2>2
  <2> QED BY <2>3, <2>4
<1>5. PICK m \in M : \A x \in M : <<x, m>> \notin R
  BY <1>3, <1>4, LeastElement
<1> DEFINE T == M \ {m}
           n == Cardinality(T)
<1>6. IsFiniteSet(T) /\ n \in Nat /\ Cardinality(M) = n + 1
  <2>1. IsFiniteSet(T) /\ Cardinality(T) = Cardinality(M) - 1
    BY <1>3, FS_RemoveElement
  <2>2. Cardinality(M) \in Nat /\ Cardinality(T) \in Nat
    BY <1>3, <2>1, FS_CardinalityType
  <2> QED BY <2>1, <2>2
<1>7. PICK s \in [1..n -> T] : Sorted(T, s)
  BY <1>2
<1> DEFINE t == [i \in 1..(n + 1) |-> IF i = 1 THEN m ELSE s[i - 1]]
<1> HIDE DEF T, n
<1>8. T \subseteq M /\ m \notin T
  BY DEF T
<1>9. \A i \in 1..(n + 1) : i # 1 => i - 1 \in 1..n /\ t[i] = s[i - 1] /\ t[i] \in T
  BY <1>6
<1>10. t \in [1..(n + 1) -> M]
  BY <1>6, <1>8, <1>9
<1>11. ASSUME NEW i \in 1..(n + 1), NEW j \in 1..(n + 1), i < j
       PROVE  t[i] # t[j] /\ <<t[j], t[i]>> \notin R
  <2>1. j # 1
    BY <1>6, <1>11
  <2>2. CASE i = 1
    BY <1>5, <1>6, <1>8, <1>9, <2>1, <2>2
  <2>3. CASE i # 1
    <3>1. i - 1 < j - 1
      BY <1>6, <1>11
    <3> QED BY <1>7, <1>9, <2>1, <2>3, <3>1 DEF n
  <2> QED BY <2>2, <2>3
<1>12. t \in [1..Cardinality(M) -> M] /\ Sorted(M, t)
  BY <1>6, <1>10, <1>11
<1> QED BY <1>12

-----------------------------------------------------------------------------
(* The data and the sequences a device works with.                           *)

\* Overlaying data with data gives data.
LEMMA OverlayIsData ==
  ASSUME NEW base \in Data, NEW over \in Data
  PROVE  Overlay(base, over) \in Data
<1>1. DOMAIN base \cup DOMAIN over \in SUBSET Field
  BY DataDomain
<1>2. Overlay(base, over) \in [DOMAIN base \cup DOMAIN over -> SUBSET Value]
  BY DataDomain DEF Overlay
<1> QED BY <1>1, <1>2, DataIntro

\* A record as Local builds it is a record.
LEMMA LocalIsRecord ==
  ASSUME NEW version \in Nat, NEW deleted \in BOOLEAN, NEW data \in Data
  PROVE  Local(version, deleted, data) \in LocalRecord
BY DEF Local, LocalRecord

\* So is the absent one.
LEMMA AbsentIsRecord == Absent \in LocalRecord
BY NoDataIsData DEF Absent, LocalRecord

\* Merging a change into a local record gives a record.
LEMMA RemoteAppliedType ==
  ASSUME NEW x \in Entry, NEW held \in LocalRecord
  PROVE  RemoteApplied(x, held) \in LocalRecord
<1>1. /\ x.version \in Nat /\ x.deleted \in BOOLEAN /\ x.data \in Data /\ held.data \in Data
      /\ (x.rec.entity \notin AppendOnlyEntity) \in BOOLEAN
  BY RowDataIsData DEF Entry, LocalRecord
<1>2. /\ Overlay(held.data, x.data) \in Data
      /\ MergeFieldwise(x.rec.entity, x.data, held.data) \in Data
  BY <1>1, OverlayIsData, MergeType
<1>3. CASE x.deleted
  BY <1>1, <1>2, <1>3, LocalIsRecord DEF RemoteApplied
<1>4. CASE ~x.deleted /\ held.known /\ x.rec.entity \in FieldMergeEntity
  BY <1>1, <1>2, <1>4, LocalIsRecord DEF RemoteApplied
<1>5. CASE ~x.deleted /\ ~(held.known /\ x.rec.entity \in FieldMergeEntity)
  BY <1>1, <1>2, <1>5, LocalIsRecord DEF RemoteApplied
<1> QED BY <1>1, <1>3, <1>4, <1>5

\* Merging a conflict's server record into local data gives data.
LEMMA ServerMergedType ==
  ASSUME NEW e, NEW server \in Data, NEW client \in Data
  PROVE  ServerMerged(e, server, client) \in Data
BY MergeType DEF ServerMerged

\* A prefix of a sequence is a sequence of the same set.
LEMMA PrefixType ==
  ASSUME NEW S, NEW s \in Seq(S), NEW n \in Nat
  PROVE  /\ Prefix(s, n) \in Seq(S)
         /\ Prefix(s, n) # <<>> =>
              Len(Prefix(s, n)) \in 1..Len(s) /\ Prefix(s, n)[Len(Prefix(s, n))] \in S
<1> DEFINE m == IF n < Len(s) THEN n ELSE Len(s)
<1>1. Len(s) \in Nat
  BY LenProperties
<1>2. m \in 0..Len(s)
  BY <1>1
<1> HIDE DEF m
<1>3. \A i \in 1..m : s[i] \in S
  BY <1>1, <1>2, ElementOfSeq
<1>4. SubSeq(s, 1, m) \in Seq(S) /\ Len(SubSeq(s, 1, m)) = IF 1 <= m THEN m - 1 + 1 ELSE 0
  BY <1>1, <1>2, <1>3, SubSeqProperties
<1>5. Prefix(s, n) = SubSeq(s, 1, m)
  BY DEF Prefix, m
<1>6. ASSUME Prefix(s, n) # <<>>
      PROVE  Len(Prefix(s, n)) \in 1..Len(s) /\ Prefix(s, n)[Len(Prefix(s, n))] \in S
  <2>1. Len(Prefix(s, n)) \in Nat \ {0}
    BY <1>4, <1>5, <1>6, EmptySeq
  <2>2. Len(Prefix(s, n)) \in 1..Len(s)
    BY <1>1, <1>2, <1>4, <1>5, <2>1
  <2> QED BY <1>4, <1>5, <2>1, <2>2, ElementOfSeq
<1> QED BY <1>4, <1>5, <1>6

\* What is left of a sequence is a sequence of the same set.
LEMMA RestType ==
  ASSUME NEW S, NEW s \in Seq(S), NEW n \in Nat
  PROVE  SubSeq(s, n + 1, Len(s)) \in Seq(S)
<1>1. Len(s) \in Nat
  BY LenProperties
<1>2. \A i \in (n + 1)..Len(s) : s[i] \in S
  BY <1>1, ElementOfSeq
<1> QED BY <1>1, <1>2, SubSeqProperties

\* Operations can be put in the order of the push plan, and PushOrder does so.
LEMMA PushOrderType ==
  ASSUME NEW ops \in SUBSET Op, IsFiniteSet(ops)
  PROVE  PushOrder(ops) \in Seq(ops)
<1> DEFINE R == {p \in ops \X ops : Before(p[1], p[2])}
           n == Cardinality(ops)
           Planned(s) == \A i, j \in 1..n : i < j => s[i] # s[j] /\ ~Before(s[j], s[i])
<1>1. \A a, b \in ops : <<a, b>> \in R <=> Before(a, b)
  OBVIOUS
<1>2. \A x \in ops : PushPriority(x.rec.entity) \in Nat /\ x.at \in Nat
  BY DEF PushPriority, Op
<1>3. \A x \in ops : ~Before(x, x)
  BY <1>2 DEF Before
<1>4. ASSUME NEW x \in ops, NEW y \in ops, NEW z \in ops, Before(x, y), Before(y, z)
      PROVE  Before(x, z)
  BY <1>2, <1>4 DEF Before
<1>5. \A x \in ops : <<x, x>> \notin R
  BY <1>1, <1>3
<1>6. \A x, y, z \in ops : <<x, y>> \in R /\ <<y, z>> \in R => <<x, z>> \in R
  BY <1>1, <1>4
<1> HIDE DEF R
<1>7. PICK s \in [1..n -> ops] :
        \A i, j \in 1..n : i < j => s[i] # s[j] /\ <<s[j], s[i]>> \notin R
  BY <1>5, <1>6, InOrder
<1>8. Planned(s)
  BY <1>1, <1>7
<1>9. PushOrder(ops) = CHOOSE t \in [1..n -> ops] : Planned(t)
  BY DEF PushOrder
<1>10. PushOrder(ops) \in [1..n -> ops]
  <2> HIDE DEF Planned, n
  <2> QED BY <1>7, <1>8, <1>9
<1>11. n \in Nat
  BY FS_CardinalityType
<1> QED BY <1>10, <1>11, SeqDef

\* The feed after a position is a sequence of its entries.
LEMMA FeedAfterType ==
  ASSUME IsFiniteSet(log), \A x \in log : x.seq \in Nat,
         \A x, y \in log : x.seq = y.seq => x = y, NEW d, NEW position
  PROVE  FeedAfter(d, position) \in Seq(log)
<1> DEFINE news == {x \in log : x.seq > position /\ x.rec \in PullScope[d]}
           R == {p \in news \X news : p[1].seq < p[2].seq}
           n == Cardinality(news)
           InFeedOrder(s) == \A i, j \in 1..n : i < j => s[i].seq < s[j].seq
<1>1. news \subseteq log /\ IsFiniteSet(news)
  BY FS_Subset
<1>2. \A a, b \in news : <<a, b>> \in R <=> a.seq < b.seq
  OBVIOUS
<1>3. \A x \in news : <<x, x>> \notin R
  BY <1>2
<1>4. \A x, y, z \in news : <<x, y>> \in R /\ <<y, z>> \in R => <<x, z>> \in R
  BY <1>1, <1>2
<1> HIDE DEF R, news
<1>5. PICK s \in [1..n -> news] :
        \A i, j \in 1..n : i < j => s[i] # s[j] /\ <<s[j], s[i]>> \notin R
  BY <1>1, <1>3, <1>4, InOrder
<1>6. ASSUME NEW i \in 1..n, NEW j \in 1..n, i < j
      PROVE  s[i].seq < s[j].seq
  <2>1. s[i] \in news /\ s[j] \in news /\ s[i] # s[j] /\ ~(s[j].seq < s[i].seq)
    BY <1>2, <1>5, <1>6
  <2>2. s[i].seq # s[j].seq /\ s[i].seq \in Nat /\ s[j].seq \in Nat
    BY <1>1, <2>1
  <2> QED BY <2>1, <2>2
<1>7. InFeedOrder(s)
  BY <1>6
<1>8. FeedAfter(d, position) = CHOOSE t \in [1..n -> news] : InFeedOrder(t)
  BY DEF FeedAfter, news
<1>9. FeedAfter(d, position) \in [1..n -> news]
  <2> HIDE DEF InFeedOrder, n
  <2> QED BY <1>5, <1>7, <1>8
<1>10. n \in Nat
  BY <1>1, FS_CardinalityType
<1>11. FeedAfter(d, position) \in Seq(news)
  BY <1>9, <1>10, SeqDef
<1> QED BY <1>1, <1>11, SeqMonotonic

-----------------------------------------------------------------------------
(* The server's side: what a step does to the handlers and to the feed.      *)

\* What no step takes back.
Later ==
  /\ log \subseteq log'
  /\ {lastSeq, lastSeq'} \subseteq Nat /\ lastSeq <= lastSeq'
  /\ \A o \in OpId : effect[o] # "none" => effect'[o] # "none"
  /\ \A o : Issued(o) => Issued(o)'

\* Handler h gives the result of its current operation.
GivesResult(h) ==
  /\ todo[h] # <<>>
  /\ \E res \in Result :
       /\ res.opId = Cur(h).opId
       /\ res.outcome = "CONFLICT" => WasRow(res.rec, res.server)
       /\ answers' = [answers EXCEPT ![h] = Append(@, res)]
       /\ todo' = [todo EXCEPT ![h] = Tail(@)]

\* An answer that is no conflict is such a result.
LEMMA AnswerGivesResult ==
  ASSUME HandlersTyped, NEW h \in Handler, todo[h] # <<>>,
         NEW outcome \in Outcome, NEW server \in Data, Answer(h, outcome, server),
         outcome = "CONFLICT" => WasRow(Cur(h).rec, server)
  PROVE  GivesResult(h)
<1> DEFINE res == [opId |-> Cur(h).opId, rec |-> Cur(h).rec,
                   outcome |-> outcome, server |-> server]
<1>1. res \in Result /\ res.opId = Cur(h).opId
  BY CurType DEF Result
<1>2. res.outcome = "CONFLICT" => WasRow(res.rec, res.server)
  OBVIOUS
<1>3. answers' = [answers EXCEPT ![h] = Append(@, res)] /\ todo' = [todo EXCEPT ![h] = Tail(@)]
  BY DEF Answer
<1> HIDE DEF res
<1> QED BY <1>1, <1>2, <1>3 DEF GivesResult

\* A conflict comes with the row that was read, and that row is in the feed.
LEMMA ReadConflict ==
  ASSUME FeedTyped, HandlersTyped, FeedInv, NEW h \in Handler, ReadRow(h)
  PROVE  GivesResult(h) \/ UNCHANGED <<todo, answers>>
<1> DEFINE existing == row[Cur(h).rec]
<1>1. todo[h] # <<>>
  BY ReadOutcome
<1>2. /\ Cur(h) \in Op /\ Cur(h).rec \in Record /\ Cur(h).kind \in OpKind
      /\ existing \in Row /\ existing.data \in Data /\ existing.version \in Nat
  BY <1>1, CurType, RowDataIsData DEF FeedTyped, Row
<1>3. /\ Sanitize(existing.data) \in Data /\ NoData \in Data
      /\ {"REJECTED", "APPLIED", "CONFLICT"} \subseteq Outcome
  BY <1>2, SanitizeType, NoDataIsData DEF Outcome, OkOutcome
<1>4. ASSUME NEW outcome \in {"REJECTED", "APPLIED"}, NEW server \in {NoData, Sanitize(existing.data)},
             Answer(h, outcome, server)
      PROVE  GivesResult(h)
  BY <1>1, <1>3, <1>4, AnswerGivesResult
<1>5. ASSUME existing.version > 0, Answer(h, "CONFLICT", Sanitize(existing.data))
      PROVE  GivesResult(h)
  <2>1. existing.version # 0
    BY <1>2, <1>5
  <2>2. PICK x \in log : x.rec = Cur(h).rec /\ x.data = existing.data
    BY <1>2, <2>1 DEF FeedInv, FeedReplaysRows
  <2>3. WasRow(Cur(h).rec, Sanitize(existing.data))
    BY <2>2 DEF WasRow
  <2> QED BY <1>1, <1>3, <1>5, <2>3, AnswerGivesResult
<1>6. ASSUME DecideDelete(h, Cur(h), existing)
      PROVE  GivesResult(h) \/ UNCHANGED <<todo, answers>>
  BY <1>4, <1>6 DEF DecideDelete, Reply, Decide
<1>7. ASSUME DecideCreate(h, Cur(h))
      PROVE  GivesResult(h) \/ UNCHANGED <<todo, answers>>
  BY <1>4, <1>7 DEF DecideCreate, Reply, Decide
<1>8. ASSUME existing.version > 0, DecideUpdate(h, Cur(h), existing)
      PROVE  GivesResult(h) \/ UNCHANGED <<todo, answers>>
  <2>1. \/ Answer(h, "REJECTED", Sanitize(existing.data))
        \/ Answer(h, "CONFLICT", Sanitize(existing.data))
        \/ UNCHANGED <<todo, answers>>
    <3> HIDE DEF existing
    <3> QED BY <1>8 DEF DecideUpdate, Reply, Decide, SkipWrite
  <2> QED BY <1>4, <1>5, <1>8, <2>1
<1>9. \/ Answer(h, "REJECTED", NoData)
      \/ DecideDelete(h, Cur(h), existing)
      \/ DecideCreate(h, Cur(h))
      \/ existing.version > 0 /\ DecideUpdate(h, Cur(h), existing)
  BY DEF ReadRow, Reply
<1> QED BY <1>4, <1>6, <1>7, <1>8, <1>9

\* Every statement of a handler gives a result, or leaves results and operations alone.
LEMMA ServeOutcome ==
  ASSUME ServerTypeOK, FeedInv, NEW h \in Handler, Serve(h)
  PROVE  \/ GivesResult(h) \/ UNCHANGED <<todo, answers>>
         \/ answers' = [answers EXCEPT ![h] = <<>>] /\ UNCHANGED todo
<1> USE TypeParts
<1>1. CASE AnswerDuplicate(h)
  <2>1. todo[h] # <<>> /\ Cur(h).opId \in OpId /\ stamped[Cur(h).opId] # "none"
    BY <1>1, CurType DEF AnswerDuplicate
  <2>2. stamped[Cur(h).opId] \in OkOutcome
    BY <2>1 DEF HistoryTyped
  <2>3. stamped[Cur(h).opId] \in Outcome /\ stamped[Cur(h).opId] # "CONFLICT"
    BY <2>2 DEF Outcome, OkOutcome
  <2> QED BY <1>1, <2>1, <2>3, AnswerGivesResult, NoDataIsData DEF AnswerDuplicate
<1>2. \A outcome \in Outcome : outcome # "CONFLICT" /\ todo[h] # <<>> /\ Answer(h, outcome, NoData)
        => GivesResult(h)
  BY AnswerGivesResult, NoDataIsData
<1>3. "REJECTED" \in Outcome
  BY DEF Outcome
<1>4. CASE PassGate(h)
  BY <1>2, <1>3, <1>4 DEF PassGate
<1>5. CASE ReadRow(h)
  BY <1>5, ReadConflict
<1>6. CASE WriteRow(h)
  BY <1>6 DEF WriteRow
<1>7. CASE WriteFails(h)
  BY <1>2, <1>3, <1>7 DEF WriteFails, HandlersTyped
<1>8. CASE StampOp(h) \/ StampFails(h)
  <2>1. /\ todo[h] # <<>> /\ plan[h].outcome \in OkOutcome
        /\ \E outcome \in {plan[h].outcome, "REJECTED"} : Answer(h, outcome, NoData)
    BY <1>8 DEF StampOp, StampFails, HandlersTyped, Plan
  <2>2. \A outcome \in {plan[h].outcome, "REJECTED"} : outcome \in Outcome /\ outcome # "CONFLICT"
    BY <2>1 DEF Outcome, OkOutcome
  <2> QED BY <1>2, <2>1, <2>2
<1>9. CASE FinishPush(h)
  BY <1>9 DEF FinishPush
<1> QED BY <1>1, <1>4, <1>5, <1>6, <1>7, <1>8, <1>9 DEF Serve

\* The feed only grows, and so does the sequence behind it; its numbers stay unique.
LEMMA FeedNumbersStep ==
  ASSUME ServerTypeOK, FeedInv, FeedNumbers, ServerStep \/ UNCHANGED serverVars
  PROVE  /\ FeedNumbers'
         /\ log \subseteq log' /\ lastSeq <= lastSeq'
<1> USE TypeParts
<1>1. /\ lastSeq \in Nat
      /\ \A x \in log : x.seq \in Nat
      /\ \A r \in Record : txn[r] \in Txn /\ txn[r].seq \in Nat
  BY DEF FeedTyped, Entry, Txn
<1>2. ASSUME NEW h \in Handler, WriteRow(h)
      PROVE  FeedNumbers' /\ log \subseteq log' /\ lastSeq <= lastSeq'
  <2>1. PICK new : /\ new.seq = lastSeq + 1
                   /\ log' = log \cup {new} /\ lastSeq' = lastSeq + 1 /\ txn' = txn
    <3>1. \E r, image : Commit(r, image) /\ txn' = txn
      BY <1>2 DEF WriteRow
    <3>2. PICK r, image : Commit(r, image) /\ txn' = txn
      BY <3>1
    <3> DEFINE new == [seq |-> lastSeq + 1, rec |-> r, version |-> image.version,
                       deleted |-> image.deleted, data |-> image.data]
    <3>3. new.seq = lastSeq + 1 /\ log' = log \cup {new} /\ lastSeq' = lastSeq + 1
      BY <3>2 DEF Commit
    <3> QED BY <3>2, <3>3
  <2>2. IsFiniteSet(log')
    BY <2>1, FS_AddElement DEF FeedNumbers
  <2>3. \A x \in log' : x.seq <= lastSeq'
    BY <1>1, <2>1 DEF FeedNumbers
  <2>4. \A x, y \in log' : x.seq = y.seq => x = y
    BY <1>1, <2>1 DEF FeedNumbers
  <2>5. \A r \in Record : txn'[r].open => \A x \in log' : x.seq # txn'[r].seq
    BY <1>1, <2>1 DEF FeedNumbers, FeedInv, OpenTxnIsNewest
  <2> QED BY <1>1, <2>1, <2>2, <2>3, <2>4, <2>5 DEF FeedNumbers
<1>3. ASSUME NEW r \in Record, NEW f, NEW v, RestWrite(r, f, v)
      PROVE  FeedNumbers' /\ log \subseteq log' /\ lastSeq <= lastSeq'
  <2>1. PICK new : /\ new.seq = lastSeq + 1
                   /\ txn' = [txn EXCEPT ![r] = new] /\ lastSeq' = lastSeq + 1 /\ log' = log
    <3> DEFINE new == [open |-> TRUE, seq |-> lastSeq + 1,
                       image |-> [row[r] EXCEPT !.version = NextVersion(r), !.data = [@ EXCEPT ![f] = v]]]
    <3>1. new.seq = lastSeq + 1
      OBVIOUS
    <3>2. txn' = [txn EXCEPT ![r] = new] /\ lastSeq' = lastSeq + 1 /\ log' = log
      BY <1>3 DEF RestWrite
    <3> HIDE DEF new
    <3> QED BY <3>1, <3>2
  <2>2. \A q \in Record : txn'[q] = IF q = r THEN new ELSE txn[q]
    BY <2>1 DEF FeedTyped
  <2>3. \A q \in Record : txn[q].open => txn[q].seq # lastSeq + 1
    BY <1>1 DEF FeedInv, OpenTxnIsNewest
  <2>4. \A q \in Record : txn'[q].open => \A x \in log' : x.seq # txn'[q].seq
    BY <1>1, <2>1, <2>2 DEF FeedNumbers
  <2>5. \A p, q \in Record : txn'[p].open /\ txn'[q].open /\ txn'[p].seq = txn'[q].seq => p = q
    BY <2>1, <2>2, <2>3 DEF FeedNumbers
  <2>6. \A x \in log' : x.seq <= lastSeq'
    BY <1>1, <2>1 DEF FeedNumbers
  <2> QED BY <1>1, <2>1, <2>4, <2>5, <2>6 DEF FeedNumbers
<1>4. ASSUME NEW r \in Record, RestCommit(r)
      PROVE  FeedNumbers' /\ log \subseteq log' /\ lastSeq <= lastSeq'
  <2>1. PICK new : /\ new.seq = txn[r].seq
                   /\ log' = log \cup {new}
                   /\ txn[r].open /\ txn' = [txn EXCEPT ![r] = NoTxn] /\ lastSeq' = lastSeq
    <3> DEFINE new == [seq |-> txn[r].seq, rec |-> r, version |-> txn[r].image.version,
                       deleted |-> txn[r].image.deleted, data |-> txn[r].image.data]
    <3>1. new.seq = txn[r].seq
      OBVIOUS
    <3>2. /\ log' = log \cup {new}
          /\ txn[r].open /\ txn' = [txn EXCEPT ![r] = NoTxn] /\ lastSeq' = lastSeq
      BY <1>4 DEF RestCommit
    <3> HIDE DEF new
    <3> QED BY <3>1, <3>2
  <2>2. \A q \in Record : txn'[q].open => q # r /\ txn'[q] = txn[q]
    BY <2>1 DEF FeedTyped, NoTxn
  <2>3. new.seq <= lastSeq /\ \A x \in log : x.seq # new.seq
    BY <2>1 DEF FeedInv, OpenTxnIsNewest, FeedNumbers
  <2>4. IsFiniteSet(log')
    BY <2>1, FS_AddElement DEF FeedNumbers
  <2>5. \A x \in log' : x.seq <= lastSeq'
    BY <2>1, <2>3 DEF FeedNumbers
  <2>6. \A x, y \in log' : x.seq = y.seq => x = y
    BY <2>1, <2>3 DEF FeedNumbers
  <2>7. \A q \in Record : txn'[q].open => \A x \in log' : x.seq # txn'[q].seq
    BY <2>1, <2>2 DEF FeedNumbers
  <2>8. \A p, q \in Record : txn'[p].open /\ txn'[q].open /\ txn'[p].seq = txn'[q].seq => p = q
    BY <2>2 DEF FeedNumbers
  <2> QED BY <1>1, <2>1, <2>4, <2>5, <2>6, <2>7, <2>8 DEF FeedNumbers
<1>5. ASSUME UNCHANGED <<log, lastSeq>>,
             \A q \in Record : txn'[q].open => txn'[q] = txn[q]
      PROVE  FeedNumbers' /\ log \subseteq log' /\ lastSeq <= lastSeq'
  BY <1>1, <1>5 DEF FeedNumbers
<1>6. ASSUME NEW r \in Record, RestAbort(r)
      PROVE  UNCHANGED <<log, lastSeq>> /\ \A q \in Record : txn'[q].open => txn'[q] = txn[q]
  BY <1>6 DEF RestAbort, NoTxn, FeedTyped
<1>7. ASSUME ServerCrash
      PROVE  UNCHANGED <<log, lastSeq>> /\ \A q \in Record : txn'[q].open => txn'[q] = txn[q]
  BY <1>7 DEF ServerCrash, NoTxn
<1>8. ASSUME NEW h \in Handler, ReadRow(h)
      PROVE  UNCHANGED <<log, lastSeq, txn>>
  BY <1>8, ReadOutcome
<1>9. ASSUME NEW h \in Handler, Serve(h)
      PROVE  WriteRow(h) \/ UNCHANGED <<log, lastSeq, txn>>
  BY <1>8, <1>9
  DEF Serve, AnswerDuplicate, PassGate, WriteFails, StampOp, StampFails, FinishPush, feedVars
<1>10. ASSUME NEW h \in Handler, NEW ops, NEW acc, ReceivePush(h, ops, acc)
       PROVE  UNCHANGED <<log, lastSeq, txn>>
  BY <1>10 DEF ReceivePush, feedVars
<1>11. UNCHANGED serverVars => UNCHANGED <<log, lastSeq, txn>>
  BY DEF serverVars
<1> QED BY <1>2, <1>3, <1>4, <1>5, <1>6, <1>7, <1>9, <1>10, <1>11 DEF ServerStep, OfficeStep

-----------------------------------------------------------------------------
(* A step of the whole is a step of the server, or leaves the server alone.  *)

\* The steps of the server when its pushes come from the devices.
ServerMoves ==
  \/ \E h \in Handler, ops \in Seq(IssuedOp), acc \in AccessSet : ReceivePush(h, ops, acc)
  \/ \E h \in Handler : Serve(h)
  \/ \E r \in Record : OfficeStep(r)
  \/ ServerCrash

\* The queue and the batches hold operations of the type.
LEMMA IssuedOpIsOp ==
  /\ IssuedOp \subseteq Op
  /\ Seq(IssuedOp) \subseteq Seq(Op)
<1>1. IssuedOp \subseteq Op
  BY DEF IssuedOp
<1> QED BY <1>1, SeqMonotonic

\* These are steps SyncServerProofs knows about.
LEMMA MovesAreServerSteps == ServerMoves => ServerStep
BY IssuedOpIsOp DEF ServerMoves, ServerStep

\* Every step moves the server as it is allowed to move, or not at all.
LEMMA NextMovesServer ==
  ASSUME SyncInv, [Next]_vars
  PROVE  ServerMoves \/ UNCHANGED serverVars
<1>1. ASSUME NEW d \in Device, NEW h \in Handler, SendBatch(d, h)
      PROVE  ServerMoves
  <2>1. cycle[d].ops \in Seq(IssuedOp) /\ BatchSize \in Nat
    BY DeviceAssumption DEF SyncInv, DeviceInv, CycleInv, Cycle
  <2>2. Prefix(cycle[d].ops, BatchSize) \in Seq(IssuedOp)
    BY <2>1, PrefixType
  <2> QED BY <1>1, <2>2 DEF SendBatch, ServerMoves
<1>2. ASSUME NEW h \in Handler, Handle(h) \/ Respond(h)
      PROVE  ServerMoves
  BY <1>2 DEF Handle, Respond, ServerMoves, Serve
<1>3. ASSUME Office
      PROVE  ServerMoves
  BY <1>3, EditsAssumption DEF Office, ServerMoves, OfficeStep
<1>4. ServerRestart => ServerMoves
  BY DEF ServerRestart, ServerMoves
<1>5. UNCHANGED vars => UNCHANGED serverVars
  BY DEF vars
<1>6. ASSUME NEW d \in Device, Edit(d) \/ TakeServer(d) \/ TakeLocal(d) \/ LoseRequest(d) \/ DeviceRestart(d)
      PROVE  UNCHANGED serverVars
  BY <1>6 DEF Edit, QueueRead, QueueWrite, QueueAdd, TakeServer, TakeLocal, LoseRequest, DeviceRestart
<1>7. ASSUME NEW d \in Device, Sync(d)
      PROVE  (\E h \in Handler : SendBatch(d, h)) \/ UNCHANGED serverVars
  BY <1>7 DEF Sync, BeginSync, HandleResult, EndBatch, PullPage, ReadLocal, WriteLocal, EndPage, Wipe
<1> QED BY <1>1, <1>2, <1>3, <1>4, <1>5, <1>6, <1>7 DEF Next

\* No step takes an opId off the way: only a queue() call that begins draws a new
\* one, and it draws the one after the last.
LEMMA IssuedGrows ==
  ASSUME SyncInv, [Next]_vars, NEW o, Issued(o)
  PROVE  Issued(o)'
<1> DEFINE d == o[1]
<1>1. o \in OpId /\ d \in Device /\ o[2] \in Nat
  BY DeviceAssumption DEF Issued
<1>2. made[d] \in Nat /\ DraftInv(d)
  BY <1>1 DEF SyncInv, DeviceInv
<1>3. OnDevices(made) /\ OnDevices(draft)
  BY DEF SyncInv, Shape
<1>4. CASE UNCHANGED <<made, draft>>
  BY <1>4 DEF Issued
<1>5. ASSUME NEW e \in Device, QueueRead(e)
      PROVE  Issued(o)'
  <2>1. PICK new : draft' = [draft EXCEPT ![e] = new]
    BY <1>5 DEF QueueRead
  <2>2. draft[e] = NoDraft /\ made' = [made EXCEPT ![e] = @ + 1]
    BY <1>5 DEF QueueRead
  <2>3. CASE d # e
    <3>1. made'[d] = made[d] /\ draft'[d] = draft[d]
      BY <1>1, <1>3, <2>1, <2>2, <2>3 DEF OnDevices
    <3> QED BY <3>1 DEF Issued
  <2>4. CASE d = e
    <3>1. made'[d] = made[d] + 1
      BY <1>1, <1>3, <2>2, <2>4 DEF OnDevices
    <3>2. o[2] <= MaxEdits => o[2] <= made'[d] /\ o[2] # made'[d]
      BY <1>1, <1>2, <3>1 DEF Issued
    <3> QED BY <1>1, <3>2 DEF Issued
  <2> QED BY <2>3, <2>4
<1>6. ASSUME NEW e \in Device, QueueWrite(e)
      PROVE  Issued(o)'
  <2>1. made' = made /\ draft' = [draft EXCEPT ![e].stage = "add"] /\ draft[e] # NoDraft
    BY <1>6 DEF QueueWrite, NoDraft
  <2>2. PICK new : draft' = [draft EXCEPT ![e] = new]
    BY <2>1
  <2>3. CASE d # e
    <3>1. draft'[d] = draft[d]
      BY <1>1, <1>3, <2>2, <2>3 DEF OnDevices
    <3> QED BY <2>1, <3>1 DEF Issued
  <2>4. CASE d = e
    <3>1. o[2] <= MaxEdits => o[2] <= made'[d] /\ o[2] # made'[d]
      BY <2>1, <2>4 DEF Issued
    <3> QED BY <1>1, <3>1 DEF Issued
  <2> QED BY <2>3, <2>4
<1>7. ASSUME NEW e \in Device, QueueAdd(e) \/ DeviceRestart(e)
      PROVE  Issued(o)'
  <2>1. made' = made /\ draft' = [draft EXCEPT ![e] = NoDraft]
    BY <1>7 DEF QueueAdd, DeviceRestart
  <2>2. draft'[d] = NoDraft \/ draft'[d] = draft[d]
    BY <1>1, <1>3, <2>1 DEF OnDevices
  <2> QED BY <1>1, <2>1, <2>2 DEF Issued
<1>8. ASSUME NEW e \in Device, Sync(e) \/ TakeServer(e) \/ TakeLocal(e) \/ LoseRequest(e)
      PROVE  UNCHANGED <<made, draft>>
  BY <1>8 DEF Sync, BeginSync, HandleResult, EndBatch, PullPage, ReadLocal, WriteLocal, EndPage,
              Wipe, SendBatch, TakeServer, TakeLocal, LoseRequest
<1>9. ASSUME (\E h \in Handler : Handle(h) \/ Respond(h)) \/ Office \/ ServerRestart \/ UNCHANGED vars
      PROVE  UNCHANGED <<made, draft>>
  BY <1>9 DEF Handle, Respond, Office, ServerRestart, vars, deviceVars
<1> QED BY <1>4, <1>5, <1>6, <1>7, <1>8, <1>9 DEF Next, Edit

\* Every step only adds to the feed, the effects and the opIds on their way.
LEMMA NextIsLater ==
  ASSUME SyncInv, [Next]_vars
  PROVE  Later
<1>1. ServerStep \/ UNCHANGED serverVars
  BY NextMovesServer, MovesAreServerSteps
<1>2. ServerTypeOK /\ FeedInv /\ FeedNumbers /\ ServerTypeOK'
  BY <1>1, TypeStep DEF SyncInv, ServerInv
<1>3. log \subseteq log' /\ lastSeq <= lastSeq'
  BY <1>1, <1>2, FeedNumbersStep
<1>4. {lastSeq, lastSeq'} \subseteq Nat
  BY <1>2, TypeParts DEF FeedTyped
<1>5. \A o \in OpId : effect[o] # "none" => effect'[o] # "none"
  BY <1>1, <1>2, EffectGrows
<1>6. \A o : Issued(o) => Issued(o)'
  BY IssuedGrows
<1> QED BY <1>3, <1>4, <1>5, <1>6 DEF Later

\* So what was honest stays honest.
LEMMA LaterTypes ==
  ASSUME Later
  PROVE  /\ IssuedOp \subseteq IssuedOp' /\ HonestResult \subseteq HonestResult'
         /\ Seq(IssuedOp) \subseteq Seq(IssuedOp') /\ Seq(HonestResult) \subseteq Seq(HonestResult')
         /\ \A r, data : WasRow(r, data) => WasRow(r, data)'
<1>1. IssuedOp \subseteq IssuedOp'
  BY DEF Later, IssuedOp
<1>2. \A r, data : WasRow(r, data) => WasRow(r, data)'
  BY DEF Later, WasRow
<1>3. HonestResult \subseteq HonestResult'
  <2>1. ASSUME NEW res \in HonestResult
        PROVE  res \in HonestResult'
    <3>1. /\ res \in Result /\ res.opId \in OpId
          /\ Issued(res.opId)'
          /\ res.outcome \in OkOutcome => effect'[res.opId] # "none"
      BY <2>1 DEF HonestResult, Later, Result
    <3>2. res.outcome = "CONFLICT" => WasRow(res.rec, res.server)'
      BY <1>2, <2>1 DEF HonestResult
    <3> QED BY <3>1, <3>2 DEF HonestResult
  <2> QED BY <2>1
<1> QED BY <1>1, <1>2, <1>3, SeqMonotonic

\* Every step keeps the server's part of the invariant.
LEMMA ServerInvStep ==
  ASSUME SyncInv, [Next]_vars
  PROVE  ServerInv'
<1>1. ServerMoves \/ UNCHANGED serverVars
  BY NextMovesServer
<1>2. ServerStep \/ UNCHANGED serverVars
  BY <1>1, MovesAreServerSteps
<1>3. ServerTypeOK /\ AckInv /\ FeedInv /\ FeedNumbers
  BY DEF SyncInv, ServerInv
<1>4. ServerTypeOK' /\ AckInv' /\ FeedInv' /\ FeedNumbers'
  BY <1>2, <1>3, TypeStep, AckStep, FeedStep, FeedNumbersStep
<1>5. Later
  BY NextIsLater
<1>6. \A h \in Handler : /\ todo[h] \in Seq(IssuedOp) /\ answers[h] \in Seq(HonestResult)
                         /\ todo[h] \in Seq(IssuedOp') /\ answers[h] \in Seq(HonestResult')
  BY <1>5, LaterTypes DEF SyncInv, ServerInv
<1>7. /\ todo \in [Handler -> Seq(Op)] /\ answers \in [Handler -> Seq(Result)]
      /\ answers' \in [Handler -> Seq(Result)]
  BY <1>3, <1>4, TypeParts DEF HandlersTyped
<1>8. <<>> \in Seq(IssuedOp') /\ <<>> \in Seq(HonestResult')
  BY EmptySeq
<1> DEFINE Goal == \A h \in Handler : todo'[h] \in Seq(IssuedOp') /\ answers'[h] \in Seq(HonestResult')
<1>9. ASSUME NEW h \in Handler, GivesResult(h)
      PROVE  Goal
  <2>1. PICK res \in Result :
          /\ res.opId = Cur(h).opId
          /\ res.outcome = "CONFLICT" => WasRow(res.rec, res.server)
          /\ answers' = [answers EXCEPT ![h] = Append(answers[h], res)]
          /\ todo' = [todo EXCEPT ![h] = Tail(todo[h])]
    BY <1>9 DEF GivesResult
  <2>2. todo[h] # <<>> /\ Cur(h) \in IssuedOp /\ Tail(todo[h]) \in Seq(IssuedOp')
    BY <1>6, <1>9, HeadTailProperties DEF GivesResult, Cur
  <2>3. Issued(res.opId)'
    BY <1>5, <2>1, <2>2 DEF IssuedOp, Later
  <2>4. Append(answers[h], res)[Len(answers[h]) + 1] = res
    BY <1>6, AppendProperties
  <2>5. Len(Append(answers[h], res)) = Len(answers[h]) + 1 /\ Len(answers[h]) \in Nat
    BY <1>6, AppendProperties, LenProperties
  <2>6. answers'[h] = Append(answers[h], res)
    BY <1>7, <2>1
  <2>7. res.outcome \in OkOutcome => effect'[res.opId] # "none"
    <3>1. Len(answers[h]) + 1 \in 1..Len(answers'[h])
      BY <2>5, <2>6
    <3> QED BY <1>4, <2>4, <2>6, <3>1 DEF AckInv, AckedOpTookEffect
  <2>8. res.outcome = "CONFLICT" => WasRow(res.rec, res.server)'
    BY <1>5, <2>1, LaterTypes
  <2>9. res \in HonestResult'
    BY <2>3, <2>7, <2>8 DEF HonestResult
  <2>10. Append(answers[h], res) \in Seq(HonestResult')
    BY <1>6, <2>9, AppendProperties
  <2> QED BY <1>6, <1>7, <2>1, <2>2, <2>10
<1>10. ASSUME UNCHANGED <<todo, answers>>
       PROVE  Goal
  BY <1>6, <1>10
<1>11. ASSUME NEW h \in Handler, answers' = [answers EXCEPT ![h] = <<>>] /\ UNCHANGED todo
       PROVE  Goal
  BY <1>6, <1>7, <1>8, <1>11
<1>12. ASSUME NEW h \in Handler, Serve(h)
       PROVE  Goal
  BY <1>3, <1>9, <1>10, <1>11, <1>12, ServeOutcome
<1>13. ASSUME NEW h \in Handler, NEW ops \in Seq(IssuedOp), NEW acc, ReceivePush(h, ops, acc)
       PROVE  Goal
  <2>1. ops \in Seq(IssuedOp') /\ todo' = [todo EXCEPT ![h] = ops] /\ answers' = answers
    BY <1>5, <1>13, LaterTypes DEF ReceivePush
  <2> QED BY <1>6, <1>7, <2>1
<1>14. ASSUME NEW r \in Record, OfficeStep(r)
       PROVE  Goal
  BY <1>10, <1>14 DEF OfficeStep, RestWrite, RestCommit, RestAbort
<1>15. ServerCrash => Goal
  BY <1>8 DEF ServerCrash
<1>16. UNCHANGED serverVars => Goal
  BY <1>10 DEF serverVars
<1>17. Goal
  <2> HIDE DEF Goal
  <2> QED BY <1>1, <1>12, <1>13, <1>14, <1>15, <1>16 DEF ServerMoves
<1> QED BY <1>4, <1>17 DEF ServerInv

-----------------------------------------------------------------------------
(* What keeps a device's part of the invariant when others, or only some of  *)
(* its variables, move.                                                      *)

\* Operations that leave the queue leave it as it should be.
LEMMA QueueFrame ==
  ASSUME Later, NEW d, QueueInv(d), pending'[d] \subseteq pending[d]
  PROVE  QueueInv(d)'
<1>1. IssuedOp \subseteq IssuedOp'
  BY LaterTypes
<1>2. IsFiniteSet(pending'[d])
  BY FS_Subset DEF QueueInv
<1> QED BY <1>1, <1>2 DEF QueueInv

\* A genuine conflict stays genuine as long as the process learns no entity.
LEMMA GenuineFrame ==
  ASSUME Later, NEW d, NEW c, Genuine(d, c),
         c.opId \in opEntity'[d] => c.opId \in opEntity[d]
  PROVE  Genuine(d, c)'
BY DEF Genuine, Later

\* So conflicts that stay filed stay as they should be.
LEMMA ConflictFrame ==
  ASSUME Later, NEW d, ConflictInv(d), conflicts'[d] \subseteq conflicts[d],
         opEntity'[d] \subseteq opEntity[d]
  PROVE  ConflictInv(d)'
<1> SUFFICES ASSUME NEW c \in conflicts'[d]
             PROVE  c \in Conflict /\ Issued(c.opId)' /\ Genuine(d, c)'
  BY DEF ConflictInv
<1>1. c \in Conflict /\ Issued(c.opId) /\ Genuine(d, c)
  BY DEF ConflictInv
<1> QED BY <1>1, GenuineFrame DEF Later

\* A queue() call that does not move stays as it should be.
LEMMA DraftFrame ==
  ASSUME NEW d, DraftInv(d), draft'[d] = draft[d], made'[d] = made[d]
  PROVE  DraftInv(d)'
BY DEF DraftInv

\* What a cycle held before a step it may hold after it.
LEMMA CycleTypeGrows ==
  ASSUME Later, NEW c \in Cycle
  PROVE  c \in Cycle'
<1> DEFINE Steps == {"idle", "send", "wait", "results", "pull", "apply", "merge", "wipe"}
<1>1. /\ c = [step |-> c.step, ops |-> c.ops, asked |-> c.asked, results |-> c.results,
              changes |-> c.changes, held |-> c.held, reached |-> c.reached, more |-> c.more]
      /\ c.step \in Steps /\ c.ops \in Seq(IssuedOp) /\ c.asked \in Handler \cup {"none"}
      /\ c.results \in Seq(HonestResult) /\ c.changes \in Seq(Entry) /\ c.held \in LocalRecord
      /\ c.reached \in 0..lastSeq /\ c.more \in BOOLEAN
  BY DEF Cycle
<1>2. c.ops \in Seq(IssuedOp') /\ c.results \in Seq(HonestResult')
  BY <1>1, LaterTypes
<1>3. c.reached \in 0..lastSeq'
  BY <1>1 DEF Later
<1> QED BY <1>1, <1>2, <1>3 DEF Cycle

\* So does a cycle that does not move ...
LEMMA CycleFrame ==
  ASSUME Later, NEW d, CycleInv(d), cycle'[d] = cycle[d]
  PROVE  CycleInv(d)'
BY CycleTypeGrows DEF CycleInv

\* ... and a cursor that does not move.
LEMMA CursorFrame ==
  ASSUME Later, NEW d, cursor[d] \in 0..lastSeq, cursor'[d] = cursor[d]
  PROVE  cursor'[d] \in 0..lastSeq'
BY DEF Later

\* A cycle that rests.
LEMMA RestingType ==
  ASSUME Later
  PROVE  /\ Resting \in Cycle'
         /\ Resting.step = "idle" /\ Resting.asked = "none"
         /\ [Resting EXCEPT !.step = "wipe"] \in Cycle'
         /\ [Resting EXCEPT !.step = "wipe"].step = "wipe"
         /\ [Resting EXCEPT !.step = "wipe"].asked = "none"
<1>1. <<>> \in Seq(IssuedOp') /\ <<>> \in Seq(HonestResult') /\ <<>> \in Seq(Entry)
  BY EmptySeq
<1>2. 0 \in 0..lastSeq'
  BY DEF Later
<1>3. Resting \in Cycle' /\ Resting.step = "idle" /\ Resting.asked = "none"
  BY <1>1, <1>2, AbsentIsRecord DEF Resting, Cycle
<1>4. [Resting EXCEPT !.step = "wipe"] \in Cycle'
  BY <1>1, <1>2, AbsentIsRecord DEF Resting, Cycle
<1>5. [Resting EXCEPT !.step = "wipe"].step = "wipe" /\ [Resting EXCEPT !.step = "wipe"].asked = "none"
  BY DEF Resting
<1> QED BY <1>3, <1>4, <1>5

\* A device whose variables stay.
Still(d) ==
  /\ store'[d] = store[d] /\ pending'[d] = pending[d] /\ conflicts'[d] = conflicts[d]
  /\ cursor'[d] = cursor[d] /\ draft'[d] = draft[d] /\ opEntity'[d] = opEntity[d]
  /\ cycle'[d] = cycle[d] /\ failed'[d] = failed[d] /\ made'[d] = made[d]

\* A device that does not move keeps its part of the invariant.
LEMMA StillInv ==
  ASSUME Later, NEW d, DeviceInv(d), Still(d)
  PROVE  DeviceInv(d)'
<1>1. QueueInv(d)' /\ ConflictInv(d)' /\ DraftInv(d)' /\ CycleInv(d)' /\ cursor'[d] \in 0..lastSeq'
  BY QueueFrame, ConflictFrame, DraftFrame, CycleFrame, CursorFrame DEF DeviceInv, Still
<1> QED BY <1>1 DEF DeviceInv, Still

\* A step of device d that leaves the other devices alone.
StepOf(d) == Shape' /\ \A e \in Device \ {d} : Still(e)

-----------------------------------------------------------------------------
(* queue(): the three steps of an edit.                                      *)

\* The operation it builds has the next opId, which nobody has seen.
LEMMA QueueReadInv ==
  ASSUME SyncInv, Later, NEW d \in Device, QueueRead(d)
  PROVE  StepOf(d) /\ DeviceInv(d)'
<1>1. DeviceInv(d) /\ Shape
  BY DEF SyncInv
<1> DEFINE current(edit) == store[d][edit.rec]
           data(edit) == IF edit.kind = "PATCH" THEN Overlay(current(edit).data, edit.data)
                         ELSE edit.data
           op(edit) == [opId |-> <<d, made[d] + 1>>, rec |-> edit.rec, kind |-> edit.kind,
                        data |-> data(edit), at |-> made[d] + 1]
           new(edit) == [stage |-> "write", op |-> op(edit), current |-> current(edit)]
<1>2. PICK edit \in LocalEdits : draft' = [draft EXCEPT ![d] = new(edit)]
  BY DEF QueueRead
<1> HIDE DEF new
<1>3. /\ made[d] < MaxEdits /\ made' = [made EXCEPT ![d] = made[d] + 1] /\ draft[d] = NoDraft
      /\ UNCHANGED <<store, pending, conflicts, cursor, opEntity, cycle, failed>>
  BY DEF QueueRead
<1>4. OnDevices(made)' /\ made'[d] = made[d] + 1 /\ \A e \in Device \ {d} : made'[e] = made[e]
  BY <1>1, <1>3 DEF Shape, OnDevices
<1>5. OnDevices(draft)' /\ draft'[d] = new(edit) /\ \A e \in Device \ {d} : draft'[e] = draft[e]
  BY <1>1, <1>2 DEF Shape, OnDevices
<1>6. edit.rec \in Record /\ edit.kind \in OpKind /\ edit.data \in Data
  BY EditsAssumption
<1>7. current(edit) \in LocalRecord /\ current(edit).data \in Data
  BY <1>1, <1>6 DEF DeviceInv, LocalRecord
<1>8. data(edit) \in Data
  BY <1>6, <1>7, OverlayIsData
<1>9. made[d] + 1 \in 1..MaxEdits /\ made[d] + 1 \in 1..2 * MaxEdits /\ made[d] + 1 \in Nat
  BY <1>1, <1>3, DeviceAssumption DEF DeviceInv
<1>10. <<d, made[d] + 1>> \in OpId
  BY <1>9, DeviceAssumption
<1>11. op(edit) \in Op
  BY <1>6, <1>8, <1>9, <1>10 DEF Op
<1>12. new(edit) \in Draft /\ new(edit) # NoDraft /\ new(edit).op.opId = <<d, made[d] + 1>>
  BY <1>7, <1>11 DEF Draft, NoDraft, new
<1>13. DraftInv(d)'
  BY <1>4, <1>5, <1>9, <1>12 DEF DraftInv
<1>14. QueueInv(d)' /\ ConflictInv(d)' /\ CycleInv(d)' /\ cursor'[d] \in 0..lastSeq'
  BY <1>1, <1>3, QueueFrame, ConflictFrame, CycleFrame, CursorFrame DEF DeviceInv
<1>15. made'[d] \in 0..MaxEdits
  BY <1>4, <1>9
<1>16. Shape'
  BY <1>1, <1>3, <1>4, <1>5 DEF Shape, OnDevices
<1>17. StepOf(d)
  BY <1>3, <1>4, <1>5, <1>16 DEF StepOf, Still
<1> QED BY <1>1, <1>3, <1>13, <1>14, <1>15, <1>17 DEF DeviceInv

\* The record it writes is a record.
LEMMA QueueWriteInv ==
  ASSUME SyncInv, Later, NEW d \in Device, QueueWrite(d)
  PROVE  StepOf(d) /\ DeviceInv(d)'
<1> DEFINE op == draft[d].op
           current == draft[d].current
           written == [draft[d] EXCEPT !.stage = "add"]
<1>1. DeviceInv(d) /\ Shape
  BY DEF SyncInv
<1>2. /\ draft[d].stage = "write" /\ draft' = [draft EXCEPT ![d] = written]
      /\ UNCHANGED <<pending, conflicts, cursor, opEntity, cycle, failed, made>>
  BY DEF QueueWrite
<1>3. draft[d] \in Draft /\ op.opId = <<d, made[d]>> /\ made[d] \in 1..MaxEdits
  BY <1>1, <1>2 DEF DeviceInv, DraftInv, NoDraft
<1>4. written \in Draft /\ written.op = op
  BY <1>3 DEF Draft
<1>5. OnDevices(draft)' /\ draft'[d] = written /\ \A e \in Device \ {d} : draft'[e] = draft[e]
  BY <1>1, <1>2 DEF Shape, OnDevices
<1>6. op.rec \in Record /\ op.data \in Data /\ current.data \in Data /\ current.version + 1 \in Nat
  BY <1>3 DEF Draft, Op, LocalRecord
<1>7. /\ Local(current.version + 1, FALSE, op.data) \in LocalRecord
      /\ Local(current.version + 1, TRUE, current.data) \in LocalRecord
  BY <1>6, LocalIsRecord
<1>8. \/ store' = store
      \/ \E new \in LocalRecord : store' = [store EXCEPT ![d] = [store[d] EXCEPT ![op.rec] = new]]
  BY <1>7 DEF QueueWrite
<1>9. /\ OnDevices(store)' /\ store'[d] \in [Record -> LocalRecord]
      /\ \A e \in Device \ {d} : store'[e] = store[e]
  <2>1. CASE store' = store
    BY <1>1, <2>1 DEF Shape, DeviceInv, OnDevices
  <2>2. ASSUME NEW new \in LocalRecord, store' = [store EXCEPT ![d] = [store[d] EXCEPT ![op.rec] = new]]
        PROVE  /\ OnDevices(store)' /\ store'[d] \in [Record -> LocalRecord]
               /\ \A e \in Device \ {d} : store'[e] = store[e]
    <3>1. [store[d] EXCEPT ![op.rec] = new] \in [Record -> LocalRecord]
      BY <1>1, <1>6 DEF DeviceInv
    <3> QED BY <1>1, <2>2, <3>1 DEF Shape, OnDevices
  <2> QED BY <1>8, <2>1, <2>2
<1>10. DraftInv(d)'
  <2> HIDE DEF written, op
  <2> QED BY <1>2, <1>3, <1>4, <1>5 DEF DraftInv
<1>11. QueueInv(d)' /\ ConflictInv(d)' /\ CycleInv(d)' /\ cursor'[d] \in 0..lastSeq'
  BY <1>1, <1>2, QueueFrame, ConflictFrame, CycleFrame, CursorFrame DEF DeviceInv
<1>12. Shape'
  BY <1>1, <1>2, <1>5, <1>9 DEF Shape, OnDevices
<1>13. StepOf(d)
  BY <1>2, <1>5, <1>9, <1>12 DEF StepOf, Still
<1> QED BY <1>1, <1>2, <1>9, <1>10, <1>11, <1>13 DEF DeviceInv

\* addPending keeps one entry of an opId.
LEMMA AddPendingKeyed ==
  ASSUME NEW d, NEW ops, IsFiniteSet(ops), \A x, y \in ops : x.opId = y.opId => x = y, NEW op
  PROVE  /\ AddPending(d, ops, op) \subseteq ops \cup {op}
         /\ IsFiniteSet(AddPending(d, ops, op))
         /\ \A x, y \in AddPending(d, ops, op) : x.opId = y.opId => x = y
         /\ op.opId \in {x.opId : x \in AddPending(d, ops, op)}
<1>1. AddPending(d, ops, op) \subseteq ops \cup {op}
  BY DEF AddPending
<1>2. IsFiniteSet(AddPending(d, ops, op))
  BY <1>1, FS_AddElement, FS_Subset
<1>3. \A x, y \in AddPending(d, ops, op) : x.opId = y.opId => x = y
  BY DEF AddPending
<1>4. op.opId \in {x.opId : x \in AddPending(d, ops, op)}
  BY DEF AddPending
<1> QED BY <1>1, <1>2, <1>3, <1>4

\* The operation is on its way from here: its opId is in no conflict yet, so the
\* entity the process now remembers makes no conflict less genuine.
LEMMA QueueAddInv ==
  ASSUME SyncInv, Later, NEW d \in Device, QueueAdd(d)
  PROVE  StepOf(d) /\ DeviceInv(d)'
<1> DEFINE op == draft[d].op
<1>1. DeviceInv(d) /\ Shape
  BY DEF SyncInv
<1>2. /\ draft[d] # NoDraft
      /\ pending' = [pending EXCEPT ![d] = AddPending(d, pending[d], op)]
      /\ opEntity' = [opEntity EXCEPT ![d] = opEntity[d] \cup {op.opId}]
      /\ draft' = [draft EXCEPT ![d] = NoDraft]
      /\ UNCHANGED <<store, conflicts, cursor, cycle, failed, made>>
  BY DEF QueueAdd, NoDraft
<1>3. op \in Op /\ op.opId = <<d, made[d]>> /\ made[d] \in 1..MaxEdits
  BY <1>1, <1>2 DEF DeviceInv, DraftInv, Draft
<1>4. /\ OnDevices(pending)' /\ pending'[d] = AddPending(d, pending[d], op)
      /\ \A e \in Device \ {d} : pending'[e] = pending[e]
  BY <1>1, <1>2 DEF Shape, OnDevices
<1>5. /\ OnDevices(opEntity)' /\ opEntity'[d] = opEntity[d] \cup {op.opId}
      /\ \A e \in Device \ {d} : opEntity'[e] = opEntity[e]
  BY <1>1, <1>2 DEF Shape, OnDevices
<1>6. OnDevices(draft)' /\ draft'[d] = NoDraft /\ \A e \in Device \ {d} : draft'[e] = draft[e]
  BY <1>1, <1>2 DEF Shape, OnDevices
<1>7. op.opId \in OpId /\ op.opId[1] = d /\ op.opId[2] = made[d] /\ made[d] <= MaxEdits
  BY <1>3 DEF Op
<1>8. op \in IssuedOp'
  BY <1>2, <1>3, <1>6, <1>7 DEF IssuedOp, Issued
<1>9. QueueInv(d)'
  BY <1>1, <1>4, <1>8, LaterTypes, AddPendingKeyed DEF DeviceInv, QueueInv
<1>10. ~Issued(op.opId)
  BY <1>2, <1>7 DEF Issued
<1>11. ConflictInv(d)'
  <2> SUFFICES ASSUME NEW c \in conflicts'[d]
               PROVE  c \in Conflict /\ Issued(c.opId)' /\ Genuine(d, c)'
    BY DEF ConflictInv
  <2>1. c \in Conflict /\ Issued(c.opId) /\ Genuine(d, c)
    BY <1>1, <1>2 DEF DeviceInv, ConflictInv
  <2> QED BY <1>5, <1>10, <2>1, GenuineFrame DEF Later
<1>12. opEntity'[d] \in SUBSET {o \in OpId : o[2] <= MaxEdits}
  BY <1>1, <1>5, <1>7 DEF DeviceInv
<1>13. DraftInv(d)' /\ CycleInv(d)' /\ cursor'[d] \in 0..lastSeq'
  BY <1>1, <1>2, <1>6, CycleFrame, CursorFrame DEF DeviceInv, DraftInv
<1>14. Shape'
  BY <1>1, <1>2, <1>4, <1>5, <1>6 DEF Shape, OnDevices
<1>15. StepOf(d)
  BY <1>2, <1>4, <1>5, <1>6, <1>14 DEF StepOf, Still
<1> QED BY <1>1, <1>2, <1>9, <1>11, <1>12, <1>13, <1>15 DEF DeviceInv

-----------------------------------------------------------------------------
(* The sync cycle.                                                           *)

\* A cycle as CycleInv wants it.
GoodCycle(c) ==
  /\ c \in Cycle
  /\ c.asked = "none" <=> c.step # "wait"
  /\ c.step = "merge" => c.changes # <<>>

\* The same of the value a cycle takes.
CycleNext(c) ==
  /\ c \in Cycle'
  /\ c.asked = "none" <=> c.step # "wait"
  /\ c.step = "merge" => c.changes # <<>>

\* A step of device d that edits nothing: what it may change, and to what.
LEMMA DeviceMoves ==
  ASSUME SyncInv, Later, NEW d \in Device,
         UNCHANGED <<draft, opEntity, made>>,
         UNCHANGED cycle \/ \E c : cycle' = [cycle EXCEPT ![d] = c] /\ CycleNext(c),
         UNCHANGED cursor \/ \E p \in 0..lastSeq' : cursor' = [cursor EXCEPT ![d] = p],
         \/ UNCHANGED store
         \/ \E s \in [Record -> LocalRecord] : store' = [store EXCEPT ![d] = s],
         UNCHANGED failed \/ \E f \in SUBSET OpId : failed' = [failed EXCEPT ![d] = f],
         \/ UNCHANGED pending
         \/ \E q \in SUBSET pending[d] : pending' = [pending EXCEPT ![d] = q],
         \/ UNCHANGED conflicts
         \/ \E k : /\ conflicts' = [conflicts EXCEPT ![d] = k]
                   /\ \A c \in k : c \in Conflict /\ Issued(c.opId)' /\ Genuine(d, c)'
  PROVE  StepOf(d) /\ DeviceInv(d)'
<1>1. DeviceInv(d) /\ Shape
  BY DEF SyncInv
<1>2. OnDevices(cycle)' /\ CycleInv(d)' /\ \A e \in Device \ {d} : cycle'[e] = cycle[e]
  <2>1. CASE UNCHANGED cycle
    BY <1>1, <2>1, CycleFrame DEF Shape, OnDevices, DeviceInv
  <2>2. ASSUME NEW c, cycle' = [cycle EXCEPT ![d] = c], CycleNext(c)
        PROVE  OnDevices(cycle)' /\ CycleInv(d)' /\ \A e \in Device \ {d} : cycle'[e] = cycle[e]
    <3>1. /\ cycle'[d] = c /\ \A e \in Device \ {d} : cycle'[e] = cycle[e]
          /\ cycle' = [e \in Device |-> cycle'[e]]
      BY <1>1, <2>2 DEF Shape, OnDevices
    <3> QED BY <2>2, <3>1 DEF OnDevices, CycleInv, CycleNext
  <2> QED BY <2>1, <2>2
<1>3. OnDevices(cursor)' /\ cursor'[d] \in 0..lastSeq' /\ \A e \in Device \ {d} : cursor'[e] = cursor[e]
  BY <1>1 DEF Shape, OnDevices, DeviceInv, Later
<1>4. /\ OnDevices(store)' /\ store'[d] \in [Record -> LocalRecord]
      /\ \A e \in Device \ {d} : store'[e] = store[e]
  BY <1>1 DEF Shape, OnDevices, DeviceInv
<1>5. OnDevices(failed)' /\ failed'[d] \in SUBSET OpId /\ \A e \in Device \ {d} : failed'[e] = failed[e]
  BY <1>1 DEF Shape, OnDevices, DeviceInv
<1>6. OnDevices(pending)' /\ QueueInv(d)' /\ \A e \in Device \ {d} : pending'[e] = pending[e]
  <2>1. /\ OnDevices(pending)' /\ pending'[d] \subseteq pending[d]
        /\ \A e \in Device \ {d} : pending'[e] = pending[e]
    BY <1>1 DEF Shape, OnDevices
  <2> QED BY <1>1, <2>1, QueueFrame DEF DeviceInv
<1>7. OnDevices(conflicts)' /\ ConflictInv(d)' /\ \A e \in Device \ {d} : conflicts'[e] = conflicts[e]
  <2>1. CASE UNCHANGED conflicts
    BY <1>1, <2>1, ConflictFrame DEF Shape, OnDevices, DeviceInv
  <2>2. ASSUME NEW k, conflicts' = [conflicts EXCEPT ![d] = k],
               \A c \in k : c \in Conflict /\ Issued(c.opId)' /\ Genuine(d, c)'
        PROVE  OnDevices(conflicts)' /\ ConflictInv(d)' /\ \A e \in Device \ {d} : conflicts'[e] = conflicts[e]
    <3>1. /\ conflicts'[d] = k /\ \A e \in Device \ {d} : conflicts'[e] = conflicts[e]
          /\ conflicts' = [e \in Device |-> conflicts'[e]]
      BY <1>1, <2>2 DEF Shape, OnDevices
    <3> QED BY <2>2, <3>1 DEF OnDevices, ConflictInv
  <2> QED BY <2>1, <2>2
<1>8. DraftInv(d)'
  BY <1>1, DraftFrame DEF DeviceInv
<1>9. Shape'
  BY <1>1, <1>2, <1>3, <1>4, <1>5, <1>6, <1>7 DEF Shape, OnDevices
<1>10. StepOf(d)
  BY <1>2, <1>3, <1>4, <1>5, <1>6, <1>7, <1>9 DEF StepOf, Still
<1> QED BY <1>1, <1>2, <1>3, <1>4, <1>5, <1>6, <1>7, <1>8, <1>10 DEF DeviceInv

\* What the parts of a cycle under way may be.
LEMMA CycleParts ==
  ASSUME SyncInv, Later, NEW d \in Device
  PROVE  /\ GoodCycle(cycle[d]) /\ cycle[d] \in Cycle'
         /\ cycle[d].step \in {"idle", "send", "wait", "results", "pull", "apply", "merge", "wipe"}
         /\ cycle[d].ops \in Seq(IssuedOp') /\ cycle[d].asked \in Handler \cup {"none"}
         /\ cycle[d].results \in Seq(HonestResult') /\ cycle[d].results \in Seq(HonestResult)
         /\ cycle[d].changes \in Seq(Entry) /\ cycle[d].held \in LocalRecord
         /\ cycle[d].reached \in 0..lastSeq' /\ cycle[d].more \in BOOLEAN
<1>1. CycleInv(d)
  BY DEF SyncInv, DeviceInv
<1>2. cycle[d] \in Cycle /\ cycle[d] \in Cycle' /\ GoodCycle(cycle[d])
  BY <1>1, CycleTypeGrows DEF CycleInv, GoodCycle
<1> QED BY <1>2 DEF Cycle

\* The push plan is a sequence of queued operations.
LEMMA BeginSyncInv ==
  ASSUME SyncInv, Later, NEW d \in Device, BeginSync(d)
  PROVE  StepOf(d) /\ DeviceInv(d)'
<1> DEFINE c == [cycle[d] EXCEPT !.step = IF pending[d] = {} THEN "pull" ELSE "send",
                                 !.ops = PushOrder(pending[d]), !.reached = cursor[d]]
<1>1. DeviceInv(d)
  BY DEF SyncInv
<1>2. PushOrder(pending[d]) \in Seq(IssuedOp')
  <2>1. pending[d] \in SUBSET Op /\ IsFiniteSet(pending[d]) /\ pending[d] \subseteq IssuedOp'
    BY <1>1, LaterTypes, IssuedOpIsOp DEF DeviceInv, QueueInv
  <2> QED BY <2>1, PushOrderType, SeqMonotonic
<1>3. cursor[d] \in 0..lastSeq'
  BY <1>1 DEF DeviceInv, Later
<1>4. c \in Cycle' /\ c.step # "wait" /\ c.step # "merge" /\ c.asked = cycle[d].asked
  BY <1>2, <1>3, CycleParts DEF Cycle
<1>5. c.asked = "none"
  BY <1>4, CycleParts DEF BeginSync, Step, GoodCycle
<1>6. cycle' = [cycle EXCEPT ![d] = c]
  BY DEF BeginSync
<1> HIDE DEF c
<1>7. CycleNext(c)
  BY <1>4, <1>5 DEF CycleNext
<1> QED BY <1>6, <1>7, DeviceMoves DEF BeginSync

\* A batch leaves the rest of the plan.
LEMMA SendBatchInv ==
  ASSUME SyncInv, Later, NEW d \in Device, NEW h \in Handler, SendBatch(d, h)
  PROVE  StepOf(d) /\ DeviceInv(d)'
<1> DEFINE c == [cycle[d] EXCEPT !.step = "wait", !.asked = h,
                   !.ops = SubSeq(cycle[d].ops, BatchSize + 1, Len(cycle[d].ops))]
<1>1. SubSeq(cycle[d].ops, BatchSize + 1, Len(cycle[d].ops)) \in Seq(IssuedOp')
  BY CycleParts, RestType, DeviceAssumption
<1>2. c \in Cycle' /\ c.step = "wait" /\ c.asked = h /\ h # "none"
  BY <1>1, CycleParts, DeviceAssumption DEF Cycle
<1>3. cycle' = [cycle EXCEPT ![d] = c]
  BY DEF SendBatch
<1> HIDE DEF c
<1>4. CycleNext(c)
  BY <1>2 DEF CycleNext
<1> QED BY <1>3, <1>4, DeviceMoves DEF SendBatch

\* The cursor stored after the last batch is a position the server reported.
LEMMA EndBatchInv ==
  ASSUME SyncInv, Later, NEW d \in Device, EndBatch(d)
  PROVE  StepOf(d) /\ DeviceInv(d)'
<1>1. PICK step \in {"send", "pull"} : cycle' = [cycle EXCEPT ![d] = [cycle[d] EXCEPT !.step = step]]
  BY DEF EndBatch, GoTo
<1> DEFINE c == [cycle[d] EXCEPT !.step = step]
<1>2. c \in Cycle' /\ c.step # "wait" /\ c.step # "merge" /\ c.asked = cycle[d].asked
  BY CycleParts DEF Cycle
<1>3. c.asked = "none"
  BY <1>2, CycleParts DEF EndBatch, Step, GoodCycle
<1>4. UNCHANGED cursor \/ \E p \in 0..lastSeq' : cursor' = [cursor EXCEPT ![d] = p]
  BY CycleParts DEF EndBatch
<1>5. cycle' = [cycle EXCEPT ![d] = c]
  BY <1>1
<1> HIDE DEF c
<1>6. CycleNext(c)
  BY <1>2, <1>3 DEF CycleNext
<1> QED BY <1>4, <1>5, <1>6, DeviceMoves DEF EndBatch

\* The position after a page is one of the feed.
LEMMA PageReached ==
  ASSUME SyncInv, Later, NEW d \in Device, NEW feed, NEW page, NEW position,
         feed = FeedAfter(d, cycle[d].reached),
         page = Prefix(feed, PageLimit),
         position = IF page = <<>> THEN cycle[d].reached ELSE page[Len(page)].seq
  PROVE  page \in Seq(Entry) /\ position \in 0..lastSeq'
<1>1. log \subseteq Entry /\ FeedNumbers
  BY TypeParts DEF SyncInv, ServerInv, FeedTyped
<1>2. \A x \in log : x.seq \in Nat /\ x.seq <= lastSeq
  BY <1>1 DEF Entry, FeedNumbers
<1>3. feed \in Seq(log)
  BY <1>1, <1>2, FeedAfterType DEF FeedNumbers
<1>4. page \in Seq(log) /\ (page # <<>> => page[Len(page)] \in log)
  BY <1>3, PrefixType, DeviceAssumption
<1>5. page \in Seq(Entry)
  BY <1>1, <1>4, SeqMonotonic
<1>6. position \in 0..lastSeq'
  BY <1>2, <1>4, CycleParts DEF Later
<1> QED BY <1>5, <1>6

\* A page is taken, or the cursor goes back to 0 and the wipe begins.
LEMMA PullPageInv ==
  ASSUME SyncInv, Later, NEW d \in Device, PullPage(d)
  PROVE  StepOf(d) /\ DeviceInv(d)'
<1> DEFINE feed == FeedAfter(d, cycle[d].reached)
           page == Prefix(feed, PageLimit)
           position == IF page = <<>> THEN cycle[d].reached ELSE page[Len(page)].seq
           more == Len(feed) > PageLimit
           c == [cycle[d] EXCEPT !.step = "apply", !.changes = page,
                                 !.reached = position, !.more = more]
           wipe == [Resting EXCEPT !.step = "wipe"]
<1>1. page \in Seq(Entry) /\ position \in 0..lastSeq' /\ more \in BOOLEAN
  BY PageReached
<1>2. \/ /\ cursor' = [cursor EXCEPT ![d] = 0]
         /\ cycle' = [cycle EXCEPT ![d] = wipe]
      \/ cycle' = [cycle EXCEPT ![d] = c] /\ UNCHANGED cursor
  BY DEF PullPage
<1>3. UNCHANGED <<store, pending, conflicts, draft, opEntity, failed, made>>
  BY DEF PullPage
<1> HIDE DEF feed, page, position, more
<1>4. c \in Cycle' /\ c.step = "apply" /\ c.asked = cycle[d].asked
  BY <1>1, CycleParts DEF Cycle
<1>5. c.asked = "none"
  BY <1>4, CycleParts DEF PullPage, Step, GoodCycle
<1> HIDE DEF c, wipe
<1>6. CycleNext(c)
  BY <1>4, <1>5 DEF CycleNext
<1>7. CycleNext(wipe)
  BY RestingType DEF CycleNext, wipe
<1>8. 0 \in 0..lastSeq'
  BY DEF Later
<1>9. /\ UNCHANGED cycle \/ \E x : cycle' = [cycle EXCEPT ![d] = x] /\ CycleNext(x)
      /\ UNCHANGED cursor \/ \E p \in 0..lastSeq' : cursor' = [cursor EXCEPT ![d] = p]
  BY <1>2, <1>6, <1>7, <1>8
<1> QED BY <1>3, <1>9, DeviceMoves

\* The record read is one of the store.
LEMMA ReadLocalInv ==
  ASSUME SyncInv, Later, NEW d \in Device, ReadLocal(d)
  PROVE  StepOf(d) /\ DeviceInv(d)'
<1> DEFINE held == store[d][Head(cycle[d].changes).rec]
           c == [cycle[d] EXCEPT !.step = "merge", !.held = held]
<1>1. /\ Step(d, "apply") /\ cycle[d].changes # <<>>
      /\ cycle' = [cycle EXCEPT ![d] = c]
      /\ UNCHANGED <<store, pending, conflicts, cursor, draft, opEntity, failed, made>>
  BY DEF ReadLocal
<1>2. Head(cycle[d].changes) \in Entry
  BY <1>1, CycleParts, HeadTailProperties
<1>3. held \in LocalRecord
  BY <1>2 DEF SyncInv, DeviceInv, Entry
<1> HIDE DEF held
<1>4. c \in Cycle' /\ c.step = "merge" /\ c.asked = cycle[d].asked /\ c.changes = cycle[d].changes
  BY <1>3, CycleParts DEF Cycle
<1>5. c.asked = "none"
  BY <1>1, <1>4, CycleParts DEF Step, GoodCycle
<1> HIDE DEF c
<1>6. CycleNext(c)
  BY <1>1, <1>4, <1>5 DEF CycleNext
<1> QED BY <1>1, <1>6, DeviceMoves

\* The merge written is a record.
LEMMA WriteLocalInv ==
  ASSUME SyncInv, Later, NEW d \in Device, WriteLocal(d)
  PROVE  StepOf(d) /\ DeviceInv(d)'
<1> DEFINE x == Head(cycle[d].changes)
           s == [store[d] EXCEPT ![x.rec] = RemoteApplied(x, cycle[d].held)]
           c == [cycle[d] EXCEPT !.step = "apply", !.changes = Tail(cycle[d].changes), !.held = Absent]
<1>1. /\ Step(d, "merge") /\ store' = [store EXCEPT ![d] = s] /\ cycle' = [cycle EXCEPT ![d] = c]
      /\ UNCHANGED <<pending, conflicts, cursor, draft, opEntity, failed, made>>
  BY DEF WriteLocal
<1>2. cycle[d].changes # <<>>
  BY <1>1, CycleParts DEF Step, GoodCycle
<1>3. x \in Entry /\ Tail(cycle[d].changes) \in Seq(Entry)
  BY <1>2, CycleParts, HeadTailProperties
<1>4. RemoteApplied(x, cycle[d].held) \in LocalRecord /\ x.rec \in Record
  BY <1>3, CycleParts, RemoteAppliedType DEF Entry
<1>5. s \in [Record -> LocalRecord]
  BY <1>4 DEF SyncInv, DeviceInv
<1>6. c \in Cycle' /\ c.step = "apply" /\ c.asked = cycle[d].asked
  BY <1>3, CycleParts, AbsentIsRecord DEF Cycle
<1>7. c.asked = "none"
  BY <1>1, <1>6, CycleParts DEF Step, GoodCycle
<1> HIDE DEF c, s
<1>8. CycleNext(c)
  BY <1>6, <1>7 DEF CycleNext
<1> QED BY <1>1, <1>5, <1>8, DeviceMoves

\* The cursor stored at the end of the cycle is one of the feed.
LEMMA EndPageInv ==
  ASSUME SyncInv, Later, NEW d \in Device, EndPage(d)
  PROVE  StepOf(d) /\ DeviceInv(d)'
<1> DEFINE c == [cycle[d] EXCEPT !.step = "pull"]
<1>1. \/ cycle' = [cycle EXCEPT ![d] = c] /\ UNCHANGED cursor
      \/ /\ cycle' = [cycle EXCEPT ![d] = Resting]
         /\ cursor' = [cursor EXCEPT ![d] = cycle[d].reached]
  BY DEF EndPage, GoTo
<1>2. UNCHANGED <<store, pending, conflicts, draft, opEntity, failed, made>>
  BY DEF EndPage
<1>3. c \in Cycle' /\ c.step = "pull" /\ c.asked = cycle[d].asked
  BY CycleParts DEF Cycle
<1>4. c.asked = "none"
  BY <1>3, CycleParts DEF EndPage, Step, GoodCycle
<1> HIDE DEF c
<1>5. CycleNext(c) /\ CycleNext(Resting)
  BY <1>3, <1>4, RestingType DEF CycleNext
<1>6. /\ UNCHANGED cycle \/ \E x : cycle' = [cycle EXCEPT ![d] = x] /\ CycleNext(x)
      /\ UNCHANGED cursor \/ \E p \in 0..lastSeq' : cursor' = [cursor EXCEPT ![d] = p]
  BY <1>1, <1>5, CycleParts
<1> QED BY <1>2, <1>6, DeviceMoves

\* The desktop's wipe leaves records.
LEMMA WipeInv ==
  ASSUME SyncInv, Later, NEW d \in Device, Wipe(d)
  PROVE  StepOf(d) /\ DeviceInv(d)'
<1> DEFINE s == [k \in Record |-> IF d \in Desktop /\ \A op \in pending[d] : op.rec # k
                                  THEN Absent ELSE store[d][k]]
<1>1. /\ store' = [store EXCEPT ![d] = s] /\ cycle' = [cycle EXCEPT ![d] = Resting]
      /\ UNCHANGED <<pending, conflicts, cursor, draft, opEntity, failed, made>>
  BY DEF Wipe
<1>2. s \in [Record -> LocalRecord]
  BY AbsentIsRecord DEF SyncInv, DeviceInv
<1>3. CycleNext(Resting)
  BY RestingType DEF CycleNext
<1> HIDE DEF s
<1> QED BY <1>1, <1>2, <1>3, DeviceMoves

\* The cycle ends, the rest stays.
LEMMA LoseRequestInv ==
  ASSUME SyncInv, Later, NEW d \in Device, LoseRequest(d)
  PROVE  StepOf(d) /\ DeviceInv(d)'
<1>1. CycleNext(Resting)
  BY RestingType DEF CycleNext
<1> QED BY <1>1, DeviceMoves DEF LoseRequest

\* A conflict is filed under the record it is about as long as the process remembers
\* the operation, and otherwise under the work order of the same id.
LEMMA HandleResultInv ==
  ASSUME SyncInv, Later, NEW d \in Device, HandleResult(d)
  PROVE  StepOf(d) /\ DeviceInv(d)'
<1> DEFINE res == Head(cycle[d].results)
           key == FiledUnder(d, res)
           local == store[d][key]
           filed == [opId |-> res.opId, rec |-> key, server |-> res.server, client |-> local.data]
           merged == Local(local.version, FALSE, ServerMerged(key.entity, res.server, local.data))
           c == [cycle[d] EXCEPT !.results = Tail(cycle[d].results)]
<1>1. DeviceInv(d)
  BY DEF SyncInv
<1>2. /\ Step(d, "results") /\ cycle[d].results # <<>> /\ cycle' = [cycle EXCEPT ![d] = c]
      /\ UNCHANGED <<cursor, draft, opEntity, made>>
  BY DEF HandleResult
<1>3. \/ /\ pending' = [pending EXCEPT ![d] = Without(pending[d], res.opId)]
         /\ UNCHANGED <<store, conflicts, failed>>
      \/ /\ res.outcome = "CONFLICT"
         /\ conflicts' = [conflicts EXCEPT ![d] = Without(conflicts[d], res.opId) \cup {filed}]
         /\ store' = [store EXCEPT ![d] = [store[d] EXCEPT ![key] = merged]]
         /\ UNCHANGED <<pending, failed>>
      \/ /\ failed' = [failed EXCEPT ![d] = failed[d] \cup ({res.opId} \cap Queued(d))]
         /\ UNCHANGED <<store, pending, conflicts>>
  BY DEF HandleResult
<1>4. res \in HonestResult /\ Tail(cycle[d].results) \in Seq(HonestResult')
  BY <1>2, CycleParts, HeadTailProperties
<1>5. /\ res.opId \in OpId /\ res.rec \in Record /\ res.server \in Data /\ Issued(res.opId)
      /\ res.outcome = "CONFLICT" => WasRow(res.rec, res.server)
  BY <1>4 DEF HonestResult, Result
<1>6. key \in Record /\ key = IF res.opId \in opEntity[d] THEN res.rec ELSE WorkOrderKey(res.rec)
  BY <1>5, DeviceAssumption DEF FiledUnder
<1> HIDE DEF res, key
<1>7. local \in LocalRecord /\ local.data \in Data /\ local.version \in Nat
  BY <1>1, <1>6 DEF DeviceInv, LocalRecord
<1>8. merged \in LocalRecord
  <2>1. ServerMerged(key.entity, res.server, local.data) \in Data
    BY <1>5, <1>7, ServerMergedType
  <2> QED BY <1>7, <2>1, LocalIsRecord
<1>9. filed \in Conflict /\ filed.opId = res.opId /\ filed.rec = key /\ filed.server = res.server
  BY <1>5, <1>6, <1>7 DEF Conflict
<1>10. c \in Cycle' /\ c.step = cycle[d].step /\ c.asked = cycle[d].asked
  BY <1>4, CycleParts DEF Cycle
<1>11. c.step = "results" /\ c.asked = "none"
  BY <1>2, <1>10, CycleParts DEF Step, GoodCycle
<1> HIDE DEF c, filed, merged, local
<1>12. CycleNext(c)
  BY <1>10, <1>11 DEF CycleNext
<1>13. ASSUME res.outcome = "CONFLICT"
       PROVE  Genuine(d, filed)
  <2>1. PICK x \in log : x.rec = res.rec /\ Sanitize(x.data) = res.server
    BY <1>5, <1>13 DEF WasRow
  <2>2. x.rec = filed.rec \/ (filed.opId \notin opEntity[d] /\ filed.rec = WorkOrderKey(x.rec))
    BY <1>6, <1>9, <2>1
  <2> QED BY <1>9, <2>1, <2>2 DEF Genuine
<1>14. ASSUME res.outcome = "CONFLICT",
              NEW x \in Without(conflicts[d], res.opId) \cup {filed}
       PROVE  x \in Conflict /\ Issued(x.opId)' /\ Genuine(d, x)'
  <2>1. x \in conflicts[d] \/ x = filed
    BY <1>14 DEF Without
  <2>2. x \in Conflict /\ Issued(x.opId) /\ Genuine(d, x)
    BY <1>1, <1>5, <1>9, <1>13, <1>14, <2>1 DEF DeviceInv, ConflictInv
  <2> QED BY <1>2, <2>2, GenuineFrame DEF Later
<1>15. /\ UNCHANGED cycle \/ \E v : cycle' = [cycle EXCEPT ![d] = v] /\ CycleNext(v)
       /\ UNCHANGED cursor \/ \E p \in 0..lastSeq' : cursor' = [cursor EXCEPT ![d] = p]
  BY <1>2, <1>12
<1>16. CASE /\ pending' = [pending EXCEPT ![d] = Without(pending[d], res.opId)]
            /\ UNCHANGED <<store, conflicts, failed>>
  <2>1. Without(pending[d], res.opId) \in SUBSET pending[d]
    BY DEF Without
  <2> QED BY <1>2, <1>15, <1>16, <2>1, DeviceMoves
<1>17. CASE /\ res.outcome = "CONFLICT"
            /\ conflicts' = [conflicts EXCEPT ![d] = Without(conflicts[d], res.opId) \cup {filed}]
            /\ store' = [store EXCEPT ![d] = [store[d] EXCEPT ![key] = merged]]
            /\ UNCHANGED <<pending, failed>>
  <2>1. [store[d] EXCEPT ![key] = merged] \in [Record -> LocalRecord]
    BY <1>1, <1>6, <1>8 DEF DeviceInv
  <2>2. \E k : /\ conflicts' = [conflicts EXCEPT ![d] = k]
               /\ \A x \in k : x \in Conflict /\ Issued(x.opId)' /\ Genuine(d, x)'
    BY <1>14, <1>17
  <2> QED BY <1>2, <1>15, <1>17, <2>1, <2>2, DeviceMoves
<1>18. CASE /\ failed' = [failed EXCEPT ![d] = failed[d] \cup ({res.opId} \cap Queued(d))]
            /\ UNCHANGED <<store, pending, conflicts>>
  <2>1. failed[d] \cup ({res.opId} \cap Queued(d)) \in SUBSET OpId
    BY <1>1, <1>5 DEF DeviceInv
  <2> QED BY <1>2, <1>15, <1>18, <2>1, DeviceMoves
<1> QED BY <1>3, <1>16, <1>17, <1>18

-----------------------------------------------------------------------------
(* The user's decisions, and the app killed.                                 *)

\* The other conflicts stay genuine.
LEMMA TakeServerInv ==
  ASSUME SyncInv, Later, NEW d \in Device, TakeServer(d)
  PROVE  StepOf(d) /\ DeviceInv(d)'
<1>1. DeviceInv(d)
  BY DEF SyncInv
<1>2. PICK c \in conflicts[d] :
        /\ store' = [store EXCEPT ![d] = [store[d] EXCEPT ![c.rec] = Local(0, FALSE, c.server)]]
        /\ conflicts' = [conflicts EXCEPT ![d] = conflicts[d] \ {c}]
        /\ pending' = [pending EXCEPT ![d] = Without(pending[d], c.opId)]
  BY DEF TakeServer
<1>3. UNCHANGED <<cursor, draft, opEntity, cycle, failed, made>>
  BY DEF TakeServer
<1>4. \A x \in conflicts[d] : x \in Conflict /\ Issued(x.opId) /\ Genuine(d, x)
  BY <1>1 DEF DeviceInv, ConflictInv
<1>5. c.rec \in Record /\ c.server \in Data
  BY <1>4 DEF Conflict
<1>6. [store[d] EXCEPT ![c.rec] = Local(0, FALSE, c.server)] \in [Record -> LocalRecord]
  <2>1. Local(0, FALSE, c.server) \in LocalRecord
    BY <1>5, LocalIsRecord
  <2> QED BY <1>1, <2>1 DEF DeviceInv
<1>7. \A x \in conflicts[d] \ {c} : x \in Conflict /\ Issued(x.opId)' /\ Genuine(d, x)'
  BY <1>3, <1>4, GenuineFrame DEF Later
<1>8. Without(pending[d], c.opId) \in SUBSET pending[d]
  BY DEF Without
<1>9. \E k : /\ conflicts' = [conflicts EXCEPT ![d] = k]
             /\ \A x \in k : x \in Conflict /\ Issued(x.opId)' /\ Genuine(d, x)'
  BY <1>2, <1>7
<1> QED BY <1>2, <1>3, <1>6, <1>8, <1>9, DeviceMoves

\* The forced opId is one no queue() call draws, and the process never remembers it:
\* the conflict filed under it stays genuine.
LEMMA TakeLocalInv ==
  ASSUME SyncInv, Later, NEW d \in Device, TakeLocal(d)
  PROVE  StepOf(d) /\ DeviceInv(d)'
<1> DEFINE forced(c) == <<d, c.opId[2] + MaxEdits>>
           op(c) == [opId |-> forced(c), rec |-> c.rec, kind |-> "UPSERT", data |-> c.client,
                     at |-> made[d] + 1]
           again(c) == [c EXCEPT !.opId = forced(c)]
           kept(c) == Without(Without(conflicts[d], c.opId), forced(c)) \cup {again(c)}
           rest(c) == Without(pending[d], c.opId)
<1>1. DeviceInv(d) /\ Shape
  BY DEF SyncInv
<1>2. PICK c \in conflicts[d] :
        /\ c.opId[2] <= MaxEdits
        /\ conflicts' = [conflicts EXCEPT ![d] = kept(c)]
        /\ pending' = [pending EXCEPT ![d] = AddPending(d, rest(c), op(c))]
        /\ failed' = IF d \in Desktop THEN [failed EXCEPT ![d] = failed[d] \ {forced(c)}] ELSE failed
  BY DEF TakeLocal
<1>3. UNCHANGED <<store, cursor, draft, opEntity, cycle, made>>
  BY DEF TakeLocal
<1>4. \A x \in conflicts[d] : x \in Conflict /\ Issued(x.opId) /\ Genuine(d, x)
  BY <1>1 DEF DeviceInv, ConflictInv
<1>5. c.opId \in OpId /\ c.rec \in Record /\ c.client \in Data /\ c.server \in Data
  BY <1>4 DEF Conflict
<1>6. MaxEdits \in Nat /\ c.opId[2] \in Nat /\ 1 <= c.opId[2] /\ made[d] + 1 \in Nat
  BY <1>1, <1>5, DeviceAssumption DEF DeviceInv
<1>7. c.opId[2] + MaxEdits \in 1..2 * MaxEdits /\ ~(c.opId[2] + MaxEdits <= MaxEdits)
  BY <1>2, <1>6
<1>8. forced(c) \in OpId /\ forced(c)[2] = c.opId[2] + MaxEdits
  BY <1>7, DeviceAssumption
<1> HIDE DEF forced
<1>9. Issued(forced(c))' /\ forced(c) \notin opEntity[d]
  BY <1>1, <1>7, <1>8 DEF Issued, DeviceInv
<1>10. again(c) \in Conflict /\ again(c).opId = forced(c) /\ again(c).rec = c.rec /\ again(c).server = c.server
  BY <1>4, <1>8 DEF Conflict
<1>11. op(c) \in Op /\ op(c).opId = forced(c)
  BY <1>5, <1>6, <1>8 DEF Op, OpKind
<1> HIDE DEF again, op
<1>12. Genuine(d, again(c))
  <2>1. PICK x \in log : /\ Sanitize(x.data) = c.server
                         /\ x.rec = c.rec \/ c.rec = WorkOrderKey(x.rec)
    BY <1>4 DEF Genuine
  <2> QED BY <1>9, <1>10, <2>1 DEF Genuine
<1>13. ASSUME NEW x \in kept(c)
       PROVE  x \in Conflict /\ Issued(x.opId)' /\ Genuine(d, x)'
  <2>1. x \in conflicts[d] \/ x = again(c)
    BY DEF Without
  <2>2. x \in Conflict /\ Issued(x.opId)' /\ Genuine(d, x)
    BY <1>4, <1>9, <1>10, <1>12, <2>1 DEF Later
  <2> QED BY <1>3, <2>2, GenuineFrame
<1>14. op(c) \in IssuedOp'
  BY <1>9, <1>11 DEF IssuedOp
<1>15. QueueInv(d)' /\ OnDevices(pending)' /\ \A e \in Device \ {d} : pending'[e] = pending[e]
  <2>1. /\ pending'[d] = AddPending(d, rest(c), op(c))
        /\ OnDevices(pending)' /\ \A e \in Device \ {d} : pending'[e] = pending[e]
    BY <1>1, <1>2 DEF Shape, OnDevices
  <2>2. rest(c) \subseteq pending[d]
    BY DEF Without
  <2>3. IsFiniteSet(rest(c)) /\ \A x, y \in rest(c) : x.opId = y.opId => x = y
    BY <1>1, <2>2, FS_Subset DEF DeviceInv, QueueInv
  <2>4. pending[d] \subseteq IssuedOp'
    BY <1>1, LaterTypes DEF DeviceInv, QueueInv
  <2> HIDE DEF rest
  <2>5. /\ AddPending(d, rest(c), op(c)) \subseteq rest(c) \cup {op(c)}
        /\ IsFiniteSet(AddPending(d, rest(c), op(c)))
        /\ \A x, y \in AddPending(d, rest(c), op(c)) : x.opId = y.opId => x = y
    BY <2>3, AddPendingKeyed
  <2> QED BY <1>14, <2>1, <2>2, <2>4, <2>5 DEF QueueInv
<1>16. ConflictInv(d)' /\ OnDevices(conflicts)' /\ \A e \in Device \ {d} : conflicts'[e] = conflicts[e]
  <2>1. /\ conflicts'[d] = kept(c)
        /\ OnDevices(conflicts)' /\ \A e \in Device \ {d} : conflicts'[e] = conflicts[e]
    BY <1>1, <1>2 DEF Shape, OnDevices
  <2> HIDE DEF kept
  <2> QED BY <1>13, <2>1 DEF ConflictInv
<1>17. /\ failed'[d] \in SUBSET OpId /\ OnDevices(failed)'
       /\ \A e \in Device \ {d} : failed'[e] = failed[e]
  BY <1>1, <1>2 DEF Shape, OnDevices, DeviceInv
<1>18. DraftInv(d)' /\ CycleInv(d)' /\ cursor'[d] \in 0..lastSeq'
  BY <1>1, <1>3, DraftFrame, CycleFrame, CursorFrame DEF DeviceInv
<1>19. Shape'
  BY <1>1, <1>3, <1>15, <1>16, <1>17 DEF Shape, OnDevices
<1>20. StepOf(d)
  BY <1>3, <1>15, <1>16, <1>17, <1>19 DEF StepOf, Still
<1> QED BY <1>1, <1>3, <1>15, <1>16, <1>17, <1>18, <1>20 DEF DeviceInv

\* The process forgets its entities, so no conflict becomes less genuine.
LEMMA DeviceRestartInv ==
  ASSUME SyncInv, Later, NEW d \in Device, DeviceRestart(d)
  PROVE  StepOf(d) /\ DeviceInv(d)'
<1>1. DeviceInv(d) /\ Shape
  BY DEF SyncInv
<1>2. /\ cycle' = [cycle EXCEPT ![d] = Resting] /\ draft' = [draft EXCEPT ![d] = NoDraft]
      /\ opEntity' = [opEntity EXCEPT ![d] = {}]
      /\ UNCHANGED <<store, pending, conflicts, cursor, failed, made>>
  BY DEF DeviceRestart
<1>3. /\ OnDevices(cycle)' /\ cycle'[d] = Resting
      /\ \A e \in Device \ {d} : cycle'[e] = cycle[e]
  BY <1>1, <1>2 DEF Shape, OnDevices
<1>4. /\ OnDevices(draft)' /\ draft'[d] = NoDraft
      /\ \A e \in Device \ {d} : draft'[e] = draft[e]
  BY <1>1, <1>2 DEF Shape, OnDevices
<1>5. /\ OnDevices(opEntity)' /\ opEntity'[d] = {}
      /\ \A e \in Device \ {d} : opEntity'[e] = opEntity[e]
  BY <1>1, <1>2 DEF Shape, OnDevices
<1>6. CycleInv(d)'
  BY <1>3, RestingType DEF CycleInv
<1>7. DraftInv(d)'
  BY <1>4 DEF DraftInv
<1>8. QueueInv(d)' /\ ConflictInv(d)' /\ cursor'[d] \in 0..lastSeq'
  BY <1>1, <1>2, <1>5, QueueFrame, ConflictFrame, CursorFrame DEF DeviceInv
<1>9. Shape'
  BY <1>1, <1>2, <1>3, <1>4, <1>5 DEF Shape, OnDevices
<1>10. StepOf(d)
  BY <1>2, <1>3, <1>4, <1>5, <1>9 DEF StepOf, Still
<1> QED BY <1>1, <1>2, <1>5, <1>6, <1>7, <1>8, <1>10 DEF DeviceInv

-----------------------------------------------------------------------------
(* The steps of the server, as the devices see them.                         *)

\* A step that moves nothing of the devices but their cycles.
LEMMA CyclesMove ==
  ASSUME SyncInv, Later,
         UNCHANGED <<store, pending, conflicts, cursor, draft, opEntity, failed, made>>,
         OnDevices(cycle)', \A d \in Device : cycle'[d] = cycle[d] \/ CycleNext(cycle'[d])
  PROVE  Shape' /\ \A d \in Device : DeviceInv(d)'
<1>1. Shape /\ \A d \in Device : DeviceInv(d)
  BY DEF SyncInv
<1>2. Shape'
  BY <1>1 DEF Shape, OnDevices
<1>3. ASSUME NEW d \in Device
      PROVE  DeviceInv(d)'
  <2>1. DeviceInv(d)
    BY <1>1
  <2>2. CycleInv(d)'
    <3>1. CASE cycle'[d] = cycle[d]
      BY <2>1, <3>1, CycleFrame DEF DeviceInv
    <3>2. CASE CycleNext(cycle'[d])
      BY <3>2 DEF CycleNext, CycleInv
    <3> QED BY <3>1, <3>2
  <2>3. QueueInv(d)' /\ ConflictInv(d)' /\ DraftInv(d)' /\ cursor'[d] \in 0..lastSeq'
    BY <2>1, QueueFrame, ConflictFrame, DraftFrame, CursorFrame DEF DeviceInv
  <2> QED BY <2>1, <2>2, <2>3 DEF DeviceInv
<1> QED BY <1>2, <1>3

\* The results a device takes over are honest.
LEMMA RespondInv ==
  ASSUME SyncInv, Later, NEW h \in Handler, Respond(h)
  PROVE  Shape' /\ \A d \in Device : DeviceInv(d)'
<1> DEFINE reached(d) == IF lastSeq > cycle[d].reached THEN lastSeq ELSE cycle[d].reached
           c(d) == [cycle[d] EXCEPT !.step = "results", !.asked = "none",
                      !.results = answers[h], !.reached = reached(d)]
<1>1. /\ cycle' = [d \in Device |-> IF cycle[d].asked # h THEN cycle[d] ELSE c(d)]
      /\ UNCHANGED <<store, pending, conflicts, cursor, draft, opEntity, failed, made>>
      /\ lastSeq' = lastSeq
  BY DEF Respond, FinishPush, feedVars
<1>2. answers[h] \in Seq(HonestResult')
  BY LaterTypes DEF SyncInv, ServerInv
<1>3. ASSUME NEW d \in Device
      PROVE  CycleNext(c(d))
  <2>1. reached(d) \in 0..lastSeq'
    <3>1. cycle[d].reached \in 0..lastSeq'
      BY CycleParts
    <3>2. lastSeq \in 0..lastSeq'
      <4>1. lastSeq \in Nat /\ lastSeq' \in Nat /\ lastSeq <= lastSeq'
        BY DEF Later
      <4> QED BY <4>1
    <3> QED BY <3>1, <3>2
  <2>2. c(d) \in Cycle' /\ c(d).step = "results" /\ c(d).asked = "none"
    <3> HIDE DEF reached
    <3> QED BY <1>2, <2>1, CycleParts DEF Cycle
  <2> HIDE DEF c
  <2> QED BY <2>2 DEF CycleNext
<1> HIDE DEF c
<1>4. OnDevices(cycle)' /\ \A d \in Device : cycle'[d] = cycle[d] \/ CycleNext(cycle'[d])
  BY <1>1, <1>3 DEF OnDevices
<1> QED BY <1>1, <1>4, CyclesMove

\* Devices that wait end their cycles.
LEMMA ServerRestartInv ==
  ASSUME SyncInv, Later, ServerRestart
  PROVE  Shape' /\ \A d \in Device : DeviceInv(d)'
<1>1. /\ cycle' = [d \in Device |-> IF Step(d, "wait") THEN Resting ELSE cycle[d]]
      /\ UNCHANGED <<store, pending, conflicts, cursor, draft, opEntity, failed, made>>
  BY DEF ServerRestart
<1>2. CycleNext(Resting)
  BY RestingType DEF CycleNext
<1>3. OnDevices(cycle)' /\ \A d \in Device : cycle'[d] = cycle[d] \/ CycleNext(cycle'[d])
  BY <1>1, <1>2 DEF OnDevices
<1> QED BY <1>1, <1>3, CyclesMove

-----------------------------------------------------------------------------
(* The invariant, and what it says of behaviours.                            *)

\* The invariant holds at the start.
LEMMA SyncInvInit == Init => SyncInv
<1> SUFFICES ASSUME Init PROVE SyncInv
  OBVIOUS
<1>1. ServerTypeOK /\ AckInv /\ FeedInv
  BY TypeInit, AckInit, FeedInit DEF Init
<1>2. FeedNumbers
  BY FS_EmptySet DEF Init, ServerInit, FeedNumbers, NoTxn
<1>3. \A h \in Handler : todo[h] \in Seq(IssuedOp) /\ answers[h] \in Seq(HonestResult)
  BY EmptySeq DEF Init, ServerInit
<1>4. Shape
  BY DEF Init, Shape, OnDevices
<1>5. ASSUME NEW d \in Device
      PROVE  DeviceInv(d)
  <2>1. lastSeq = 0 /\ MaxEdits \in Nat
    BY DeviceAssumption DEF Init, ServerInit
  <2>2. store[d] \in [Record -> LocalRecord]
    BY AbsentIsRecord DEF Init
  <2>3. QueueInv(d) /\ ConflictInv(d) /\ DraftInv(d)
    BY FS_EmptySet DEF Init, QueueInv, ConflictInv, DraftInv
  <2>4. CycleInv(d)
    <3>1. <<>> \in Seq(IssuedOp) /\ <<>> \in Seq(HonestResult) /\ <<>> \in Seq(Entry)
      BY EmptySeq
    <3>2. Resting \in Cycle /\ Resting.step = "idle" /\ Resting.asked = "none"
      BY <2>1, <3>1, AbsentIsRecord DEF Resting, Cycle
    <3> QED BY <3>2 DEF Init, CycleInv
  <2> QED BY <2>1, <2>2, <2>3, <2>4 DEF Init, DeviceInv
<1> QED BY <1>1, <1>2, <1>3, <1>4, <1>5 DEF SyncInv, ServerInv

\* Every step of the system keeps the invariant.
LEMMA SyncInvStep ==
  ASSUME SyncInv, [Next]_vars
  PROVE  SyncInv'
<1>1. Later
  BY NextIsLater
<1>2. ASSUME NEW d \in Device, StepOf(d), DeviceInv(d)'
      PROVE  Shape' /\ \A e \in Device : DeviceInv(e)'
  BY <1>1, <1>2, StillInv DEF StepOf, SyncInv
<1>3. ASSUME NEW d \in Device, Edit(d)
      PROVE  StepOf(d) /\ DeviceInv(d)'
  BY <1>1, <1>3, QueueReadInv, QueueWriteInv, QueueAddInv DEF Edit
<1>4. ASSUME NEW d \in Device, Sync(d)
      PROVE  StepOf(d) /\ DeviceInv(d)'
  BY <1>1, <1>4, BeginSyncInv, HandleResultInv, EndBatchInv, PullPageInv, ReadLocalInv,
     WriteLocalInv, EndPageInv, WipeInv, SendBatchInv DEF Sync
<1>5. ASSUME NEW d \in Device, TakeServer(d) \/ TakeLocal(d) \/ LoseRequest(d) \/ DeviceRestart(d)
      PROVE  StepOf(d) /\ DeviceInv(d)'
  BY <1>1, <1>5, TakeServerInv, TakeLocalInv, LoseRequestInv, DeviceRestartInv
<1>6. ASSUME UNCHANGED <<deviceVars>>
      PROVE  Shape' /\ \A d \in Device : DeviceInv(d)'
  <2>1. UNCHANGED <<store, pending, conflicts, cursor, draft, opEntity, cycle, failed, made>>
    BY <1>6 DEF deviceVars
  <2>2. OnDevices(cycle)'
    BY <2>1 DEF SyncInv, Shape, OnDevices
  <2> QED BY <1>1, <2>1, <2>2, CyclesMove
<1>7. ASSUME (\E h \in Handler : Handle(h)) \/ Office \/ UNCHANGED vars
      PROVE  UNCHANGED <<deviceVars>>
  BY <1>7 DEF Handle, Office, vars
<1>8. Shape' /\ \A d \in Device : DeviceInv(d)'
  BY <1>1, <1>2, <1>3, <1>4, <1>5, <1>6, <1>7, RespondInv, ServerRestartInv DEF Next
<1>9. ServerInv'
  BY ServerInvStep
<1> QED BY <1>8, <1>9 DEF SyncInv

\* The invariant holds throughout.
THEOREM SyncInvariant == Spec => []SyncInv
BY SyncInvInit, SyncInvStep, PTL DEF Spec

\* A queue with one entry of an opId has as many opIds as entries.
LEMMA KeyedQueue ==
  ASSUME NEW d \in Device, QueueInv(d)
  PROVE  Cardinality(Queued(d)) = Cardinality(pending[d])
<1> DEFINE opIdOf == [op \in pending[d] |-> op.opId]
<1>1. opIdOf \in Bijection(pending[d], Queued(d))
  BY DEF Queued, QueueInv, Bijection, Injection, Surjection, IsInjective
<1>2. ExistsBijection(pending[d], Queued(d))
  BY <1>1 DEF ExistsBijection
<1> QED BY <1>2, FS_Bijection DEF QueueInv

\* Type correctness of devices and server together.
THEOREM SyncTypeCorrect == Spec => []TypeOK
<1>1. ASSUME SyncInv
      PROVE  TypeOK
  <2>1. ServerTypeOK
    BY <1>1 DEF SyncInv, ServerInv
  <2>2. store \in [Device -> [Record -> LocalRecord]]
    BY <1>1 DEF SyncInv, Shape, OnDevices, DeviceInv
  <2>3. ASSUME NEW d \in Device
        PROVE  /\ pending[d] \subseteq Op
               /\ Cardinality(Queued(d)) = Cardinality(pending[d])
               /\ \A c \in conflicts[d] : c.opId \in OpId /\ c.rec \in Record
               /\ failed[d] \cup opEntity[d] \subseteq OpId
               /\ draft[d].stage \in {"none", "write", "add"}
               /\ cycle[d].step \in {"idle", "send", "wait", "results", "pull", "apply", "merge", "wipe"}
               /\ cycle[d].asked = "none" <=> ~Step(d, "wait")
               /\ {cursor[d], cycle[d].reached} \subseteq 0..lastSeq
    <3>1. DeviceInv(d)
      BY <1>1 DEF SyncInv
    <3>2. Cardinality(Queued(d)) = Cardinality(pending[d])
      BY <3>1, KeyedQueue DEF DeviceInv
    <3>3. /\ pending[d] \subseteq Op
          /\ \A c \in conflicts[d] : c.opId \in OpId /\ c.rec \in Record
          /\ failed[d] \cup opEntity[d] \subseteq OpId
      BY <3>1, IssuedOpIsOp DEF DeviceInv, QueueInv, ConflictInv, Conflict
    <3>4. draft[d].stage \in {"none", "write", "add"}
      BY <3>1 DEF DeviceInv, DraftInv, Draft, NoDraft
    <3>5. /\ cycle[d].step \in {"idle", "send", "wait", "results", "pull", "apply", "merge", "wipe"}
          /\ {cursor[d], cycle[d].reached} \subseteq 0..lastSeq
      BY <3>1 DEF DeviceInv, CycleInv, Cycle
    <3>6. cycle[d].asked = "none" <=> ~Step(d, "wait")
      BY <3>1 DEF DeviceInv, CycleInv, Step
    <3> QED BY <3>2, <3>3, <3>4, <3>5, <3>6
  <2> QED BY <2>1, <2>2, <2>3 DEF TypeOK
<1> QED BY <1>1, SyncInvariant, PTL

\* What the user is asked to decide is genuine: the server's version a conflict
\* offers was the row of its record, whatever was lost, restarted or answered late.
THEOREM ConflictsAreGenuine == Spec => []ConflictIsGenuine
<1>1. SyncInv => ConflictIsGenuine
  BY DEF SyncInv, DeviceInv, ConflictInv, Genuine, ConflictIsGenuine
<1> QED BY <1>1, SyncInvariant, PTL

\* The server's own promises, here with the devices as its only pushers: nothing
\* acknowledged is lost and the feed replays to the database.
THEOREM DevicesSeeAnHonestServer == Spec => [](AckedOpTookEffect /\ FeedReplaysRows)
<1>1. SyncInv => AckedOpTookEffect /\ FeedReplaysRows
  BY DEF SyncInv, ServerInv, AckInv, FeedInv
<1> QED BY <1>1, SyncInvariant, PTL

\* How an operation may leave the queue.
LeavesRightly ==
  \A d \in Device : \A o \in Queued(d) \ Queued(d)' :
    \/ effect[o] # "none"
    \/ \E c \in conflicts[d] \ conflicts'[d] : c.opId = o

\* Where the queue of no device loses an entry, nothing leaves it.
LEMMA QueuesGrow ==
  ASSUME \A d \in Device : pending[d] \subseteq pending'[d]
  PROVE  LeavesRightly
BY DEF LeavesRightly, Queued

\* A result takes an operation out only if it is a success, and successes are honest.
LEMMA ResultLeaves ==
  ASSUME SyncInv, NEW d \in Device, HandleResult(d)
  PROVE  LeavesRightly
<1> DEFINE res == Head(cycle[d].results)
<1>1. Shape /\ CycleInv(d)
  BY DEF SyncInv, DeviceInv
<1>2. res \in HonestResult
  BY <1>1, HeadTailProperties DEF HandleResult, CycleInv, Cycle
<1>3. \/ okOutcome(res.outcome) /\ pending' = [pending EXCEPT ![d] = Without(pending[d], res.opId)]
      \/ UNCHANGED pending
  BY DEF HandleResult
<1> HIDE DEF res
<1>4. CASE UNCHANGED pending
  BY <1>4, QueuesGrow
<1>5. CASE /\ okOutcome(res.outcome)
           /\ pending' = [pending EXCEPT ![d] = Without(pending[d], res.opId)]
  <2>1. \A e \in Device : pending'[e] = IF e = d THEN Without(pending[d], res.opId) ELSE pending[e]
    BY <1>1, <1>5 DEF Shape, OnDevices
  <2>2. \A e \in Device : \A o \in Queued(e) \ Queued(e)' : o = res.opId
    BY <2>1 DEF Queued, Without
  <2>3. effect[res.opId] # "none"
    BY <1>2, <1>5 DEF HonestResult, okOutcome
  <2> QED BY <2>2, <2>3 DEF LeavesRightly
<1> QED BY <1>3, <1>4, <1>5

\* A decision takes out the operation of the conflict it closes.
LEMMA DecisionLeaves ==
  ASSUME SyncInv, NEW d \in Device, TakeServer(d) \/ TakeLocal(d)
  PROVE  LeavesRightly
<1>1. Shape
  BY DEF SyncInv
<1>2. CASE TakeServer(d)
  <2>1. PICK c \in conflicts[d] :
          /\ conflicts' = [conflicts EXCEPT ![d] = conflicts[d] \ {c}]
          /\ pending' = [pending EXCEPT ![d] = Without(pending[d], c.opId)]
    BY <1>2 DEF TakeServer
  <2>2. \A e \in Device : pending'[e] = IF e = d THEN Without(pending[d], c.opId) ELSE pending[e]
    BY <1>1, <2>1 DEF Shape, OnDevices
  <2>3. conflicts'[d] = conflicts[d] \ {c}
    BY <1>1, <2>1 DEF Shape, OnDevices
  <2>4. \A e \in Device : \A o \in Queued(e) \ Queued(e)' : e = d /\ o = c.opId
    BY <2>2 DEF Queued, Without
  <2> QED BY <2>3, <2>4 DEF LeavesRightly
<1>3. CASE TakeLocal(d)
  <2> DEFINE forced(c) == <<d, c.opId[2] + MaxEdits>>
             op(c) == [opId |-> forced(c), rec |-> c.rec, kind |-> "UPSERT", data |-> c.client,
                       at |-> made[d] + 1]
             again(c) == [c EXCEPT !.opId = forced(c)]
             kept(c) == Without(Without(conflicts[d], c.opId), forced(c)) \cup {again(c)}
             rest(c) == Without(pending[d], c.opId)
  <2>1. PICK c \in conflicts[d] :
          /\ conflicts' = [conflicts EXCEPT ![d] = kept(c)]
          /\ pending' = [pending EXCEPT ![d] = AddPending(d, rest(c), op(c))]
    BY <1>3 DEF TakeLocal
  <2>2. c \in Conflict /\ c.opId[2] \in Nat /\ 1 <= c.opId[2] /\ MaxEdits \in Nat /\ Issued(c.opId)
    BY DeviceAssumption DEF SyncInv, DeviceInv, ConflictInv, Conflict
  <2>3. forced(c)[2] # c.opId[2] \/ MaxEdits = 0
    BY <2>2
  <2>4. MaxEdits # 0
    BY <2>2, DeviceAssumption DEF Conflict
  <2>5. again(c).opId = forced(c)
    BY <2>2 DEF Conflict
  <2> HIDE DEF again
  <2>6. c \notin kept(c)
    BY <2>3, <2>4, <2>5 DEF Without
  <2>7. \A o : o \in Queued(d) /\ o # c.opId => \E x \in rest(c) : x.opId = o
    BY DEF Queued, Without
  <2> HIDE DEF kept, rest, op
  <2>8. \A e \in Device : pending'[e] = IF e = d THEN AddPending(d, rest(c), op(c)) ELSE pending[e]
    BY <1>1, <2>1 DEF Shape, OnDevices
  <2>9. \A x \in rest(c) : \E y \in AddPending(d, rest(c), op(c)) : y.opId = x.opId
    BY DEF AddPending
  <2>10. \A e \in Device : \A o \in Queued(e) \ Queued(e)' : e = d /\ o = c.opId
    <3>1. \A e \in Device : Queued(e)' = {x.opId : x \in pending'[e]}
      BY DEF Queued
    <3>2. \A e \in Device : e # d => Queued(e)' = Queued(e)
      BY <2>8, <3>1 DEF Queued
    <3>3. \A o \in Queued(d) : o # c.opId => o \in Queued(d)'
      BY <2>7, <2>8, <2>9, <3>1
    <3> QED BY <3>2, <3>3
  <2>11. c \in conflicts[d] \ conflicts'[d]
    BY <1>1, <2>1, <2>6 DEF Shape, OnDevices
  <2> QED BY <2>10, <2>11 DEF LeavesRightly
<1> QED BY <1>2, <1>3

\* A queued operation never silently disappears: it leaves the queue only when the
\* database has taken it or by the user's decision, whatever requests, answers and
\* processes are lost, and whatever handlers go on after their device gave up.
THEOREM QueueLosesNoWork == Spec => QueuedWorkNotLost
<1>1. ASSUME SyncInv, [Next]_vars
      PROVE  LeavesRightly
  <2>1. ASSUME NEW d \in Device, QueueAdd(d)
        PROVE  LeavesRightly
    <3>1. \A e \in Device : pending'[e] = IF e = d THEN AddPending(d, pending[d], draft[d].op) ELSE pending[e]
      BY <1>1, <2>1 DEF QueueAdd, SyncInv, Shape, OnDevices
    <3>2. \A x \in pending[d] : \E y \in AddPending(d, pending[d], draft[d].op) : y.opId = x.opId
      BY DEF AddPending
    <3>3. \A e \in Device : Queued(e) \subseteq Queued(e)'
      BY <3>1, <3>2 DEF Queued
    <3> QED BY <3>3 DEF LeavesRightly
  <2>2. ASSUME UNCHANGED pending
        PROVE  LeavesRightly
    BY <2>2, QueuesGrow
  <2>3. ASSUME NEW d \in Device, Sync(d)
        PROVE  HandleResult(d) \/ UNCHANGED pending
    BY <2>3 DEF Sync, BeginSync, EndBatch, PullPage, ReadLocal, WriteLocal, EndPage, Wipe, SendBatch
  <2>4. ASSUME NEW d \in Device, QueueRead(d) \/ QueueWrite(d) \/ LoseRequest(d) \/ DeviceRestart(d)
        PROVE  UNCHANGED pending
    BY <2>4 DEF QueueRead, QueueWrite, LoseRequest, DeviceRestart
  <2>5. ASSUME (\E h \in Handler : Handle(h) \/ Respond(h)) \/ Office \/ ServerRestart \/ UNCHANGED vars
        PROVE  UNCHANGED pending
    BY <2>5 DEF Handle, Respond, Office, ServerRestart, vars, deviceVars
  <2> QED BY <1>1, <2>1, <2>2, <2>3, <2>4, <2>5, ResultLeaves, DecisionLeaves DEF Next, Edit
<1>2. SyncInv /\ [Next]_vars => [LeavesRightly]_vars
  BY <1>1
<1>3. QueuedWorkNotLost <=> [][LeavesRightly]_vars
  BY PTL DEF QueuedWorkNotLost, LeavesRightly
<1> QED BY <1>2, <1>3, SyncInvariant, PTL DEF Spec
=============================================================================
