------------------------ MODULE DocumentUploadProofs ------------------------
(***************************************************************************)
(* What holds of the uploads for any number of photos, calls, months and   *)
(* faults: whoever waits for a round will be woken, every row of the       *)
(* server names bytes that are on disk, and the queue keeps the promise of *)
(* Outbox.                                                                 *)
(***************************************************************************)
EXTENDS DocumentUpload, TLAPS

Place == {"idle", "waiting", "listing", "next", "sending", "forget"}
Call == [at : Place, limit : {0, AddLimit, NudgeLimit}, round : SUBSET Photo]

\* The device's half of UploadTypeOK: the calls and the guard of flush().
CallsOK ==
    /\ inFlight \in FlushCall \cup {NoCall}
    /\ call \in [FlushCall -> Call]
    /\ inFlight # NoCall => call[inFlight].at \notin {"idle", "waiting"}
    /\ \A s \in FlushCall : call[s].at = "waiting" => inFlight # NoCall

\* The other half: the tables, the requests and the world.
RecordsOK ==
    /\ pending \in [Photo -> {"none", "queued", "sent"}]
    /\ captured \in 0..MaxPhoto
    /\ request \subseteq Request
    /\ file \subseteq Photo \X (0..LastMonth)
    /\ docRow \in [Photo -> Row \cup {NoRow}]
    /\ barred \subseteq Watched /\ spoiled \subseteq Watched
    /\ month \in 0..LastMonth /\ faults \in 0..MaxFaults

LEMMA TypeHalves == UploadTypeOK <=> CallsOK /\ RecordsOK
  BY DEF UploadTypeOK, CallsOK, RecordsOK, Call, Place

-----------------------------------------------------------------------------
(* The calls and the guard                                                 *)

\* A call that begins, ends or goes on to its next record leaves no sleeper behind.
LEMMA BeginKeepsCalls ==
  ASSUME CallsOK, NEW s \in FlushCall, NEW limit \in {AddLimit, NudgeLimit}, Begin(s, limit)
  PROVE  CallsOK'
<1>1. call' \in [FlushCall -> Call]
  BY DEF CallsOK, Begin, Call, Place
<1>2. inFlight' \in FlushCall \cup {NoCall}
  BY DEF CallsOK, Begin
<1>3. CASE inFlight = NoCall
  BY <1>1, <1>2, <1>3, UploadAssumption DEF CallsOK, Begin, Call
<1>4. CASE inFlight # NoCall
  BY <1>1, <1>2, <1>4, UploadAssumption DEF CallsOK, Begin, Call
<1> QED
  BY <1>3, <1>4

LEMMA EndRoundKeepsCalls ==
  ASSUME CallsOK, NEW s \in FlushCall, EndRound(s)
  PROVE  CallsOK'
<1>1. call' \in [FlushCall -> Call]
  <2> SUFFICES ASSUME NEW t \in FlushCall
               PROVE  (IF t = s THEN Idle
                       ELSE IF inFlight = s /\ call[t].at = "waiting"
                            THEN [call[t] EXCEPT !.at = "listing"]
                            ELSE call[t]) \in Call
    BY DEF EndRound
  <2>1. Idle \in Call
    BY DEF Idle, Call, Place
  <2>2. call[t] \in Call /\ [call[t] EXCEPT !.at = "listing"] \in Call
    BY DEF CallsOK, Call, Place
  <2> QED
    BY <2>1, <2>2
<1>2. inFlight' \in FlushCall \cup {NoCall}
  BY DEF CallsOK, EndRound
<1>3. CASE inFlight = s
  BY <1>1, <1>2, <1>3, UploadAssumption DEF CallsOK, EndRound, Call, Idle
<1>4. CASE inFlight # s
  BY <1>1, <1>2, <1>4, UploadAssumption DEF CallsOK, EndRound, Call, Idle
<1> QED
  BY <1>3, <1>4

\* A step inside the round of s leaves the guard alone.
LEMMA RoundKeepsCalls ==
  ASSUME CallsOK, NEW s \in FlushCall, NEW at \in {"next", "sending", "forget"},
         NEW round \in SUBSET Photo, UNCHANGED inFlight,
         call' = [call EXCEPT ![s].at = at, ![s].round = round]
  PROVE  CallsOK'
<1>1. call' \in [FlushCall -> Call]
  BY DEF CallsOK, Call, Place
<1> QED
  BY <1>1, UploadAssumption DEF CallsOK, Call

LEMMA NextRecordKeepsCalls ==
  ASSUME CallsOK, NEW s \in FlushCall, NEW p \in Photo, NextRecord(s, p)
  PROVE  CallsOK'
<1>1. CASE call[s].round = {p}
  BY <1>1, EndRoundKeepsCalls DEF NextRecord
<1>2. CASE call[s].round # {p}
  <2>1. call[s].round \ {p} \in SUBSET Photo
    BY DEF CallsOK, Call
  <2>2. call' = [call EXCEPT ![s].at = "next", ![s].round = call[s].round \ {p}]
    BY <1>2 DEF NextRecord, CallsOK, Call
  <2> QED
    BY <1>2, <2>1, <2>2, RoundKeepsCalls DEF NextRecord
<1> QED
  BY <1>1, <1>2

\* Saving a record, sent or not, is such a step.
LEMMA SaveKeepsCalls ==
  ASSUME CallsOK, NEW s \in FlushCall, NEW p \in Photo, SaveSent(s, p) \/ SaveFailed(s, p)
  PROVE  CallsOK'
<1>1. CASE SaveFailed(s, p)
  BY <1>1, NextRecordKeepsCalls DEF SaveFailed
<1>2. CASE SaveSent(s, p)
  <2>1. call' = [call EXCEPT ![s].at = "forget", ![s].round = call[s].round]
    BY <1>2 DEF SaveSent, CallsOK, Call
  <2>2. call[s].round \in SUBSET Photo
    BY DEF CallsOK, Call
  <2> QED
    BY <1>2, <2>1, <2>2, RoundKeepsCalls DEF SaveSent
<1> QED
  BY <1>1, <1>2

-----------------------------------------------------------------------------
(* Types                                                                   *)

LEMMA InHandInPhoto ==
  ASSUME CallsOK, NEW s \in FlushCall
  PROVE  InHand(s) \in SUBSET Photo
  BY DEF InHand, CallsOK, Call

\* The office at a document, and the world around a photo.
OfficeActs(p) == softDelete(p) \/ \E status \in {"DRAFT", "FILED"} : FileDocument(p, status)
WorldActs(p) == OrderBarred(p) \/ ScopeReturns(p) \/ BytesSpoiled(p)

\* A step of the flush call s.
LEMMA FlushTypes ==
  ASSUME CallsOK, RecordsOK, NEW s \in FlushCall,
         Add(s) \/ Nudge(s) \/ FlushStep(s) \/ ListOffline(s) \/ PostFails(s)
  PROVE  CallsOK' /\ RecordsOK'
<1>1. CASE Add(s)
  <2>1. CallsOK'
    BY <1>1, BeginKeepsCalls DEF Add
  <2>2. captured' \in 0..MaxPhoto /\ captured' \in Photo
    BY <1>1, UploadAssumption DEF Add, RecordsOK, Photo
  <2> QED
    BY <1>1, <2>1, <2>2 DEF Add, RecordsOK, savePending, serverVars, worldVars
<1>2. CASE Nudge(s)
  <2>1. CallsOK'
    BY <1>2, BeginKeepsCalls DEF Nudge
  <2> QED
    BY <1>2, <2>1 DEF Nudge, RecordsOK, serverVars, worldVars
<1>3. CASE List(s)
  <2>1. CallsOK'
    <3>1. Unsent(call[s].limit) \in SUBSET Photo
      BY DEF Unsent, listPending
    <3>2. CASE Unsent(call[s].limit) = {}
      BY <1>3, <3>2, EndRoundKeepsCalls DEF List
    <3>3. CASE Unsent(call[s].limit) # {}
      BY <1>3, <3>1, <3>3, RoundKeepsCalls DEF List
    <3> QED
      BY <3>2, <3>3
  <2> QED
    BY <1>3, <2>1 DEF List, RecordsOK, serverVars, worldVars
<1>4. CASE Post(s)
  <2>1. call' = [call EXCEPT ![s].at = "sending", ![s].round = call[s].round]
    BY <1>4 DEF Post, CallsOK, Call
  <2>2. CallsOK'
    <3>1. call[s].round \in SUBSET Photo
      BY DEF CallsOK, Call
    <3> QED
      BY <1>4, <2>1, <3>1, RoundKeepsCalls DEF Post
  <2>3. PICK p \in InHand(s) :
          request' = request \cup {[photo |-> p, by |-> s, at |-> "arrived", month |-> 0]}
    BY <1>4 DEF Post
  <2>4. [photo |-> p, by |-> s, at |-> "arrived", month |-> 0] \in Request
    BY InHandInPhoto, UploadAssumption DEF Request
  <2> QED
    BY <1>4, <2>2, <2>3, <2>4 DEF Post, RecordsOK, serverVars, worldVars
<1>5. CASE Forget(s)
  <2>1. PICK p \in Photo : forgetPending(p) /\ NextRecord(s, p)
    BY <1>5, InHandInPhoto DEF Forget
  <2>2. CallsOK'
    BY <2>1, NextRecordKeepsCalls
  <2> QED
    BY <1>5, <2>1, <2>2 DEF Forget, forgetPending, RecordsOK, serverVars, worldVars
<1>6. CASE ListOffline(s)
  <2>1. CallsOK'
    BY <1>6, EndRoundKeepsCalls DEF ListOffline
  <2> QED
    BY <1>6, <2>1 DEF ListOffline, RecordsOK, serverVars, worldVars
<1>7. CASE PostFails(s)
  <2>1. PICK p \in Photo : SaveFailed(s, p)
    BY <1>7, InHandInPhoto DEF PostFails
  <2>2. CallsOK'
    BY <2>1, SaveKeepsCalls
  <2>3. faults' \in 0..MaxFaults
    BY <1>7, UploadAssumption DEF PostFails, Fault, RecordsOK
  <2> QED
    BY <1>7, <2>1, <2>2, <2>3 DEF PostFails, SaveFailed, savePending, RecordsOK, serverVars
<1>8. CASE Unfit(s)
  <2>1. PICK p \in Photo : SaveFailed(s, p)
    BY <1>8, InHandInPhoto DEF Unfit
  <2>2. CallsOK'
    BY <2>1, SaveKeepsCalls
  <2> QED
    BY <1>8, <2>1, <2>2 DEF Unfit, SaveFailed, savePending, RecordsOK, serverVars, worldVars
<1> QED
  BY <1>1, <1>2, <1>3, <1>4, <1>5, <1>6, <1>7, <1>8 DEF FlushStep

\* A row that is uploaded again is a row.
LEMMA UpsertedIsRow ==
  ASSUME NEW row \in Row \cup {NoRow}, NEW m \in 0..LastMonth
  PROVE  Upserted(row, m) \in Row /\ Upserted(row, m) # NoRow
         /\ Upserted(row, m).month = IF row = NoRow THEN m ELSE row.month
<1>1. CASE row = NoRow
  BY <1>1 DEF Upserted, Row, NoRow
<1>2. CASE row # NoRow
  BY <1>2 DEF Upserted, Row, NoRow
<1> QED
  BY <1>1, <1>2

\* What Becomes makes of the request r.
Moved(r, at) == [r EXCEPT !.at = at, !.month = IF at = "written" THEN month ELSE 0]

LEMMA MovedFields ==
  ASSUME RecordsOK, NEW r \in Request, NEW at \in {"written", "done", "refused"}
  PROVE  /\ Moved(r, at) \in Request
         /\ Moved(r, at).photo = r.photo /\ Moved(r, at).by = r.by /\ Moved(r, at).at = at
         /\ at = "written" => Moved(r, at).month = month
<1> DEFINE m == IF at = "written" THEN month ELSE 0
<1>1. m \in 0..LastMonth
  BY UploadAssumption DEF RecordsOK
<1>2. Moved(r, at) = [r EXCEPT !.at = at, !.month = m]
  BY DEF Moved
<1> HIDE DEF m
<1>3. /\ Moved(r, at) \in Request
      /\ Moved(r, at).photo = r.photo /\ Moved(r, at).by = r.by /\ Moved(r, at).at = at
      /\ Moved(r, at).month = m
  BY <1>1, <1>2 DEF Request
<1> QED
  BY <1>3 DEF m

\* A request nobody waits for any more.
Detached(r) == [r EXCEPT !.by = NoCall]

LEMMA DetachedFields ==
  ASSUME NEW r \in Request
  PROVE  /\ Detached(r) \in Request
         /\ Detached(r).photo = r.photo /\ Detached(r).at = r.at
         /\ Detached(r).by = NoCall /\ Detached(r).month = r.month
  BY DEF Request, Detached

LEMMA BecomesMoved ==
  ASSUME NEW r, NEW at, Becomes(r, at)
  PROVE  request' = (request \ {r}) \cup {Moved(r, at)}
  BY DEF Becomes, Moved

LEMMA BecomesTypes ==
  ASSUME RecordsOK, NEW r \in request, NEW at \in {"written", "done", "refused"}, Becomes(r, at)
  PROVE  request' \subseteq Request
  BY MovedFields, BecomesMoved DEF RecordsOK

\* A step of the upload r.
LEMMA RequestTypes ==
  ASSUME CallsOK, RecordsOK, NEW r \in request,
         HandlerStep(r) \/ RowFails(r) \/ ConnectionLost(r) \/ ServerDies(r)
  PROVE  CallsOK' /\ RecordsOK'
<1> r \in Request
  BY DEF RecordsOK
<1>0. r.photo \in Photo /\ (r.by # NoCall => r.by \in FlushCall) /\ r.month \in 0..LastMonth
  BY DEF Request
<1>1. CASE WriteBytes(r)
  <2>1. CallsOK'
    BY <1>1 DEF WriteBytes, CallsOK, deviceVars
  <2>2. request' \subseteq Request
    BY <1>1, BecomesTypes DEF WriteBytes
  <2>3. file' \subseteq Photo \X (0..LastMonth)
    BY <1>0, <1>1 DEF WriteBytes, RecordsOK, objectKeyFor
  <2> QED
    BY <1>1, <2>1, <2>2, <2>3 DEF WriteBytes, RecordsOK, deviceVars, worldVars
<1>2. CASE WriteRow(r)
  <2>1. CallsOK'
    BY <1>2 DEF WriteRow, CallsOK, deviceVars
  <2>2. request' \subseteq Request
    BY <1>2, BecomesTypes DEF WriteRow
  <2>3. docRow' \in [Photo -> Row \cup {NoRow}]
    BY <1>0, <1>2, UpsertedIsRow DEF WriteRow, RecordsOK
  <2> QED
    BY <1>2, <2>1, <2>2, <2>3 DEF WriteRow, RecordsOK, deviceVars, worldVars
<1>3. CASE Answer(r)
  <2>1. CASE r.by = NoCall
    BY <1>3, <2>1 DEF Answer, CallsOK, RecordsOK, serverVars, worldVars
  <2>2. CASE r.by # NoCall
    <3>1. SaveSent(r.by, r.photo) \/ SaveFailed(r.by, r.photo)
      BY <1>3, <2>2 DEF Answer
    <3>2. CallsOK'
      BY <1>0, <2>2, <3>1, SaveKeepsCalls
    <3> QED
      BY <1>0, <1>3, <3>1, <3>2
         DEF Answer, SaveSent, SaveFailed, savePending, RecordsOK, serverVars, worldVars
  <2> QED
    BY <2>1, <2>2
<1>4. CASE RowFails(r)
  <2>1. CallsOK'
    BY <1>4 DEF RowFails, CallsOK, deviceVars
  <2>2. request' \subseteq Request
    BY <1>4, BecomesTypes DEF RowFails
  <2>3. faults' \in 0..MaxFaults
    BY <1>4, UploadAssumption DEF RowFails, Fault, RecordsOK
  <2> QED
    BY <1>4, <2>1, <2>2, <2>3 DEF RowFails, RecordsOK, deviceVars, serverVars
<1>5. CASE ConnectionLost(r)
  <2>1. CallsOK'
    BY <1>0, <1>5, SaveKeepsCalls DEF ConnectionLost
  <2>2. [r EXCEPT !.by = NoCall] \in Request
    BY DEF Request
  <2>3. faults' \in 0..MaxFaults
    BY <1>5, UploadAssumption DEF ConnectionLost, Fault, RecordsOK
  <2> QED
    BY <1>0, <1>5, <2>1, <2>2, <2>3
       DEF ConnectionLost, SaveFailed, savePending, RecordsOK, serverVars
<1>6. CASE ServerDies(r)
  <2>1. faults' \in 0..MaxFaults
    BY <1>6, UploadAssumption DEF ServerDies, Fault, RecordsOK
  <2>2. CASE r.by = NoCall
    BY <1>6, <2>1, <2>2 DEF ServerDies, CallsOK, RecordsOK, serverVars
  <2>3. CASE r.by # NoCall
    <3>1. CallsOK'
      BY <1>0, <1>6, <2>3, SaveKeepsCalls DEF ServerDies
    <3> QED
      BY <1>0, <1>6, <2>1, <2>3, <3>1
         DEF ServerDies, SaveFailed, savePending, RecordsOK, serverVars
  <2> QED
    BY <2>2, <2>3
<1> QED
  BY <1>1, <1>2, <1>3, <1>4, <1>5, <1>6 DEF HandlerStep

LEMMA WorldTypes ==
  ASSUME CallsOK, RecordsOK,
         \/ AppCloses
         \/ \E p \in Photo : OfficeActs(p) \/ WorldActs(p)
         \/ MonthTurns
  PROVE  CallsOK' /\ RecordsOK'
<1>1. CASE AppCloses
  <2>1. CallsOK'
    BY <1>1 DEF AppCloses, CallsOK, Call, Place, Idle
  <2>2. \A r \in request : [r EXCEPT !.by = NoCall] \in Request
    BY DEF Request, RecordsOK
  <2>3. faults' \in 0..MaxFaults
    BY <1>1, UploadAssumption DEF AppCloses, Fault, RecordsOK
  <2> QED
    BY <1>1, <2>1, <2>2, <2>3 DEF AppCloses, RecordsOK, serverVars
<1>2. ASSUME NEW p \in Photo, OfficeActs(p)
      PROVE  CallsOK' /\ RecordsOK'
  <2>1. docRow[p] # NoRow
    BY <1>2 DEF OfficeActs, FileDocument, softDelete, NoRow
  <2>2. docRow' \in [Photo -> Row \cup {NoRow}]
    BY <1>2, <2>1 DEF OfficeActs, FileDocument, softDelete, RecordsOK, Row
  <2> QED
    BY <1>2, <2>2 DEF OfficeActs, FileDocument, softDelete, CallsOK, RecordsOK, deviceVars, worldVars
<1>3. ASSUME NEW p \in Photo, WorldActs(p)
      PROVE  CallsOK' /\ RecordsOK'
  <2>1. faults' \in 0..MaxFaults
    BY <1>3, UploadAssumption
       DEF WorldActs, OrderBarred, ScopeReturns, BytesSpoiled, Fault, RecordsOK
  <2> QED
    BY <1>3, <2>1
       DEF WorldActs, OrderBarred, ScopeReturns, BytesSpoiled, CallsOK, RecordsOK, deviceVars, serverVars
<1>4. CASE MonthTurns
  <2>1. month' \in 0..LastMonth
    BY <1>4, UploadAssumption DEF MonthTurns, RecordsOK
  <2> QED
    BY <1>4, <2>1 DEF MonthTurns, CallsOK, RecordsOK, deviceVars, serverVars
<1> QED
  BY <1>1, <1>2, <1>3, <1>4

LEMMA InitTypes == UploadInit => CallsOK /\ RecordsOK
<1> SUFFICES ASSUME UploadInit PROVE CallsOK /\ RecordsOK
  OBVIOUS
<1>1. CallsOK
  BY DEF UploadInit, CallsOK, Call, Place, Idle
<1>2. RecordsOK
  BY UploadAssumption DEF UploadInit, RecordsOK, Photo
<1> QED
  BY <1>1, <1>2

LEMMA NextTypes ==
  ASSUME CallsOK, RecordsOK, [UploadNext]_uploadVars
  PROVE  CallsOK' /\ RecordsOK'
<1>1. CASE UploadNext
  BY <1>1, FlushTypes, RequestTypes, WorldTypes DEF UploadNext, OfficeActs, WorldActs
<1>2. CASE UNCHANGED uploadVars
  BY <1>2 DEF CallsOK, RecordsOK, uploadVars, deviceVars, serverVars, worldVars
<1> QED
  BY <1>1, <1>2

\* Whoever waits for a round will be woken: the guard of flush() names a round that is
\* running, through closes, failures and rounds it does not remember (documents.ts:234-249).
THEOREM WaitersAreWoken == UploadSpec => []UploadTypeOK
<1>1. CallsOK /\ RecordsOK /\ [UploadNext]_uploadVars => (CallsOK /\ RecordsOK)'
  BY NextTypes
<1> QED
  BY <1>1, InitTypes, TypeHalves, PTL DEF UploadSpec

-----------------------------------------------------------------------------
(* The bytes come first                                                    *)

\* Every row names bytes, and an upload that has written its bytes left them on disk.
BytesFirst ==
    /\ RowHasBytes
    /\ \A r \in request : r.at = "written" => <<r.photo, r.month>> \in file

\* A request is in a state after the step in which it was not before only by Becomes.
LEMMA BytesStayFirst ==
  ASSUME RecordsOK, BytesFirst, UploadNext
  PROVE  BytesFirst'
<1>1. ASSUME UNCHANGED <<file, docRow>>,
             \A r \in request' : r.at = "written" =>
                \E q \in request : q.at = "written" /\ q.photo = r.photo /\ q.month = r.month
      PROVE  BytesFirst'
  BY <1>1 DEF BytesFirst, RowHasBytes
<1>2. ASSUME NEW s \in FlushCall,
             \/ Add(s) \/ Nudge(s) \/ List(s) \/ Forget(s) \/ ListOffline(s)
             \/ PostFails(s) \/ Unfit(s)
      PROVE  BytesFirst'
  BY <1>1, <1>2 DEF Add, Nudge, List, Forget, ListOffline, PostFails, Unfit, serverVars
<1>3. ASSUME NEW s \in FlushCall, Post(s)
      PROVE  BytesFirst'
  BY <1>1, <1>3 DEF Post, serverVars
<1>4. ASSUME NEW r \in request, WriteBytes(r)
      PROVE  BytesFirst'
  <2> r \in Request
    BY DEF RecordsOK
  <2>1. CASE MayWrite(r.photo)
    <3>1. /\ file' = file \cup {<<r.photo, month>>}
          /\ request' = (request \ {r}) \cup {Moved(r, "written")}
      BY <1>4, <2>1, BecomesMoved DEF WriteBytes, objectKeyFor
    <3>2. Moved(r, "written").photo = r.photo /\ Moved(r, "written").month = month
      BY MovedFields
    <3>3. UNCHANGED docRow
      BY <1>4 DEF WriteBytes
    <3> QED
      BY <3>1, <3>2, <3>3 DEF BytesFirst, RowHasBytes
  <2>2. CASE ~MayWrite(r.photo)
    <3>1. request' = (request \ {r}) \cup {Moved(r, "refused")} /\ UNCHANGED <<file, docRow>>
      BY <1>4, <2>2, BecomesMoved DEF WriteBytes
    <3>2. Moved(r, "refused").at = "refused"
      BY MovedFields
    <3> QED
      BY <1>1, <3>1, <3>2
  <2> QED
    BY <2>1, <2>2
<1>5. ASSUME NEW r \in request, WriteRow(r)
      PROVE  BytesFirst'
  <2>1. r \in Request
    BY DEF RecordsOK
  <2>2. /\ <<r.photo, r.month>> \in file
        /\ docRow' = [docRow EXCEPT ![r.photo] = Upserted(docRow[r.photo], r.month)]
        /\ request' = (request \ {r}) \cup {Moved(r, "done")}
        /\ UNCHANGED file
    BY <1>5, BecomesMoved DEF WriteRow, BytesFirst
  <2>3. Moved(r, "done").at = "done"
    BY <2>1, MovedFields
  <2>4. r.photo \in Photo /\ r.month \in 0..LastMonth /\ docRow[r.photo] \in Row \cup {NoRow}
    BY <2>1 DEF Request, RecordsOK
  <2>5. Upserted(docRow[r.photo], r.month).month
          = IF docRow[r.photo] = NoRow THEN r.month ELSE docRow[r.photo].month
    BY <2>4, UpsertedIsRow
  <2>6. \A p \in Photo : docRow'[p] = IF p = r.photo THEN Upserted(docRow[p], r.month) ELSE docRow[p]
    BY <2>2, <2>4 DEF RecordsOK
  <2>7. RowHasBytes'
    BY <2>2, <2>5, <2>6 DEF BytesFirst, RowHasBytes
  <2>8. \A q \in request' : q.at = "written" => <<q.photo, q.month>> \in file'
    BY <2>2, <2>3 DEF BytesFirst
  <2> QED
    BY <2>7, <2>8 DEF BytesFirst
<1>6. ASSUME NEW r \in request, Answer(r) \/ ServerDies(r)
      PROVE  BytesFirst'
  BY <1>1, <1>6 DEF Answer, ServerDies, serverVars
<1>7. ASSUME NEW r \in request, RowFails(r)
      PROVE  BytesFirst'
  <2>1. request' = (request \ {r}) \cup {Moved(r, "refused")} /\ UNCHANGED <<file, docRow>>
    BY <1>7, BecomesMoved DEF RowFails, serverVars
  <2>2. Moved(r, "refused").at = "refused"
    BY MovedFields DEF RecordsOK
  <2> QED
    BY <1>1, <2>1, <2>2
<1>8. ASSUME NEW r \in request, ConnectionLost(r)
      PROVE  BytesFirst'
  <2>1. request' = (request \ {r}) \cup {Detached(r)} /\ UNCHANGED <<file, docRow>>
    BY <1>8 DEF ConnectionLost, serverVars, Detached
  <2> QED
    BY <1>1, <2>1, DetachedFields DEF RecordsOK
<1>9. CASE AppCloses
  <2>1. request' = {Detached(r) : r \in request} /\ UNCHANGED <<file, docRow>>
    BY <1>9 DEF AppCloses, serverVars, Detached
  <2> QED
    BY <1>1, <2>1, DetachedFields DEF RecordsOK
<1>10. ASSUME NEW p \in Photo, OfficeActs(p)
       PROVE  BytesFirst'
  <2>1. \A q \in Photo : docRow'[q].month = docRow[q].month /\ (docRow'[q] # NoRow => docRow[q] # NoRow)
    BY <1>10 DEF OfficeActs, FileDocument, softDelete, RecordsOK, Row, NoRow
  <2>2. UNCHANGED <<file, request>>
    BY <1>10 DEF OfficeActs, FileDocument, softDelete
  <2> QED
    BY <2>1, <2>2 DEF BytesFirst, RowHasBytes
<1>11. ASSUME NEW p \in Photo, WorldActs(p)
       PROVE  BytesFirst'
  BY <1>1, <1>11 DEF WorldActs, OrderBarred, ScopeReturns, BytesSpoiled, serverVars
<1>12. CASE MonthTurns
  BY <1>1, <1>12 DEF MonthTurns, serverVars
<1> QED
  BY <1>2, <1>3, <1>4, <1>5, <1>6, <1>7, <1>8, <1>9, <1>10, <1>11, <1>12
     DEF UploadNext, FlushStep, HandlerStep, OfficeActs, WorldActs

\* A document that can be found can be read, and a deleted one reviewed: every row of the
\* server names bytes that are on disk (documents.service.ts:240 and :299-331).
THEOREM EveryRowHasBytes == UploadSpec => []RowHasBytes
<1>1. UploadInit => BytesFirst
  BY DEF UploadInit, BytesFirst, RowHasBytes
<1>2. CallsOK /\ RecordsOK /\ BytesFirst /\ [UploadNext]_uploadVars => BytesFirst'
  <2> SUFFICES ASSUME RecordsOK, BytesFirst, [UploadNext]_uploadVars PROVE BytesFirst'
    OBVIOUS
  <2>1. CASE UNCHANGED uploadVars
    BY <2>1 DEF BytesFirst, RowHasBytes, uploadVars, serverVars
  <2> QED
    BY <2>1, BytesStayFirst
<1>3. CallsOK /\ RecordsOK /\ [UploadNext]_uploadVars => (CallsOK /\ RecordsOK)'
  BY NextTypes
<1>4. BytesFirst => RowHasBytes
  BY DEF BytesFirst
<1> QED
  BY <1>1, <1>2, <1>3, <1>4, InitTypes, PTL DEF UploadSpec

-----------------------------------------------------------------------------
(* One upload a photo and month                                            *)

\* What 'wx' leaves to the transactions: of the uploads of one photo that have written
\* their bytes no two have done it in one month, and none in the month of the row.
OnePerMonth ==
    /\ \A r, q \in request : r.at = "written" /\ q.at = "written"
                               /\ r.photo = q.photo /\ r.month = q.month => r = q
    /\ \A r \in request : r.at = "written" /\ docRow[r.photo] # NoRow
                            => r.month # docRow[r.photo].month

\* No step but that of a written upload gives a row; no step but that, or the office's,
\* makes a filed one a draft.
RowsRest ==
    \A p \in Photo : docRow'[p] # NoRow => docRow[p] # NoRow /\ docRow'[p].month = docRow[p].month
FiledRest == \A p \in Photo : docRow[p].status = "FILED" => docRow'[p].status # "DRAFT"

\* A step that writes no bytes and no row, and of each written upload leaves one at most.
LEMMA OnePerMonthRests ==
  ASSUME RecordsOK, OnePerMonth, RowsRest, request' \subseteq Request,
         \A r \in request' : r.at = "written" =>
            \E q \in request : /\ q.at = "written" /\ q.photo = r.photo /\ q.month = r.month
                               /\ \A t \in request' : t.at = "written" /\ t.photo = q.photo
                                                        /\ t.month = q.month => t = r
  PROVE  OnePerMonth'
<1>1. \A r \in request' : r.photo \in Photo
  BY DEF Request
<1>2. ASSUME NEW r \in request', NEW q \in request', r.at = "written", q.at = "written",
             r.photo = q.photo, r.month = q.month
      PROVE  r = q
  BY <1>2
<1>3. ASSUME NEW r \in request', r.at = "written", docRow'[r.photo] # NoRow
      PROVE  r.month # docRow'[r.photo].month
  BY <1>1, <1>3 DEF OnePerMonth, RowsRest
<1> QED
  BY <1>2, <1>3 DEF OnePerMonth

\* Requests that lose some members and gain one that is not written.
LEMMA UnwrittenJoins ==
  ASSUME RecordsOK, OnePerMonth, RowsRest, request' \subseteq Request,
         \A r \in request' : r.at = "written" => r \in request
  PROVE  OnePerMonth'
<1>1. \A r \in request' : r.at = "written" =>
         /\ r \in request
         /\ \A t \in request' : t.at = "written" /\ t.photo = r.photo
                                  /\ t.month = r.month => t = r
  BY DEF OnePerMonth
<1> QED
  BY <1>1, OnePerMonthRests

\* Rows that stay as they are.
LEMMA RowsRestUnchanged ==
  ASSUME RecordsOK, UNCHANGED docRow
  PROVE  RowsRest /\ FiledRest
  BY DEF RowsRest, FiledRest

\* The bytes of a month are written once.
LEMMA WriteBytesOnce ==
  ASSUME RecordsOK, BytesFirst, OnePerMonth, NEW r \in request, WriteBytes(r)
  PROVE  OnePerMonth' /\ FiledRest
<1> r \in Request
  BY DEF RecordsOK
<1>0. UNCHANGED docRow
  BY DEF WriteBytes
<1>1. RowsRest /\ FiledRest
  BY <1>0, RowsRestUnchanged
<1>2. CASE ~MayWrite(r.photo)
  <2>1. request' = (request \ {r}) \cup {Moved(r, "refused")}
    BY <1>2, BecomesMoved DEF WriteBytes
  <2>2. Moved(r, "refused").at = "refused" /\ Moved(r, "refused") \in Request
    BY MovedFields
  <2>3. request' \subseteq Request
    BY <2>1, <2>2 DEF RecordsOK
  <2>4. \A q \in request' : q.at = "written" => q \in request
    BY <2>1, <2>2
  <2> QED
    BY <1>1, <2>3, <2>4, UnwrittenJoins
<1>3. CASE MayWrite(r.photo)
  <2>1. request' = (request \ {r}) \cup {Moved(r, "written")}
    BY <1>3, BecomesMoved DEF WriteBytes
  <2>2. /\ Moved(r, "written").photo = r.photo /\ Moved(r, "written").month = month
        /\ r.photo \in Photo
    BY MovedFields DEF Request
  <2>3. <<r.photo, month>> \notin file
    BY <1>3 DEF MayWrite, objectKeyFor
  <2>4. \A q \in request : q.at = "written" /\ q.photo = r.photo => q.month # month
    BY <2>3 DEF BytesFirst
  <2>5. docRow[r.photo] # NoRow => docRow[r.photo].month # month
    BY <2>2, <2>3 DEF BytesFirst, RowHasBytes
  <2> DEFINE n == Moved(r, "written")
  <2> HIDE DEF n
  <2>6. \A q \in request' : q \in request \/ q = n
    BY <2>1 DEF n
  <2>7. n.photo = r.photo /\ n.month = month
    BY <2>2 DEF n
  <2>8. ASSUME NEW q \in request', NEW t \in request', q.at = "written", t.at = "written",
               q.photo = t.photo, q.month = t.month
        PROVE  q = t
    BY <2>4, <2>6, <2>7, <2>8 DEF OnePerMonth
  <2>9. ASSUME NEW q \in request', q.at = "written", docRow[q.photo] # NoRow
        PROVE  q.month # docRow[q.photo].month
    BY <2>5, <2>6, <2>7, <2>9 DEF OnePerMonth
  <2> QED
    BY <1>0, <1>1, <2>8, <2>9 DEF OnePerMonth
<1> QED
  BY <1>2, <1>3

\* The transaction of the row takes its upload from the written ones, and brings no filed
\* row of its own month back to DRAFT.
LEMMA WriteRowOnce ==
  ASSUME RecordsOK, OnePerMonth, NEW r \in request, WriteRow(r)
  PROVE  /\ OnePerMonth'
         /\ \A p \in Photo : docRow[p].status = "FILED" /\ docRow'[p].status = "DRAFT"
              => r.photo = p /\ r.at = "written" /\ r.month # docRow[p].month
<1>1. r \in Request /\ r.at = "written"
  BY DEF RecordsOK, WriteRow
<1>2. /\ docRow' = [docRow EXCEPT ![r.photo] = Upserted(docRow[r.photo], r.month)]
      /\ request' = (request \ {r}) \cup {Moved(r, "done")}
  BY BecomesMoved DEF WriteRow
<1>3. Moved(r, "done").at = "done"
  BY <1>1, MovedFields
<1>4. r.photo \in Photo /\ r.month \in 0..LastMonth /\ docRow[r.photo] \in Row \cup {NoRow}
  BY <1>1 DEF Request, RecordsOK
<1>5. Upserted(docRow[r.photo], r.month).month
        = IF docRow[r.photo] = NoRow THEN r.month ELSE docRow[r.photo].month
  BY <1>4, UpsertedIsRow
<1>6. \A q \in request' : q.at = "written" => q \in request \ {r}
  BY <1>2, <1>3
<1>7. ASSUME NEW q \in request', q.at = "written", docRow'[q.photo] # NoRow
      PROVE  q.month # docRow'[q.photo].month
  <2>1. q \in request \ {r} /\ q.photo \in Photo
    BY <1>6, <1>7 DEF RecordsOK, Request
  <2>2. CASE q.photo # r.photo
    <3>1. docRow'[q.photo] = docRow[q.photo]
      BY <1>2, <1>4, <2>1, <2>2 DEF RecordsOK
    <3> QED
      BY <1>7, <2>1, <3>1 DEF OnePerMonth
  <2>3. CASE q.photo = r.photo
    <3>1. docRow'[q.photo].month
            = IF docRow[q.photo] = NoRow THEN r.month ELSE docRow[q.photo].month
      BY <1>2, <1>4, <1>5, <2>1, <2>3 DEF RecordsOK
    <3>2. q.month # r.month
      BY <1>1, <1>7, <2>1, <2>3 DEF OnePerMonth
    <3> QED
      BY <1>7, <2>1, <3>1, <3>2 DEF OnePerMonth
  <2> QED
    BY <2>2, <2>3
<1>8. OnePerMonth'
  BY <1>6, <1>7 DEF OnePerMonth
<1>9. ASSUME NEW p \in Photo, docRow[p].status = "FILED", docRow'[p].status = "DRAFT"
      PROVE  r.photo = p /\ r.at = "written" /\ r.month # docRow[p].month
  <2>1. r.photo = p
    BY <1>2, <1>4, <1>9 DEF RecordsOK
  <2>2. docRow[p] # NoRow
    BY <1>9 DEF NoRow
  <2> QED
    BY <1>1, <2>1, <2>2 DEF OnePerMonth
<1> QED
  BY <1>8, <1>9

\* A broken connection takes from an upload only the call that waits for it.
LEMMA DetachingRests ==
  ASSUME RecordsOK, OnePerMonth, RowsRest,
         NEW gone \in SUBSET request,
         \A r \in request' : r \in request => r \notin gone,
         \A r \in request' : r \notin request => \E q \in gone : r = Detached(q)
  PROVE  OnePerMonth'
<1>1. \A q \in request : Detached(q) \in Request /\ Detached(q).photo = q.photo
                         /\ Detached(q).at = q.at /\ Detached(q).month = q.month
  BY DetachedFields DEF RecordsOK
<1>2. request' \subseteq Request
  BY <1>1 DEF RecordsOK
<1>3. ASSUME NEW r \in request', r.at = "written"
      PROVE  \E q \in request :
                /\ q.at = "written" /\ q.photo = r.photo /\ q.month = r.month
                /\ \A t \in request' : t.at = "written" /\ t.photo = q.photo
                                         /\ t.month = q.month => t = r
  <2>1. \A t \in request', u \in request :
           /\ t.at = "written" /\ u.at = "written"
           /\ t.photo = u.photo /\ t.month = u.month
           => (t = u /\ u \notin gone) \/ (t = Detached(u) /\ u \in gone)
    BY <1>1 DEF OnePerMonth
  <2>2. PICK q \in request : r = q \/ r = Detached(q)
    BY <1>3
  <2>3. q.at = "written" /\ q.photo = r.photo /\ q.month = r.month
    BY <1>1, <1>3, <2>2
  <2>4. \A t \in request' : t.at = "written" /\ t.photo = q.photo /\ t.month = q.month => t = r
    BY <1>3, <2>1, <2>3
  <2> QED
    BY <2>3, <2>4
<1> QED
  BY <1>2, <1>3, OnePerMonthRests

\* Any other step.
LEMMA OnePerMonthStep ==
  ASSUME RecordsOK, RecordsOK', BytesFirst, OnePerMonth, UploadNext
  PROVE  /\ OnePerMonth'
         /\ \/ FiledRest
            \/ \E r \in request : WriteRow(r)
            \/ UNCHANGED <<deviceVars, file, worldVars, request>>
<1>0. request' \subseteq Request
  BY DEF RecordsOK
<1>1. ASSUME NEW s \in FlushCall,
             \/ Add(s) \/ Nudge(s) \/ List(s) \/ Forget(s) \/ ListOffline(s)
             \/ PostFails(s) \/ Unfit(s)
      PROVE  OnePerMonth' /\ FiledRest
  <2>1. UNCHANGED <<docRow, request>>
    BY <1>1 DEF Add, Nudge, List, Forget, ListOffline, PostFails, Unfit, serverVars
  <2> QED
    BY <1>0, <2>1, RowsRestUnchanged, UnwrittenJoins
<1>2. ASSUME NEW s \in FlushCall, Post(s)
      PROVE  OnePerMonth' /\ FiledRest
  <2>1. UNCHANGED docRow /\ \A r \in request' : r.at = "written" => r \in request
    BY <1>2 DEF Post, serverVars
  <2> QED
    BY <1>0, <2>1, RowsRestUnchanged, UnwrittenJoins
<1>3. ASSUME NEW r \in request, Answer(r) \/ ServerDies(r)
      PROVE  OnePerMonth' /\ FiledRest
  <2>1. UNCHANGED docRow /\ request' \subseteq request
    BY <1>3 DEF Answer, ServerDies, serverVars
  <2> QED
    BY <1>0, <2>1, RowsRestUnchanged, UnwrittenJoins
<1>4. ASSUME NEW r \in request, RowFails(r)
      PROVE  OnePerMonth' /\ FiledRest
  <2>1. request' = (request \ {r}) \cup {Moved(r, "refused")} /\ UNCHANGED docRow
    BY <1>4, BecomesMoved DEF RowFails, serverVars
  <2>2. Moved(r, "refused").at = "refused"
    BY MovedFields DEF RecordsOK
  <2> QED
    BY <1>0, <2>1, <2>2, RowsRestUnchanged, UnwrittenJoins
<1>5. ASSUME NEW r \in request, ConnectionLost(r)
      PROVE  OnePerMonth' /\ FiledRest
  <2>1. request' = (request \ {r}) \cup {Detached(r)} /\ UNCHANGED docRow
    BY <1>5 DEF ConnectionLost, serverVars, Detached
  <2>2. r \in Request /\ r.by # NoCall
    BY <1>5 DEF ConnectionLost, RecordsOK
  <2>3. Detached(r) # r
    BY <2>2, DetachedFields
  <2>4. RowsRest /\ FiledRest
    BY <2>1, RowsRestUnchanged
  <2>5. CASE Detached(r) \in request
    BY <1>0, <2>1, <2>4, <2>5, UnwrittenJoins
  <2>6. CASE Detached(r) \notin request
    <3>1. {r} \in SUBSET request
      OBVIOUS
    <3> QED
      BY <2>1, <2>4, <2>6, <3>1, DetachingRests
  <2> QED
    BY <2>5, <2>6
<1>6. CASE AppCloses
  <2>1. request' = {Detached(q) : q \in request} /\ UNCHANGED docRow
    BY <1>6 DEF AppCloses, serverVars, Detached
  <2>2. RowsRest /\ FiledRest
    BY <2>1, RowsRestUnchanged
  <2>3. ASSUME NEW t \in request', NEW u \in request', t.at = "written", u.at = "written",
               t.photo = u.photo, t.month = u.month
        PROVE  t = u
    <3>1. PICK q \in request, v \in request : t = Detached(q) /\ u = Detached(v)
      BY <2>1
    <3>2. q.at = "written" /\ v.at = "written" /\ q.photo = v.photo /\ q.month = v.month
      BY <2>3, <3>1, DetachedFields DEF RecordsOK
    <3> QED
      BY <3>1, <3>2 DEF OnePerMonth
  <2>4. ASSUME NEW t \in request', t.at = "written", docRow'[t.photo] # NoRow
        PROVE  t.month # docRow'[t.photo].month
    <3>1. PICK q \in request : t = Detached(q)
      BY <2>1
    <3>2. q.at = "written" /\ q.photo = t.photo /\ q.month = t.month
      BY <2>4, <3>1, DetachedFields DEF RecordsOK
    <3> QED
      BY <2>1, <2>4, <3>2 DEF OnePerMonth
  <2> QED
    BY <2>2, <2>3, <2>4 DEF OnePerMonth
<1>7. ASSUME NEW p \in Photo, OfficeActs(p)
      PROVE  OnePerMonth' /\ UNCHANGED <<deviceVars, file, worldVars, request>>
  <2>1. RowsRest
    BY <1>7 DEF OfficeActs, FileDocument, softDelete, RowsRest, RecordsOK, Row, NoRow
  <2>2. UNCHANGED <<deviceVars, file, worldVars, request>>
    BY <1>7 DEF OfficeActs, FileDocument, softDelete
  <2> QED
    BY <1>0, <2>1, <2>2, UnwrittenJoins
<1>8. ASSUME NEW p \in Photo, WorldActs(p)
      PROVE  OnePerMonth' /\ FiledRest
  BY <1>0, <1>8, RowsRestUnchanged, UnwrittenJoins DEF WorldActs, OrderBarred, ScopeReturns, BytesSpoiled, serverVars
<1>9. CASE MonthTurns
  BY <1>0, <1>9, RowsRestUnchanged, UnwrittenJoins DEF MonthTurns, serverVars
<1>10. ASSUME NEW r \in request, WriteBytes(r)
       PROVE  OnePerMonth' /\ FiledRest
  BY <1>10, WriteBytesOnce
<1>11. ASSUME NEW r \in request, WriteRow(r)
       PROVE  OnePerMonth'
  BY <1>11, WriteRowOnce
<1> QED
  BY <1>1, <1>2, <1>3, <1>4, <1>5, <1>6, <1>7, <1>8, <1>9, <1>10, <1>11
     DEF UploadNext, FlushStep, HandlerStep, OfficeActs, WorldActs

\* What one step may do to a filed document.
FilingStep ==
    \A p \in Photo :
       (docRow[p].status = "FILED" /\ docRow'[p].status = "DRAFT")
          => \/ UNCHANGED <<deviceVars, file, worldVars, request>>
             \/ \E r \in request : r.photo = p /\ r.at = "written" /\ r.month # docRow[p].month

\* Besides the office, only an upload of another month makes a filed document a draft again:
\* however many duplicates of an upload are on their way, 'wx' lets one of them a month reach the
\* transaction (document-store.ts:50, documents.service.ts:304).
THEOREM FiledStays == UploadSpec => FiledStaysFiledInItsMonth
<1> DEFINE IInv == RecordsOK /\ CallsOK /\ BytesFirst /\ OnePerMonth
<1>1. UploadInit => IInv
  BY InitTypes DEF UploadInit, BytesFirst, RowHasBytes, OnePerMonth
<1>2. IInv /\ [UploadNext]_uploadVars => IInv' /\ [FilingStep]_uploadVars
  <2> SUFFICES ASSUME IInv, [UploadNext]_uploadVars PROVE IInv' /\ [FilingStep]_uploadVars
    OBVIOUS
  <2>1. CASE UNCHANGED uploadVars
    <3>1. CallsOK' /\ RecordsOK'
      BY NextTypes
    <3>2. BytesFirst' /\ OnePerMonth'
      BY <2>1 DEF BytesFirst, RowHasBytes, OnePerMonth, uploadVars, serverVars
    <3> QED
      BY <2>1, <3>1, <3>2
  <2>2. CASE UploadNext
    <3>1. CallsOK' /\ RecordsOK'
      BY NextTypes
    <3>2. BytesFirst'
      BY <2>2, BytesStayFirst
    <3>3. /\ OnePerMonth'
          /\ \/ FiledRest
             \/ \E r \in request : WriteRow(r)
             \/ UNCHANGED <<deviceVars, file, worldVars, request>>
      BY <2>2, <3>1, OnePerMonthStep
    <3>4. FilingStep
      <4>1. CASE FiledRest \/ UNCHANGED <<deviceVars, file, worldVars, request>>
        BY <4>1 DEF FiledRest, FilingStep
      <4>2. ASSUME NEW r \in request, WriteRow(r) PROVE FilingStep
        BY <4>2, WriteRowOnce DEF FilingStep
      <4> QED
        BY <3>3, <4>1, <4>2
    <3> QED
      BY <3>1, <3>2, <3>3, <3>4
  <2> QED
    BY <2>1, <2>2
<1>3. FilingStep <=> \A p \in Photo :
          (docRow[p].status = "FILED" /\ docRow'[p].status = "DRAFT")
             => \/ UNCHANGED <<deviceVars, file, worldVars, request>>
                \/ \E r \in request : /\ r.photo = p /\ r.at = "written"
                                      /\ r.month # docRow[p].month
  BY DEF FilingStep
<1> QED
  BY <1>1, <1>2, <1>3, PTL DEF UploadSpec, FiledStaysFiledInItsMonth

-----------------------------------------------------------------------------
(* The queue keeps the promise of Outbox                                   *)

\* A photo without a row is queued, and nothing is known of a photo not taken yet.
TableInv ==
    /\ \A p \in Photo : docRow[p] # NoRow => p <= captured
    /\ \A p \in Photo : p <= captured /\ docRow[p] = NoRow => pending[p] = "queued"
    /\ \A p \in Photo : p > captured => pending[p] = "none"

\* A round forgets only what has its row.
RoundInv ==
    /\ \A s \in FlushCall : call[s].round \subseteq 1..captured
    /\ \A s \in FlushCall : call[s].at = "forget" => \A p \in InHand(s) : docRow[p] # NoRow

\* An upload that says it is done has left its row; the call that waits for an upload
\* waits for this one alone, and has its record in hand.
AnswerInv ==
    /\ \A r \in request : r.photo <= captured /\ (r.at = "done" => docRow[r.photo] # NoRow)
    /\ \A r \in request : r.by # NoCall => call[r.by].at = "sending" /\ r.photo \in InHand(r.by)
    /\ \A r, q \in request : r.by # NoCall /\ r.by = q.by => r = q

QueueInv == TableInv /\ RoundInv /\ AnswerInv

\* A step of the call s leaves the rounds of the others as they are, and wakes no more
\* than those who waited.
OnlyMoves(s) ==
    \A t \in FlushCall \ {s} :
        /\ call'[t].round = call[t].round
        /\ {call[t].at, call'[t].at} \cap {"sending", "forget"} # {} => call'[t].at = call[t].at

LEMMA CallMoves ==
  ASSUME CallsOK, NEW s \in FlushCall
  PROVE  /\ \A limit : Begin(s, limit) => /\ OnlyMoves(s)
                                          /\ call[s].at = "idle"
                                          /\ call'[s].round = call[s].round
                                          /\ call'[s].at \in {"listing", "waiting"}
         /\ EndRound(s) => OnlyMoves(s) /\ call'[s] = Idle
<1>1. ASSUME NEW limit, Begin(s, limit)
      PROVE  /\ OnlyMoves(s) /\ call[s].at = "idle"
             /\ call'[s].round = call[s].round /\ call'[s].at \in {"listing", "waiting"}
  BY <1>1 DEF CallsOK, Call, Begin, OnlyMoves
<1>2. ASSUME EndRound(s)
      PROVE  OnlyMoves(s) /\ call'[s] = Idle
  <2>1. call'[s] = Idle
    BY <1>2 DEF EndRound
  <2>2. ASSUME NEW t \in FlushCall \ {s}
        PROVE  /\ call'[t].round = call[t].round
               /\ call'[t].at = call[t].at \/ (call[t].at = "waiting" /\ call'[t].at = "listing")
    <3>1. CASE inFlight = s /\ call[t].at = "waiting"
      <4>1. call'[t] = [call[t] EXCEPT !.at = "listing"]
        BY <1>2, <3>1 DEF EndRound
      <4>2. call[t] \in Call
        BY DEF CallsOK
      <4> QED
        BY <3>1, <4>1, <4>2 DEF Call
    <3>2. CASE ~(inFlight = s /\ call[t].at = "waiting")
      BY <1>2, <3>2 DEF EndRound
    <3> QED
      BY <3>1, <3>2
  <2> QED
    BY <2>1, <2>2 DEF OnlyMoves
<1> QED
  BY <1>1, <1>2

LEMMA RoundMoves ==
  ASSUME CallsOK, NEW s \in FlushCall, NEW at, NEW round,
         call' = [call EXCEPT ![s].at = at, ![s].round = round]
  PROVE  OnlyMoves(s) /\ call'[s].at = at /\ call'[s].round = round
<1>1. call[s] \in Call
  BY DEF CallsOK
<1>2. call'[s] = [call[s] EXCEPT !.at = at, !.round = round]
  BY DEF CallsOK
<1>3. \A t \in FlushCall \ {s} : call'[t] = call[t]
  BY DEF CallsOK
<1> QED
  BY <1>1, <1>2, <1>3 DEF OnlyMoves, Call

\* After its record the call s is at rest or before its next record.
LEMMA NextRecordMoves ==
  ASSUME CallsOK, NEW s \in FlushCall, NEW p \in Photo, NextRecord(s, p)
  PROVE  OnlyMoves(s) /\ call'[s].round \subseteq call[s].round /\ call'[s].at \in {"idle", "next"}
<1>1. CASE call[s].round = {p}
  BY <1>1, CallMoves DEF NextRecord, Idle
<1>2. CASE call[s].round # {p}
  <2>1. call' = [call EXCEPT ![s].at = "next", ![s].round = call[s].round \ {p}]
    BY <1>2 DEF NextRecord, CallsOK, Call
  <2>2. OnlyMoves(s) /\ call'[s].at = "next" /\ call'[s].round = call[s].round \ {p}
    BY <2>1, RoundMoves
  <2> QED
    BY <2>2
<1> QED
  BY <1>1, <1>2

LEMMA SaveSentMoves ==
  ASSUME CallsOK, NEW s \in FlushCall, NEW p \in Photo, SaveSent(s, p)
  PROVE  OnlyMoves(s) /\ call'[s].round = call[s].round
<1>1. call' = [call EXCEPT ![s].at = "forget", ![s].round = call[s].round]
  BY DEF SaveSent, CallsOK, Call
<1> QED
  BY <1>1, RoundMoves

\* The rounds, when only the call s has moved.
LEMMA RoundsStay ==
  ASSUME RecordsOK, RoundInv, NEW s \in FlushCall, OnlyMoves(s),
         captured' \in Nat, captured <= captured',
         \A p \in Photo : docRow[p] # NoRow => docRow'[p] # NoRow,
         call'[s].round \subseteq 1..captured', captured' <= MaxPhoto,
         call'[s].at = "forget" => \A p \in InHand(s)' : docRow'[p] # NoRow
  PROVE  RoundInv'
<1>1. 1..captured \subseteq 1..captured' /\ 1..captured' \subseteq Photo
  BY UploadAssumption DEF RecordsOK, Photo
<1>2. ASSUME NEW t \in FlushCall, t # s
      PROVE  /\ call'[t].round \subseteq 1..captured'
             /\ call'[t].at = "forget" => \A p \in InHand(t)' : docRow'[p] # NoRow
  <2>1. call'[t].round = call[t].round /\ (call'[t].at = "forget" => call[t].at = "forget")
    BY <1>2 DEF OnlyMoves
  <2>2. InHand(t)' = InHand(t) /\ InHand(t) \subseteq call[t].round
    BY <2>1 DEF InHand
  <2>3. call'[t].round \subseteq 1..captured'
    BY <1>1, <2>1 DEF RoundInv
  <2>4. InHand(t) \subseteq Photo
    BY <1>1, <2>1, <2>2, <2>3
  <2>5. call'[t].at = "forget" => \A p \in InHand(t) : docRow'[p] # NoRow
    BY <2>1, <2>4 DEF RoundInv
  <2> QED
    BY <2>2, <2>3, <2>5
<1> QED
  BY <1>2 DEF RoundInv

\* The uploads, when a call that waits for none has moved.
LEMMA AnswersStay ==
  ASSUME RecordsOK, AnswerInv, NEW s \in FlushCall, OnlyMoves(s), call[s].at # "sending",
         UNCHANGED <<request, docRow>>, captured' \in Nat, captured <= captured'
  PROVE  AnswerInv'
<1>1. ASSUME NEW r \in request
      PROVE  r.photo <= captured'
  <2>1. r.photo \in Nat /\ captured \in Nat /\ r.photo <= captured
    BY UploadAssumption DEF RecordsOK, Request, Photo, AnswerInv
  <2> QED
    BY <2>1
<1>2. ASSUME NEW r \in request, r.by # NoCall
      PROVE  call'[r.by].at = "sending" /\ r.photo \in InHand(r.by)'
  <2>1. r.by \in FlushCall \ {s} /\ call[r.by].at = "sending" /\ r.photo \in InHand(r.by)
    BY <1>2 DEF AnswerInv, RecordsOK, Request
  <2>2. call'[r.by].at = "sending" /\ call'[r.by].round = call[r.by].round
    BY <2>1 DEF OnlyMoves
  <2> QED
    BY <2>1, <2>2 DEF InHand
<1> QED
  BY <1>1, <1>2 DEF AnswerInv

\* The uploads, when the one the call s waits for is answered, given up or lost.
LEMMA AnswersEnd ==
  ASSUME RecordsOK, AnswerInv, NEW r \in request, r.by # NoCall, OnlyMoves(r.by),
         \A q \in request' : q \in request \ {r} \/ q = Detached(r),
         UNCHANGED <<docRow, captured>>
  PROVE  AnswerInv'
<1>0. /\ Detached(r).by = NoCall /\ Detached(r).photo = r.photo /\ Detached(r).at = r.at
      /\ r.by \in FlushCall
  BY DetachedFields DEF RecordsOK, Request
<1>1. ASSUME NEW q \in request'
      PROVE  q.photo <= captured' /\ (q.at = "done" => docRow'[q.photo] # NoRow)
  BY <1>0 DEF AnswerInv
<1>2. ASSUME NEW q \in request', q.by # NoCall
      PROVE  call'[q.by].at = "sending" /\ q.photo \in InHand(q.by)'
  <2>1. q \in request \ {r}
    BY <1>0, <1>2
  <2>2. q.by \in FlushCall \ {r.by} /\ call[q.by].at = "sending" /\ q.photo \in InHand(q.by)
    BY <1>2, <2>1 DEF AnswerInv, RecordsOK, Request
  <2>3. call'[q.by].at = "sending" /\ call'[q.by].round = call[q.by].round
    BY <2>2 DEF OnlyMoves
  <2> QED
    BY <2>2, <2>3 DEF InHand
<1>3. ASSUME NEW q \in request', NEW t \in request', q.by # NoCall, q.by = t.by
      PROVE  q = t
  BY <1>0, <1>3 DEF AnswerInv
<1> QED
  BY <1>1, <1>2, <1>3 DEF AnswerInv

\* A step of the queue on one photo: back into the queue, or out of it once the server
\* has its row.
LEMMA TableStep ==
  ASSUME RecordsOK, TableInv, NEW p \in Photo, p <= captured,
         NEW state \in {"none", "queued", "sent"},
         pending' = [pending EXCEPT ![p] = state], UNCHANGED <<captured, docRow>>,
         state = "queued" \/ docRow[p] # NoRow
  PROVE  TableInv' /\ [Box!Next]_Box!outboxVars
<1>1. TableInv'
  BY DEF TableInv, RecordsOK, Photo
<1>2. UNCHANGED {q \in Photo : docRow[q] # NoRow}
  OBVIOUS
<1>3. CASE (pending[p] = "queued") = (state = "queued")
  <2>1. UNCHANGED {q \in Photo : pending[q] = "queued"}
    BY <1>3 DEF RecordsOK
  <2> QED
    BY <1>1, <1>2, <2>1 DEF Box!outboxVars
<1>4. CASE state = "queued" /\ pending[p] # "queued"
  <2>1. {q \in Photo : pending'[q] = "queued"} = {q \in Photo : pending[q] = "queued"} \cup {p}
    BY <1>4 DEF RecordsOK
  <2>2. docRow[p] # NoRow
    BY <1>4 DEF TableInv
  <2>3. Box!Again(p)
    BY <1>2, <1>4, <2>1, <2>2 DEF Box!Again
  <2> QED
    BY <1>1, <2>3 DEF Box!Next
<1>5. CASE state # "queued" /\ pending[p] = "queued"
  <2>1. {q \in Photo : pending'[q] = "queued"} = {q \in Photo : pending[q] = "queued"} \ {p}
    BY <1>5 DEF RecordsOK
  <2>2. Box!Drop({p})
    BY <1>2, <1>5, <2>1 DEF Box!Drop
  <2> QED
    BY <1>1, <2>2 DEF Box!Next
<1> QED
  BY <1>3, <1>4, <1>5

LEMMA BoxRests == UNCHANGED <<pending, docRow>> => [Box!Next]_Box!outboxVars
  BY DEF Box!outboxVars

\* The records of a round are photos taken, and a round has one record in hand at a time.
LEMMA HandIsTaken ==
  ASSUME RecordsOK, RoundInv, NEW s \in FlushCall
  PROVE  /\ \A p \in InHand(s) : p \in Photo /\ p <= captured
         /\ \A p, q \in InHand(s) : p = q
         /\ call[s].round \subseteq Photo
<1>1. call[s].round \subseteq 1..captured /\ captured \in 0..MaxPhoto
  BY DEF RoundInv, RecordsOK
<1>2. call[s].round \subseteq Photo /\ \A p \in call[s].round : p \in Nat /\ p <= captured
  BY <1>1, UploadAssumption DEF Photo
<1>3. \A p, q \in InHand(s) : p <= q /\ q <= p /\ p \in Nat /\ q \in Nat
  BY <1>2 DEF InHand
<1>4. \A p \in InHand(s) : p \in call[s].round
  BY DEF InHand
<1> QED
  BY <1>2, <1>3, <1>4

\* A step of a call that leaves the table alone.
LEMMA FlushQueueRests ==
  ASSUME CallsOK, RecordsOK, QueueInv, NEW s \in FlushCall,
         Nudge(s) \/ List(s) \/ ListOffline(s) \/ Post(s)
  PROVE  QueueInv' /\ [Box!Next]_Box!outboxVars
<1>0. captured \in Nat /\ captured <= MaxPhoto
  BY UploadAssumption DEF RecordsOK
<1>1. UNCHANGED <<pending, captured, docRow>>
  BY DEF Nudge, List, ListOffline, Post, serverVars
<1>2. TableInv'
  BY <1>1 DEF QueueInv, TableInv
<1>3. CASE Nudge(s)
  <2>1. OnlyMoves(s) /\ call[s].at = "idle" /\ call'[s].round = call[s].round /\ call'[s].at # "forget"
    BY <1>3, CallMoves DEF Nudge
  <2>2. RoundInv'
    BY <1>0, <1>1, <2>1, RoundsStay DEF QueueInv, RoundInv
  <2>3. AnswerInv'
    BY <1>0, <1>1, <1>3, <2>1, AnswersStay DEF QueueInv, Nudge
  <2> QED
    BY <1>1, <1>2, <2>2, <2>3, BoxRests DEF QueueInv
<1>4. CASE List(s) \/ ListOffline(s)
  <2>1. call[s].at = "listing" /\ UNCHANGED request
    BY <1>4 DEF List, ListOffline
  <2>2. CASE EndRound(s)
    <3>1. OnlyMoves(s) /\ call'[s].round = {} /\ call'[s].at = "idle"
      BY <2>2, CallMoves DEF Idle
    <3>2. RoundInv'
      BY <1>0, <1>1, <3>1, RoundsStay DEF QueueInv
    <3>3. AnswerInv'
      BY <1>0, <1>1, <2>1, <3>1, AnswersStay DEF QueueInv
    <3> QED
      BY <1>1, <1>2, <3>2, <3>3, BoxRests DEF QueueInv
  <2>3. CASE List(s) /\ ~EndRound(s)
    <3>1. LET q == Unsent(call[s].limit)
          IN  call' = [call EXCEPT ![s].at = "next", ![s].round = q]
      BY <2>3 DEF List
    <3>2. /\ OnlyMoves(s) /\ call'[s].at = "next"
          /\ call'[s].round = Unsent(call[s].limit)
      BY <3>1, RoundMoves
    <3>3. Unsent(call[s].limit) \subseteq {p \in Photo : pending[p] = "queued"}
      BY DEF Unsent, listPending
    <3>4. {p \in Photo : pending[p] = "queued"} \subseteq 1..captured
      BY <1>0 DEF QueueInv, TableInv, Photo
    <3>5. RoundInv'
      BY <1>0, <1>1, <3>2, <3>3, <3>4, RoundsStay DEF QueueInv
    <3>6. AnswerInv'
      BY <1>0, <1>1, <2>1, <3>2, AnswersStay DEF QueueInv
    <3> QED
      BY <1>1, <1>2, <3>5, <3>6, BoxRests DEF QueueInv
  <2> QED
    BY <1>4, <2>2, <2>3 DEF ListOffline
<1>5. CASE Post(s)
  <2>1. PICK p \in InHand(s) :
          request' = request \cup {[photo |-> p, by |-> s, at |-> "arrived", month |-> 0]}
    BY <1>5 DEF Post
  <2>2. call' = [call EXCEPT ![s].at = "sending", ![s].round = call[s].round] /\ call[s].at = "next"
    BY <1>5 DEF Post, CallsOK, Call
  <2>3. OnlyMoves(s) /\ call'[s].at = "sending" /\ call'[s].round = call[s].round
    BY <2>2, RoundMoves
  <2>4. RoundInv'
    BY <1>0, <1>1, <2>3, RoundsStay DEF QueueInv, RoundInv
  <2>5. p \in Photo /\ p <= captured
    BY HandIsTaken DEF QueueInv
  <2>6. ASSUME NEW r \in request, r.by # NoCall
        PROVE  /\ r.by # s
               /\ call'[r.by].at = "sending" /\ r.photo \in InHand(r.by)'
    <3>1. /\ r.by \in FlushCall /\ call[r.by].at = "sending" /\ r.photo \in InHand(r.by)
      BY <2>6 DEF QueueInv, AnswerInv, RecordsOK, Request
    <3>2. r.by # s
      BY <2>2, <3>1
    <3>3. call'[r.by].at = "sending" /\ call'[r.by].round = call[r.by].round
      BY <2>3, <3>1, <3>2 DEF OnlyMoves
    <3> QED
      BY <3>1, <3>2, <3>3 DEF InHand
  <2>7. p \in InHand(s)'
    BY <2>3 DEF InHand
  <2>8. AnswerInv'
    BY <1>1, <2>1, <2>3, <2>5, <2>6, <2>7, UploadAssumption DEF QueueInv, AnswerInv
  <2> QED
    BY <1>1, <1>2, <2>4, <2>8, BoxRests DEF QueueInv
<1> QED
  BY <1>3, <1>4, <1>5

\* A step of a call that writes the table.
LEMMA FlushQueueWrites ==
  ASSUME CallsOK, RecordsOK, QueueInv, NEW s \in FlushCall, 
         Add(s) \/ Forget(s) \/ PostFails(s) \/ Unfit(s)
  PROVE  QueueInv' /\ [Box!Next]_Box!outboxVars
<1>0. captured \in Nat /\ captured <= MaxPhoto
  BY UploadAssumption DEF RecordsOK
<1>1. CASE Add(s)
  <2> PICK n : n = captured + 1
    OBVIOUS
  <2>1. /\ n \in Photo /\ captured' = n /\ UNCHANGED <<docRow, request>>
        /\ pending' = [pending EXCEPT ![n] = "queued"] /\ n <= MaxPhoto
    BY <1>0, <1>1, UploadAssumption DEF Add, Photo, savePending, serverVars, RecordsOK
  <2>2. docRow[n] = NoRow /\ pending[n] = "none"
    BY <1>0, <2>1 DEF QueueInv, TableInv
  <2>3. Box!Put(n)
    <3>1. {q \in Photo : pending'[q] = "queued"} = {q \in Photo : pending[q] = "queued"} \cup {n}
      BY <2>1 DEF RecordsOK
    <3> QED
      BY <2>1, <2>2, <3>1 DEF Box!Put
  <2>4. TableInv'
    <3> SUFFICES ASSUME NEW p \in Photo
                 PROVE  /\ docRow[p] # NoRow => p <= n
                        /\ p <= n /\ docRow[p] = NoRow => pending'[p] = "queued"
                        /\ p > n => pending'[p] = "none"
      BY <2>1 DEF TableInv
    <3>1. p \in Nat
      BY DEF Photo
    <3>2. CASE p = n
      BY <1>0, <2>1, <2>2, <3>2 DEF RecordsOK
    <3>3. CASE p # n
      <4>1. pending'[p] = pending[p]
        BY <2>1, <3>3 DEF RecordsOK
      <4>2. p <= n <=> p <= captured
        BY <1>0, <3>1, <3>3
      <4> QED
        BY <1>0, <3>1, <3>3, <4>1, <4>2 DEF QueueInv, TableInv
    <3> QED
      BY <3>2, <3>3
  <2>5. /\ OnlyMoves(s) /\ call[s].at = "idle" /\ call'[s].round = call[s].round
        /\ call'[s].at # "forget"
    BY <1>1, CallMoves DEF Add
  <2>6. RoundInv'
    <3>1. call[s].round \subseteq 1..n
      BY <1>0 DEF QueueInv, RoundInv
    <3> QED
      BY <1>0, <2>1, <2>5, <3>1, RoundsStay DEF QueueInv
  <2>7. AnswerInv'
    BY <1>0, <2>1, <2>5, AnswersStay DEF QueueInv
  <2>8. [Box!Next]_Box!outboxVars
    BY <2>1, <2>3 DEF Box!Next
  <2> QED
    BY <2>4, <2>6, <2>7, <2>8 DEF QueueInv
<1>2. CASE Forget(s) \/ PostFails(s) \/ Unfit(s)
  <2>1. PICK p \in InHand(s), state \in {"none", "queued"} :
          /\ pending' = [pending EXCEPT ![p] = state] /\ NextRecord(s, p)
          /\ state = "queued" \/ docRow[p] # NoRow
    BY <1>2 DEF Forget, forgetPending, PostFails, Unfit, SaveFailed, savePending, QueueInv, RoundInv
  <2>2. UNCHANGED <<captured, docRow, request>> /\ call[s].at # "sending"
    BY <1>2 DEF Forget, PostFails, Unfit, serverVars
  <2>3. p \in Photo /\ p <= captured
    BY HandIsTaken DEF QueueInv
  <2>4. TableInv' /\ [Box!Next]_Box!outboxVars
    BY <2>1, <2>2, <2>3, TableStep DEF QueueInv
  <2>5. OnlyMoves(s) /\ call'[s].round \subseteq call[s].round /\ call'[s].at # "forget"
    BY <2>1, <2>3, NextRecordMoves
  <2>6. RoundInv'
    BY <1>0, <2>2, <2>5, RoundsStay DEF QueueInv, RoundInv
  <2>7. AnswerInv'
    BY <1>0, <2>2, <2>5, AnswersStay DEF QueueInv
  <2> QED
    BY <2>4, <2>6, <2>7 DEF QueueInv
<1> QED
  BY <1>1, <1>2

\* A step of the server, which takes what waits.
LEMMA ServerQueue ==
  ASSUME CallsOK, RecordsOK, QueueInv, NEW r \in request,
         WriteBytes(r) \/ WriteRow(r) \/ RowFails(r)
  PROVE  QueueInv' /\ [Box!Next]_Box!outboxVars
<1>0. r \in Request /\ r.photo \in Photo /\ r.photo <= captured /\ r.month \in 0..LastMonth
  BY DEF RecordsOK, Request, QueueInv, AnswerInv
<1>1. PICK at \in {"written", "done", "refused"} :
        /\ request' = (request \ {r}) \cup {Moved(r, at)}
        /\ at = "done" => WriteRow(r)
  BY BecomesMoved, Zenon DEF WriteBytes, WriteRow, RowFails
<1>2. Moved(r, at).photo = r.photo /\ Moved(r, at).by = r.by /\ Moved(r, at).at = at
  BY <1>0, MovedFields
<1>3. UNCHANGED <<pending, captured, call>>
  BY DEF WriteBytes, WriteRow, RowFails, deviceVars
<1>4. /\ \A p \in Photo \ {r.photo} : docRow'[p] = docRow[p]
      /\ docRow'[r.photo] = docRow[r.photo] \/ docRow'[r.photo] # NoRow
      /\ at = "done" => docRow'[r.photo] # NoRow
      /\ docRow[r.photo] # NoRow => docRow'[r.photo] # NoRow
  <2>1. CASE WriteRow(r)
    <3>1. Upserted(docRow[r.photo], r.month) # NoRow
      BY <1>0, UpsertedIsRow DEF RecordsOK
    <3>2. docRow' = [docRow EXCEPT ![r.photo] = Upserted(docRow[r.photo], r.month)]
      BY <2>1 DEF WriteRow
    <3> QED
      BY <1>0, <3>1, <3>2 DEF RecordsOK
  <2>2. CASE ~WriteRow(r)
    BY <1>1, <2>2 DEF WriteBytes, RowFails, serverVars
  <2> QED
    BY <2>1, <2>2
<1>5. TableInv'
  BY <1>0, <1>3, <1>4 DEF QueueInv, TableInv
<1>6. RoundInv'
  <2>1. \A p \in Photo : docRow[p] # NoRow => docRow'[p] # NoRow
    BY <1>4
  <2>2. \A s \in FlushCall : InHand(s)' = InHand(s)
    BY <1>3 DEF InHand
  <2> QED
    BY <1>3, <2>1, <2>2, HandIsTaken DEF QueueInv, RoundInv
<1>7. AnswerInv'
  <2>1. \A s \in FlushCall : InHand(s)' = InHand(s)
    BY <1>3 DEF InHand
  <2>2. \A q \in request : q.photo \in Photo /\ (q.by # NoCall => q.by \in FlushCall)
    BY DEF RecordsOK, Request
  <2>3. ASSUME NEW q \in request'
        PROVE  /\ q.photo <= captured /\ (q.at = "done" => docRow'[q.photo] # NoRow)
               /\ q.by # NoCall => call[q.by].at = "sending" /\ q.photo \in InHand(q.by)
    <3>1. CASE q \in request
      BY <1>4, <2>2, <3>1 DEF QueueInv, AnswerInv
    <3>2. CASE q = Moved(r, at)
      BY <1>2, <1>4, <3>2 DEF QueueInv, AnswerInv
    <3> QED
      BY <1>1, <3>1, <3>2
  <2>4. ASSUME NEW q \in request', NEW t \in request', q.by # NoCall, q.by = t.by
        PROVE  q = t
    BY <1>1, <1>2, <2>4 DEF QueueInv, AnswerInv
  <2> QED
    BY <1>3, <2>1, <2>2, <2>3, <2>4, <1>1, <1>2 DEF AnswerInv
<1>8. [Box!Next]_Box!outboxVars
  <2>0. UNCHANGED {q \in Photo : pending[q] = "queued"}
    BY <1>3
  <2>1. CASE docRow[r.photo] # NoRow \/ docRow'[r.photo] = NoRow
    <3>1. UNCHANGED {q \in Photo : docRow[q] # NoRow}
      BY <1>4, <2>1
    <3> QED
      BY <2>0, <3>1 DEF Box!outboxVars
  <2>2. CASE docRow[r.photo] = NoRow /\ docRow'[r.photo] # NoRow
    <3>1. {q \in Photo : docRow'[q] # NoRow} = {q \in Photo : docRow[q] # NoRow} \cup {r.photo}
      BY <1>0, <1>4, <2>2
    <3>2. pending[r.photo] = "queued"
      BY <1>0, <2>2 DEF QueueInv, TableInv
    <3>3. Box!Take({r.photo})
      BY <1>0, <2>0, <3>1, <3>2 DEF Box!Take
    <3> QED
      BY <1>0, <3>3 DEF Box!Next
  <2> QED
    BY <2>1, <2>2
<1> QED
  BY <1>5, <1>6, <1>7, <1>8 DEF QueueInv

\* The end of an upload: its answer, a broken connection, the death of the server.
LEMMA EndQueue ==
  ASSUME CallsOK, RecordsOK, QueueInv, NEW r \in request,
         Answer(r) \/ ConnectionLost(r) \/ ServerDies(r)
  PROVE  QueueInv' /\ [Box!Next]_Box!outboxVars
<1>0. /\ captured \in Nat /\ captured <= MaxPhoto
      /\ r \in Request /\ r.photo \in Photo /\ r.photo <= captured
      /\ r.by # NoCall => r.by \in FlushCall
  BY UploadAssumption DEF RecordsOK, Request, QueueInv, AnswerInv
<1>1. UNCHANGED <<captured, docRow>>
  BY DEF Answer, ConnectionLost, ServerDies, serverVars
<1>2. \A q \in request' : q \in request \ {r} \/ (r.by # NoCall /\ q = Detached(r))
  BY DEF Answer, ConnectionLost, ServerDies, Detached
<1>3. CASE r.by = NoCall
  <2>1. UNCHANGED <<pending, call>> /\ request' \subseteq request
    BY <1>2, <1>3 DEF Answer, ConnectionLost, ServerDies
  <2>2. \A s \in FlushCall : InHand(s)' = InHand(s)
    BY <2>1 DEF InHand
  <2>3. \A q \in request : q.by # NoCall => q.by \in FlushCall
    BY DEF RecordsOK, Request
  <2>4. TableInv' /\ RoundInv'
    BY <1>1, <2>1, <2>2 DEF QueueInv, TableInv, RoundInv
  <2>5. AnswerInv'
    BY <1>1, <2>1, <2>2, <2>3 DEF QueueInv, AnswerInv
  <2> QED
    BY <1>1, <2>1, <2>4, <2>5, BoxRests DEF QueueInv
<1>4. CASE r.by # NoCall
  <2> DEFINE s == r.by
             p == r.photo
  <2>0. s \in FlushCall /\ p \in InHand(s)
    BY <1>0, <1>4 DEF QueueInv, AnswerInv
  <2>1. (SaveSent(s, p) /\ docRow[p] # NoRow) \/ SaveFailed(s, p)
    BY <1>4 DEF Answer, ConnectionLost, ServerDies, QueueInv, AnswerInv
  <2>2. TableInv' /\ [Box!Next]_Box!outboxVars
    BY <1>0, <1>1, <2>1, TableStep DEF SaveSent, SaveFailed, savePending, QueueInv
  <2>3. CASE SaveFailed(s, p)
    <3>1. OnlyMoves(s) /\ call'[s].round \subseteq call[s].round /\ call'[s].at # "forget"
      BY <1>0, <2>0, <2>3, NextRecordMoves DEF SaveFailed
    <3>2. RoundInv'
      BY <1>0, <1>1, <2>0, <3>1, RoundsStay DEF QueueInv, RoundInv
    <3>3. AnswerInv'
      BY <1>1, <1>2, <1>4, <3>1, AnswersEnd DEF QueueInv
    <3> QED
      BY <2>2, <3>2, <3>3 DEF QueueInv
  <2>4. CASE SaveSent(s, p) /\ docRow[p] # NoRow
    <3>1. OnlyMoves(s) /\ call'[s].round = call[s].round
      BY <1>0, <2>0, <2>4, SaveSentMoves
    <3>2. \A q \in InHand(s)' : docRow'[q] # NoRow
      <4>1. InHand(s)' = InHand(s)
        BY <3>1 DEF InHand
      <4>2. \A q \in InHand(s) : q = p
        BY <2>0, HandIsTaken DEF QueueInv
      <4> QED
        BY <1>1, <2>4, <4>1, <4>2
    <3>3. RoundInv'
      BY <1>0, <1>1, <2>0, <3>1, <3>2, RoundsStay DEF QueueInv, RoundInv
    <3>4. AnswerInv'
      BY <1>1, <1>2, <1>4, <3>1, AnswersEnd DEF QueueInv
    <3> QED
      BY <2>2, <3>3, <3>4 DEF QueueInv
  <2> QED
    BY <2>1, <2>3, <2>4
<1> QED
  BY <1>3, <1>4

\* The app closes, the office files and deletes, the months turn.
LEMMA WorldQueue ==
  ASSUME CallsOK, RecordsOK, QueueInv,
         \/ AppCloses
         \/ \E p \in Photo : OfficeActs(p) \/ WorldActs(p)
         \/ MonthTurns
  PROVE  QueueInv' /\ [Box!Next]_Box!outboxVars
<1>1. CASE AppCloses
  <2>1. /\ UNCHANGED <<pending, captured, docRow>>
        /\ request' = {Detached(r) : r \in request} /\ call' = [s \in FlushCall |-> Idle]
    BY <1>1 DEF AppCloses, serverVars, Detached
  <2>2. TableInv'
    BY <2>1 DEF QueueInv, TableInv
  <2>3. RoundInv'
    BY <2>1 DEF RoundInv, Idle
  <2>4. \A r \in request : /\ Detached(r).by = NoCall
                          /\ Detached(r).photo = r.photo /\ Detached(r).at = r.at
    BY DetachedFields DEF RecordsOK
  <2>5. AnswerInv'
    BY <2>1, <2>4 DEF QueueInv, AnswerInv
  <2> QED
    BY <2>1, <2>2, <2>3, <2>5, BoxRests DEF QueueInv
<1>2. CASE \/ \E p \in Photo : OfficeActs(p) \/ WorldActs(p)
           \/ MonthTurns
  <2>1. UNCHANGED <<pending, captured, call, request>>
    BY <1>2 DEF OfficeActs, WorldActs, FileDocument, softDelete, OrderBarred, ScopeReturns, BytesSpoiled,
        MonthTurns, deviceVars
  <2>2. \A q \in Photo : docRow'[q] = NoRow <=> docRow[q] = NoRow
    <3>1. ASSUME NEW p \in Photo, OfficeActs(p)
          PROVE  \A q \in Photo : docRow'[q] = NoRow <=> docRow[q] = NoRow
      BY <3>1 DEF OfficeActs, FileDocument, softDelete, RecordsOK, Row, NoRow
    <3> QED
      BY <1>2, <3>1 DEF WorldActs, OrderBarred, ScopeReturns, BytesSpoiled, MonthTurns, serverVars
  <2>3. TableInv'
    BY <2>1, <2>2 DEF QueueInv, TableInv
  <2>4. \A s \in FlushCall : InHand(s)' = InHand(s)
    BY <2>1 DEF InHand
  <2>5. RoundInv'
    BY <2>1, <2>2, <2>4, HandIsTaken DEF QueueInv, RoundInv
  <2>6. \A r \in request : r.photo \in Photo /\ (r.by # NoCall => r.by \in FlushCall)
    BY DEF RecordsOK, Request
  <2>7. AnswerInv'
    BY <2>1, <2>2, <2>4, <2>6 DEF QueueInv, AnswerInv
  <2>8. UNCHANGED <<{q \in Photo : pending[q] = "queued"}, {q \in Photo : docRow[q] # NoRow}>>
    BY <2>1, <2>2
  <2> QED
    BY <2>3, <2>5, <2>7, <2>8 DEF QueueInv, Box!outboxVars
<1> QED
  BY <1>1, <1>2

LEMMA QueueStep ==
  ASSUME CallsOK, RecordsOK, QueueInv, [UploadNext]_uploadVars
  PROVE  QueueInv' /\ [Box!Next]_Box!outboxVars
<1>1. CASE UploadNext
  BY <1>1, FlushQueueRests, FlushQueueWrites, ServerQueue, EndQueue, WorldQueue
     DEF UploadNext, FlushStep, HandlerStep, OfficeActs, WorldActs
<1>2. CASE UNCHANGED uploadVars
  BY <1>2, BoxRests
     DEF QueueInv, TableInv, RoundInv, AnswerInv, InHand, uploadVars, deviceVars, serverVars
<1> QED
  BY <1>1, <1>2

LEMMA QueueInit == UploadInit => QueueInv /\ Box!Init
<1> SUFFICES ASSUME UploadInit PROVE QueueInv /\ Box!Init
  OBVIOUS
<1>1. TableInv
  BY DEF UploadInit, TableInv, Photo
<1>2. RoundInv /\ AnswerInv
  BY DEF UploadInit, RoundInv, AnswerInv, Idle
<1>3. Box!Init
  BY DEF UploadInit, Box!Init
<1> QED
  BY <1>1, <1>2, <1>3 DEF QueueInv

\* The queue implements Outbox: a photo leaves the device only when the server has its
\* row, whatever is closed, lost, refused or sent twice (documents.ts:273-285).
THEOREM QueueImplementsOutbox == UploadSpec => KeepsPhotos
<1>1. CallsOK /\ RecordsOK /\ QueueInv /\ [UploadNext]_uploadVars
         => (CallsOK /\ RecordsOK /\ QueueInv)' /\ [Box!Next]_Box!outboxVars
  BY NextTypes, QueueStep
<1> QED
  BY <1>1, InitTypes, QueueInit, PTL DEF UploadSpec, KeepsPhotos, Box!Spec
=============================================================================
