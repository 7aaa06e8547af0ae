--------------------------- MODULE DocumentUpload ---------------------------
(***************************************************************************)
(* The photos and documents a device uploads: the queue of                 *)
(* packages/domain/src/documents.ts on the device, and the handlers of     *)
(* apps/api/src/documents on the server, where the bytes are a file and    *)
(* the document is a row written after them.  A flush is a sequence of     *)
(* awaits, several may run, the device may close and the server may die    *)
(* between any two steps.                                                  *)
(***************************************************************************)
EXTENDS Naturals, FiniteSets

CONSTANTS
    MaxPhoto,     \* how many photos are taken; they are numbered by queuedAt
    FlushCall,    \* slots for the flush() calls in progress
    NoCall,       \* model value: no flush, or a request nobody waits for
    AddLimit,     \* records a flush takes when add() starts it
    NudgeLimit,   \* records it takes when a nudge or the session starts it
    Watched,      \* the photos others act on: order barred, bytes spoiled, row filed or deleted
    LastMonth,    \* the clock stops in this month, which is free of faults
    MaxFaults     \* lost connections, failed transactions, deaths and spoiled bytes

Photo == 1..MaxPhoto

ASSUME UploadAssumption ==
    /\ MaxPhoto \in Nat /\ Watched \subseteq Photo
    /\ NoCall \notin FlushCall
    /\ AddLimit \in Nat \ {0} /\ NudgeLimit \in Nat \ {0}
    /\ LastMonth \in Nat /\ MaxFaults \in Nat

VARIABLES
    pending,      \* [Photo -> {"none", "queued", "sent"}]: the device's table
    captured,     \* the number of photos taken so far
    inFlight,     \* the call whose round the queue's guard remembers
    call,         \* [FlushCall -> [at, limit, round: the records still to send]]
    request,      \* uploads on their way or in the server's hands
    file,         \* the object keys on disk: <<photo, month>>
    docRow,       \* [Photo -> NoRow or the documents row]
    barred,       \* the photos whose work order is deleted, or out of the uploader's scope
    spoiled,      \* the photos whose bytes on the device no longer pass its own check of size
    month, faults

deviceVars == <<pending, captured, inFlight, call>>
serverVars == <<file, docRow>>
worldVars  == <<barred, spoiled, month, faults>>
uploadVars == <<deviceVars, serverVars, worldVars, request>>

Idle == [at |-> "idle", limit |-> 0, round |-> {}]
NoRow == [status |-> "none", month |-> 0]
\* DELETED stands for any status under a deletedAt: nothing reads it there.
Row == [status : {"DRAFT", "FILED", "DELETED"}, month : 0..LastMonth]
Request == [photo : Photo, by : FlushCall \cup {NoCall},
            at : {"arrived", "written", "done", "refused"}, month : 0..LastMonth]

\* What the tables, calls and requests can hold; and the guard of flush() names a
\* round in progress, so that whoever waits for it will be woken
\* (documents.ts:234-249).
UploadTypeOK ==
    /\ pending \in [Photo -> {"none", "queued", "sent"}]
    /\ captured \in 0..MaxPhoto
    /\ inFlight \in FlushCall \cup {NoCall}
    /\ call \in [FlushCall -> [at : {"idle", "waiting", "listing", "next", "sending", "forget"},
                               limit : {0, AddLimit, NudgeLimit}, round : SUBSET Photo]]
    /\ request \subseteq Request
    /\ file \subseteq Photo \X (0..LastMonth)
    /\ docRow \in [Photo -> Row \cup {NoRow}]
    /\ barred \subseteq Watched /\ spoiled \subseteq Watched
    /\ month \in 0..LastMonth /\ faults \in 0..MaxFaults
    /\ inFlight # NoCall => call[inFlight].at \notin {"idle", "waiting"}
    /\ \A s \in FlushCall : call[s].at = "waiting" => inFlight # NoCall

UploadInit ==
    /\ pending = [p \in Photo |-> "none"] /\ captured = 0
    /\ inFlight = NoCall /\ call = [s \in FlushCall |-> Idle]
    /\ request = {} /\ file = {} /\ docRow = [p \in Photo |-> NoRow]
    /\ barred = {} /\ spoiled = {} /\ month = 0 /\ faults = 0

\* The faults of the world are counted, and over when the last month comes.
Fault == month < LastMonth /\ faults < MaxFaults /\ faults' = faults + 1

----------------------------------------------------------------------------
(* The table of the device: a record has its object key once it was sent *)

listPending == {p \in Photo : pending[p] # "none"}
savePending(p, state) == pending' = [pending EXCEPT ![p] = state]
forgetPending(p) == pending' = [pending EXCEPT ![p] = "none"]

----------------------------------------------------------------------------
(* The queue on the device *)

\* flush(): a caller that finds a round in flight waits for it.
Begin(s, limit) ==
    /\ call[s].at = "idle"
    /\ call' = [call EXCEPT ![s].limit = limit,
                            ![s].at = IF inFlight = NoCall THEN "listing" ELSE "waiting"]
    /\ inFlight' = IF inFlight = NoCall THEN s ELSE inFlight

\* Mutant: the guard is cleared only by a round that sent something.
EndRoundKept(s) ==
    /\ inFlight' = IF inFlight = s /\ call[s].at # "listing" THEN NoCall ELSE inFlight
    /\ call' = [t \in FlushCall |-> IF t = s THEN Idle ELSE call[t]]

\* The round of s ends: the guard is cleared, and everyone who waited for it
\* starts a round of their own, which the guard does not remember.
EndRound(s) ==
    /\ inFlight' = IF inFlight = s THEN NoCall ELSE inFlight
    /\ call' = [t \in FlushCall |->
                  IF t = s THEN Idle
                  ELSE IF inFlight = s /\ call[t].at = "waiting"
                       THEN [call[t] EXCEPT !.at = "listing"]
                       ELSE call[t]]

\* add(): a valid photo is saved, and a first attempt is made at once.
Add(s) ==
    /\ captured < MaxPhoto
    /\ captured' = captured + 1
    /\ savePending(captured', "queued")
    /\ Begin(s, AddLimit)
    /\ UNCHANGED <<serverVars, worldVars, request>>

\* A save elsewhere in the app, "sync now", or a session that starts.
Nudge(s) ==
    /\ Begin(s, NudgeLimit)
    /\ UNCHANGED <<pending, captured, serverVars, worldVars, request>>

\* doFlush() reads the table: the oldest records not yet sent, and no more than limit.
Unsent(limit) ==
    LET queued == {p \in listPending : pending[p] = "queued"}
    IN  {p \in queued : Cardinality({q \in queued : q < p}) < limit}

List(s) ==
    /\ call[s].at = "listing"
    /\ LET q == Unsent(call[s].limit)
       IN  IF q = {} THEN EndRound(s)
           ELSE /\ call' = [call EXCEPT ![s].at = "next", ![s].round = q]
                /\ UNCHANGED inFlight
    /\ UNCHANGED <<pending, captured, serverVars, worldVars, request>>

\* The same, with the device offline: everything is deferred.
ListOffline(s) ==
    /\ call[s].at = "listing"
    /\ EndRound(s)
    /\ UNCHANGED <<pending, captured, serverVars, worldVars, request>>

\* A round takes its records in the order they were queued.
InHand(s) == {p \in call[s].round : \A q \in call[s].round : p <= q}

\* transport.upload(): on the desktop a ticket, then the bytes; on the phone one call.
Post(s) ==
    /\ call[s].at = "next"
    /\ \E p \in InHand(s) \ spoiled :
          request' = request \cup {[photo |-> p, by |-> s, at |-> "arrived", month |-> 0]}
    /\ call' = [call EXCEPT ![s].at = "sending"]
    /\ UNCHANGED <<pending, captured, inFlight, serverVars, worldVars>>

\* The record just handled leaves the round.
NextRecord(s, p) ==
    IF call[s].round = {p}
    THEN EndRound(s)
    ELSE /\ call' = [call EXCEPT ![s].at = "next", ![s].round = @ \ {p}]
         /\ UNCHANGED inFlight

\* After a success the record is saved with its key, whether or not it is still there ...
SaveSent(s, p) ==
    /\ savePending(p, "sent")
    /\ call' = [call EXCEPT ![s].at = "forget"]
    /\ UNCHANGED inFlight

\* ... and then forgotten.
Forget(s) ==
    /\ call[s].at = "forget"
    /\ \E p \in InHand(s) : forgetPending(p) /\ NextRecord(s, p)
    /\ UNCHANGED <<captured, serverVars, worldVars, request>>

\* After a failure the copy that List read is saved back, even over a record
\* another round has sent or forgotten since.
SaveFailed(s, p) ==
    /\ savePending(p, "queued")
    /\ NextRecord(s, p)

\* Bytes that are empty or too large by now are not sent.
Unfit(s) ==
    /\ call[s].at = "next"
    /\ \E p \in InHand(s) \cap spoiled : SaveFailed(s, p)
    /\ UNCHANGED <<captured, serverVars, worldVars, request>>

\* The network fails the attempt before anything reaches the server.
PostFails(s) ==
    /\ call[s].at = "next"
    /\ \E p \in InHand(s) \ spoiled : SaveFailed(s, p)
    /\ Fault
    /\ UNCHANGED <<captured, serverVars, barred, spoiled, month, request>>

\* The app is closed: the table stays, calls and guard are gone, and the
\* server goes on with what it received.
AppCloses ==
    /\ \E s \in FlushCall : call[s].at # "idle"
    /\ call' = [s \in FlushCall |-> Idle]
    /\ inFlight' = NoCall
    /\ request' = {[r EXCEPT !.by = NoCall] : r \in request}
    /\ Fault
    /\ UNCHANGED <<pending, captured, serverVars, barred, spoiled, month>>

----------------------------------------------------------------------------
(* The server *)

\* Mutant: a key without the month.
KeyWithoutMonth(p) == <<p, 0>>

\* objectKeyFor: a document's file is named by its id and the month of the attempt.
objectKeyFor(p) == <<p, month>>

\* Mutant: putBytes without 'wx'.
MayOverwrite(p) == p \notin barred

\* The order is there and in the uploader's scope (404 and 403 otherwise), and putBytes
\* opens with 'wx': an existing file refuses the attempt.
MayWrite(p) == p \notin barred /\ objectKeyFor(p) \notin file

Becomes(r, at) ==
    request' = (request \ {r}) \cup
                  {[r EXCEPT !.at = at, !.month = IF at = "written" THEN month ELSE 0]}

\* Mutant: the write of the bytes is not awaited, and nothing has reached the disk.
BytesNotAwaited(r) ==
    /\ r.at = "arrived"
    /\ Becomes(r, IF MayWrite(r.photo) THEN "written" ELSE "refused")
    /\ UNCHANGED <<deviceVars, serverVars, worldVars>>

\* persist(), first half: the work order is looked up, then the bytes are written.
WriteBytes(r) ==
    /\ r.at = "arrived"
    /\ IF MayWrite(r.photo)
       THEN file' = file \cup {objectKeyFor(r.photo)} /\ Becomes(r, "written")
       ELSE UNCHANGED file /\ Becomes(r, "refused")
    /\ UNCHANGED <<deviceVars, docRow, worldVars>>

\* The row of an upload: a new one, or the old one back in DRAFT with its old key; a
\* deleted one stays deleted.
Upserted(row, m) ==
    IF row = NoRow THEN [status |-> "DRAFT", month |-> m]
    ELSE IF row.status = "DELETED" THEN row
    ELSE [row EXCEPT !.status = "DRAFT"]

\* persist(), second half: the transaction of the row.
WriteRow(r) ==
    /\ r.at = "written"
    /\ docRow' = [docRow EXCEPT ![r.photo] = Upserted(@, r.month)]
    /\ Becomes(r, "done")
    /\ UNCHANGED <<deviceVars, file, worldVars>>

\* The transaction fails: the error goes up and the file stays.
RowFails(r) ==
    /\ r.at = "written"
    /\ Becomes(r, "refused")
    /\ Fault
    /\ UNCHANGED <<deviceVars, serverVars, barred, spoiled, month>>

\* Mutant: a refused upload is taken for a sent one.
AnswerUnread(r) ==
    /\ r.at \in {"done", "refused"}
    /\ request' = request \ {r}
    /\ IF r.by = NoCall THEN UNCHANGED <<pending, inFlight, call>> ELSE SaveSent(r.by, r.photo)
    /\ UNCHANGED <<captured, serverVars, worldVars>>

\* The answer reaches the call that waits for it, if one does.
Answer(r) ==
    /\ r.at \in {"done", "refused"}
    /\ request' = request \ {r}
    /\ IF r.by = NoCall THEN UNCHANGED <<pending, inFlight, call>>
       ELSE IF r.at = "done" THEN SaveSent(r.by, r.photo) ELSE SaveFailed(r.by, r.photo)
    /\ UNCHANGED <<captured, serverVars, worldVars>>

\* The connection breaks or the call times out; the server does not notice.
ConnectionLost(r) ==
    /\ r.by # NoCall
    /\ request' = (request \ {r}) \cup {[r EXCEPT !.by = NoCall]}
    /\ SaveFailed(r.by, r.photo)
    /\ Fault
    /\ UNCHANGED <<captured, serverVars, barred, spoiled, month>>

\* The API process dies with an upload in its hands.
ServerDies(r) ==
    /\ request' = request \ {r}
    /\ IF r.by = NoCall THEN UNCHANGED <<pending, inFlight, call>> ELSE SaveFailed(r.by, r.photo)
    /\ Fault
    /\ UNCHANGED <<captured, serverVars, barred, spoiled, month>>

\* updateMetadata: the document office files a document, or makes it a draft again.
FileDocument(p, status) ==
    /\ p \in Watched /\ docRow[p].status \in {"DRAFT", "FILED"} \ {status}
    /\ docRow' = [docRow EXCEPT ![p].status = status]
    /\ UNCHANGED <<deviceVars, file, worldVars, request>>

\* softDelete: the row is marked, the bytes are kept.
softDelete(p) ==
    /\ p \in Watched /\ docRow[p].status \in {"DRAFT", "FILED"}
    /\ docRow' = [docRow EXCEPT ![p].status = "DELETED"]
    /\ UNCHANGED <<deviceVars, file, worldVars, request>>

----------------------------------------------------------------------------
(* The world *)

\* The order is deleted, or leaves the scope of the photo's uploader ...
OrderBarred(p) ==
    /\ p \in Watched \ barred
    /\ barred' = barred \cup {p}
    /\ UNCHANGED <<deviceVars, serverVars, request, spoiled, month, faults>>

\* ... and may come back into it.
ScopeReturns(p) ==
    /\ p \in barred
    /\ barred' = barred \ {p}
    /\ UNCHANGED <<deviceVars, serverVars, request, spoiled, month, faults>>

\* The store of the device damages a record that is in no round's hands.
BytesSpoiled(p) ==
    /\ p \in Watched \ spoiled /\ pending[p] = "queued"
    /\ \A s \in FlushCall : p \notin call[s].round
    /\ spoiled' = spoiled \cup {p}
    /\ Fault
    /\ UNCHANGED <<deviceVars, serverVars, request, barred, month>>

MonthTurns ==
    /\ month < LastMonth
    /\ month' = month + 1
    /\ UNCHANGED <<deviceVars, serverVars, request, barred, spoiled, faults>>

FlushStep(s) == List(s) \/ Post(s) \/ Unfit(s) \/ Forget(s)
HandlerStep(r) == WriteBytes(r) \/ WriteRow(r) \/ Answer(r)

UploadNext ==
    \/ \E s \in FlushCall : Add(s) \/ Nudge(s) \/ FlushStep(s) \/ ListOffline(s) \/ PostFails(s)
    \/ \E r \in request : HandlerStep(r) \/ RowFails(r) \/ ConnectionLost(r) \/ ServerDies(r)
    \/ AppCloses
    \/ \E p \in Photo : softDelete(p) \/ OrderBarred(p) \/ ScopeReturns(p) \/ BytesSpoiled(p)
    \/ \E p \in Photo, status \in {"DRAFT", "FILED"} : FileDocument(p, status)
    \/ MonthTurns

\* A started round and a received request go on by themselves, and time passes.
\* Nothing is assumed of who calls flush(): no timer of the code does.
UploadFairness ==
    /\ \A s \in FlushCall : WF_uploadVars(FlushStep(s))
    /\ \A s \in FlushCall \cup {NoCall} :
          WF_uploadVars(\E r \in request : r.by = s /\ HandlerStep(r))
    /\ WF_uploadVars(MonthTurns)

UploadSpec == UploadInit /\ [][UploadNext]_uploadVars
FairUploadSpec == UploadSpec /\ UploadFairness

----------------------------------------------------------------------------
(* Properties *)

\* A document that can be found can be read, and a deleted one can be reviewed: whatever
\* dies between the file and the row, every row, a deleted one too, names bytes that are
\* on disk (documents.service.ts:240 and :299-331, and the 404 of contentDescriptor).
RowHasBytes ==
    \A p \in Photo : docRow[p] # NoRow => <<p, docRow[p].month>> \in file

\* Besides the office itself, only an upload of another month makes a filed document a
\* draft again: within a month the 'wx' of putBytes keeps every late duplicate, retry and
\* resend away from the row (document-store.ts:50, documents.service.ts:304).
FiledStaysFiledInItsMonth ==
    [][\A p \in Photo :
          (docRow[p].status = "FILED" /\ docRow'[p].status = "DRAFT")
             => \/ UNCHANGED <<deviceVars, file, worldVars, request>>
                \/ \E r \in request : /\ r.photo = p /\ r.at = "written"
                                      /\ r.month # docRow[p].month]_uploadVars

\* The queue keeps the promise of the abstract outbox: a photo leaves the
\* device's queue only when the server has its row, through retries, duplicate
\* rounds, deaths and lost answers (documents.ts:273-285).
Box == INSTANCE Outbox WITH
         Item <- Photo,
         waiting <- {p \in Photo : pending[p] = "queued"},
         taken <- {p \in Photo : docRow[p] # NoRow}
KeepsPhotos == Box!Spec

\* A photo the server refuses for as long as its month lasts or the device will not send,
\* and a photo with a round's worth of such photos before it.
Refused(p) == p \in barred \cup spoiled \/ objectKeyFor(p) \in file
Blocked(p) ==
    \/ p \in barred \cup spoiled
    \/ Cardinality({q \in 1..(p - 1) : pending[q] = "queued" /\ Refused(q)}) >= NudgeLimit

\* A photo that waits reaches the server, faults and a half-written upload
\* notwithstanding, if the queue is read again and again while the device is online
\* (only a save, a session or "sync now" calls flush) and the photo is not for ever
\* behind a full round of refused records (documents.ts:251-265).
EveryPhotoArrives ==
    \A p \in Photo :
       ([]<><<\E s \in FlushCall : List(s)>>_uploadVars /\ <>[]~Blocked(p))
       => (pending[p] = "queued" ~> docRow[p] # NoRow)
=============================================================================
