---------------------------- MODULE DeviceStores ----------------------------
(***************************************************************************)
(* The three stores a device can have: MemoryStore of packages/domain,     *)
(* which is the reference, DexieStore of the desktop and SqliteStore of    *)
(* the phone.  The same calls are made on all three, in the orders the     *)
(* screens and the sync cycles of a device can make them, and what the     *)
(* stores hold is compared.                                                *)
(***************************************************************************)
EXTENDS Naturals, Sequences, FiniteSets, SequencesExt

CONSTANTS
    StoreRec,     \* the records a technician edits
    MaxEdits,     \* edits made; they are numbered by clientTimestamp
    StoreCall,    \* slots for the cycles in progress
    MaxCycles,    \* sync cycles
    MaxWipes      \* full resynchronisations

ASSUME StoreAssumption == MaxEdits \in Nat

\* resolveConflict names the operation it sends anew after the one it replaces.
OpId == (1..MaxEdits) \X {"first", "forced"}

VARIABLES
    memQueue,     \* MemoryStore.queue: rows in the order they were added
    sqlQueue,     \* the table pendingOps of SQLite, in the order of rowid
    dexQueue,     \* the table pendingOps of IndexedDB, a set keyed by opId
    memRecs, sqlRecs, dexRecs,     \* the keys of the tables of records
    openConflicts,                 \* the table of conflicts, the same in all three
    editing,      \* edits between the two writes of SyncClient.queue
    edits,        \* edits made so far
    tapped,       \* "keep mine" taps that have read their conflict
    storeCall,    \* [StoreCall -> what a cycle is about to do]
    overtakenOps, \* operations removed while IndexedDB's failPending had read them
    tornRecs,     \* records wiped while an edit of them was being saved
    wipes, cycles

storeVars == <<memQueue, sqlQueue, dexQueue, memRecs, sqlRecs, dexRecs, openConflicts,
               editing, edits, tapped, storeCall, overtakenOps, tornRecs, wipes, cycles>>
queues == <<memQueue, sqlQueue, dexQueue>>
records == <<memRecs, sqlRecs, dexRecs>>
storeHistory == <<tornRecs, wipes, cycles>>

IdleStoreCall == [at |-> "idle"]
QueueRow(o, r) == [id |-> o, rec |-> r, tries |-> 0]
Ids(rows) == {row.id : row \in rows}

StoreInit ==
    /\ memQueue = <<>> /\ sqlQueue = <<>> /\ dexQueue = {}
    /\ memRecs = {} /\ sqlRecs = {} /\ dexRecs = {} /\ openConflicts = {}
    /\ editing = {} /\ edits = 0 /\ tapped = {}
    /\ storeCall = [k \in StoreCall |-> IdleStoreCall]
    /\ overtakenOps = {} /\ tornRecs = {} /\ wipes = 0 /\ cycles = 0

-----------------------------------------------------------------------------
(* The queue of operations in the three stores                             *)

Has(queue, o) == o \in Ids(ToSet(queue))
\* An operation is queued once at most: filtering it out removes one row, or none.
Without(queue, o) ==
    IF Has(queue, o) THEN RemoveAt(queue, CHOOSE i \in DOMAIN queue : queue[i].id = o) ELSE queue
TriedAgain(row) == [row EXCEPT !.tries = row.tries + 1]

\* MemoryStore.  An operation that is queued already is left alone.
MemAddPending(queue, row) == IF Has(queue, row.id) THEN queue ELSE Append(queue, row)
MemResolvePending(queue, o) == Without(queue, o)
MemFailPending(queue, o) ==
    [i \in DOMAIN queue |-> IF queue[i].id = o THEN TriedAgain(queue[i]) ELSE queue[i]]

\* SqliteStore.  INSERT ... ON CONFLICT DO NOTHING; each call is one statement.
SqlAddPending(queue, row) == IF Has(queue, row.id) THEN queue ELSE Append(queue, row)
SqlResolvePending(queue, o) == Without(queue, o)
SqlFailPending(queue, o) ==
    [i \in DOMAIN queue |-> IF queue[i].id = o THEN TriedAgain(queue[i]) ELSE queue[i]]

\* DexieStore.  A put replaces the row of that key, with no attempts.
DexAddPending(rows, row) == {r \in rows : r.id # row.id} \cup {row}
DexResolvePending(rows, o) == {r \in rows : r.id # o}

AddPending(row) ==
    /\ memQueue' = MemAddPending(memQueue, row)
    /\ sqlQueue' = SqlAddPending(sqlQueue, row)
    /\ dexQueue' = DexAddPending(dexQueue, row)
ResolvePending(o) ==
    /\ memQueue' = MemResolvePending(memQueue, o)
    /\ sqlQueue' = SqlResolvePending(sqlQueue, o)
    /\ dexQueue' = DexResolvePending(dexQueue, o)

\* The table of conflicts is keyed by opId: a second conflict of an operation replaces
\* the first, in SQLite too, whose update leaves out an outcome that is always CONFLICT.
AddConflict(rows, c) == {d \in rows : d.id # c.id} \cup {c}
ClearConflict(rows, o) == {d \in rows : d.id # o}

WriteRecord(r) ==
    /\ memRecs' = memRecs \cup {r}
    /\ sqlRecs' = sqlRecs \cup {r}
    /\ dexRecs' = dexRecs \cup {r}

-----------------------------------------------------------------------------
(* The screens                                                             *)

\* SyncClient.queue writes the record, a tombstone for a deletion, and then ...
EditWrite(r) ==
    /\ edits < MaxEdits
    /\ edits' = edits + 1
    /\ editing' = editing \cup {QueueRow(<<edits + 1, "first">>, r)}
    /\ WriteRecord(r)
    /\ UNCHANGED <<queues, openConflicts, tapped, storeCall, storeHistory>>

\* ... queues the operation, a step the wipe of a cycle can come before.
EditAdd(row) ==
    /\ editing' = editing \ {row}
    /\ AddPending(row)
    /\ UNCHANGED <<records, openConflicts, edits, tapped, storeCall, storeHistory>>

\* resolveConflict('server'): the server's record and no operation.
TakeServer(c) ==
    /\ WriteRecord(c.rec)
    /\ openConflicts' = ClearConflict(openConflicts, c.id)
    /\ ResolvePending(c.id)
    /\ UNCHANGED <<editing, edits, tapped, storeCall, storeHistory>>

\* resolveConflict('local') reads the conflict, maybe for two taps ...
Tap(c, n) ==
    /\ c.id[2] = "first" /\ <<c, n>> \notin tapped
    /\ tapped' = tapped \cup {<<c, n>>}
    /\ UNCHANGED <<queues, records, openConflicts, editing, edits, storeCall, storeHistory>>

\* ... and replaces the operation by a forced one, which is a conflict on the screen too.
TakeLocal(tap) ==
    LET c == tap[1]
        forced == <<c.id[1], "forced">>
        row == QueueRow(forced, c.rec)
    IN  /\ tapped' = tapped \ {tap}
        /\ openConflicts' = ClearConflict(AddConflict(openConflicts, [id |-> forced, rec |-> c.rec]), c.id)
        /\ memQueue' = MemAddPending(MemResolvePending(memQueue, c.id), row)
        /\ sqlQueue' = SqlAddPending(SqlResolvePending(sqlQueue, c.id), row)
        /\ dexQueue' = DexAddPending(DexResolvePending(dexQueue, c.id), row)
        /\ UNCHANGED <<records, editing, edits, storeCall, storeHistory>>

-----------------------------------------------------------------------------
(* A sync cycle: what it read from the queue, answer by answer             *)

StoreCycle(k) ==
    /\ storeCall[k].at = "idle" /\ dexQueue # {}
    /\ cycles < MaxCycles /\ cycles' = cycles + 1
    /\ storeCall' = [storeCall EXCEPT ![k] = [at |-> "answers", rows |-> dexQueue]]
    /\ UNCHANGED <<queues, records, openConflicts, editing, edits, tapped, tornRecs, wipes>>

Consumed(k, row) ==
    LET left == storeCall[k].rows \ {row}
    IN  IF left = {} THEN IdleStoreCall ELSE [storeCall[k] EXCEPT !.rows = left]

\* APPLIED or MERGED: the operation leaves the queue, the record gets the server's version.
\* A conflict of that name stays: it is cleared on DEDUPLICATED alone, and the server repeats
\* the outcome it recorded (sync-engine.service.ts:130).
AcceptedAnswer(k, row) ==
    /\ ResolvePending(row.id)
    /\ storeCall' = [storeCall EXCEPT ![k] = Consumed(k, row)]
    /\ UNCHANGED <<records, openConflicts, editing, edits, tapped, storeHistory>>

\* CONFLICT: kept with the server's record, and that record merged into the device's; also
\* for an operation another cycle's request was accepted with.
ConflictAnswer(k, row) ==
    /\ openConflicts' = AddConflict(openConflicts, [id |-> row.id, rec |-> row.rec])
    /\ WriteRecord(row.rec)
    /\ storeCall' = [storeCall EXCEPT ![k] = Consumed(k, row)]
    /\ UNCHANGED <<queues, editing, edits, tapped, storeHistory>>

\* Mutant: IndexedDB puts the row whether it was there or not.
RefusedUnlooked(k, row) ==
    /\ memQueue' = MemFailPending(memQueue, row.id)
    /\ sqlQueue' = SqlFailPending(sqlQueue, row.id)
    /\ storeCall' = [storeCall EXCEPT ![k] =
                        [at |-> "rewrite", row |-> row, next |-> Consumed(k, row)]]
    /\ UNCHANGED <<dexQueue, records, openConflicts, editing, edits, tapped, storeHistory>>
\* REJECTED: memory and SQLite count the attempt in one step; IndexedDB reads the row,
\* does nothing when it is gone, ...
RefusedAnswer(k, row) ==
    /\ memQueue' = MemFailPending(memQueue, row.id)
    /\ sqlQueue' = SqlFailPending(sqlQueue, row.id)
    /\ LET held == {r \in dexQueue : r.id = row.id}
           next == Consumed(k, row)
       IN  storeCall' = [storeCall EXCEPT ![k] =
                           IF held = {} THEN next
                           ELSE [at |-> "rewrite", row |-> CHOOSE r \in held : TRUE, next |-> next]]
    /\ UNCHANGED <<dexQueue, records, openConflicts, editing, edits, tapped, storeHistory>>

\* ... and puts the row it read, which an answer to another cycle may have removed.
DexRewrite(k) ==
    /\ storeCall[k].at = "rewrite"
    /\ dexQueue' = DexAddPending(dexQueue, TriedAgain(storeCall[k].row))
    /\ storeCall' = [storeCall EXCEPT ![k] = storeCall[k].next]
    /\ UNCHANGED <<memQueue, sqlQueue, records, openConflicts, editing, edits, tapped,
                   storeHistory>>

\* wipeRemoteRecords keeps the records of queued operations.  MemoryStore has none, so
\* a device with it keeps all.
DexWipe(recs, rows) == recs \cap {row.rec : row \in rows}
\* Mutant: every record goes.
SqlWipeAll(recs, rows) == {}
SqlWipe(recs, rows) == recs \cap {row.rec : row \in rows}
StoreWipe ==
    /\ wipes < MaxWipes /\ wipes' = wipes + 1
    /\ dexRecs' = DexWipe(dexRecs, dexQueue)
    /\ sqlRecs' = SqlWipe(sqlRecs, ToSet(sqlQueue))
    /\ tornRecs' = tornRecs \cup {row.rec : row \in editing}
    /\ UNCHANGED <<queues, memRecs, openConflicts, editing, edits, tapped, storeCall,
                   cycles>>

-----------------------------------------------------------------------------
StoreSteps ==
    \/ \E r \in StoreRec : EditWrite(r)
    \/ \E row \in editing : EditAdd(row)
    \/ \E c \in openConflicts : TakeServer(c) \/ \E n \in 1..2 : Tap(c, n)
    \/ \E tap \in tapped : TakeLocal(tap)
    \/ \E k \in StoreCall :
          \/ StoreCycle(k)
          \/ /\ storeCall[k].at = "answers"
             /\ \E row \in storeCall[k].rows :
                   AcceptedAnswer(k, row) \/ ConflictAnswer(k, row) \/ RefusedAnswer(k, row)
          \/ DexRewrite(k)
    \/ StoreWipe

\* Removed under a row some failPending has read and not yet put.
Overtaken ==
    {o \in Ids(dexQueue) \ Ids(dexQueue') :
       \E k \in StoreCall : storeCall[k].at = "rewrite" /\ storeCall[k].row.id = o}

StoreNext ==
    /\ StoreSteps
    /\ overtakenOps' = overtakenOps \cup Overtaken

StoreSpec == StoreInit /\ [][StoreNext]_storeVars

-----------------------------------------------------------------------------
(* Properties                                                              *)

\* SQLite holds the operations the reference store holds, with the same attempts and in
\* the same order, and IndexedDB holds them too; an operation only IndexedDB still has was
\* removed between the two steps of a failPending (dexieStore.ts:143-147), which overlapping
\* cycles and decisions on a conflict make possible.
StoresAgreeOnQueue ==
    /\ sqlQueue = memQueue
    /\ Ids(ToSet(memQueue)) \subseteq Ids(dexQueue)
    /\ Ids(dexQueue) \ Ids(ToSet(memQueue)) \subseteq overtakenOps

\* A technician reads what was typed and not yet sent: while an edit is queued its record
\* is there, in each store, whatever cycles and full resynchronisations ran in between
\* (client.ts:450-454).  The exceptions are an edit that was being saved during a wipe
\* and one that a late failPending wrote back.
UnsentEditIsReadable ==
    LET readable(rows, recs) ==
            \A row \in rows :
               row.id[2] = "first" /\ row.id \notin overtakenOps => row.rec \in recs \cup tornRecs
    IN  /\ readable(ToSet(memQueue), memRecs)
        /\ readable(ToSet(sqlQueue), sqlRecs)
        /\ readable(dexQueue, dexRecs)
=============================================================================
