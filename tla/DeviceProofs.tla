---------------------------- MODULE DeviceProofs ----------------------------
(***************************************************************************)
(* What holds of a device.  Of its scheduler, for any number of            *)
(* overlapping cycles and any feed: the heartbeat of a started device is   *)
(* never lost, and the stored cursor claims no change the device does not  *)
(* show.  Of its stores, for any number of records, edits, cycles and      *)
(* wipes: they hold the same operations, and what was typed and not yet    *)
(* sent can be read in each of them.                                       *)
(***************************************************************************)
EXTENDS DeviceScheduler, DeviceStores, SequenceTheorems, TLAPS

CyclePlace == {"idle", "read", "pull", "save", "wipe", "zero", "stats"}
CycleKind == {"none", "timer", "nudge", "now", "full"}

\* What the handle, the cycles and the store can hold.
SchedTypeOK ==
    /\ platform \in {"desktop", "phone"}
    /\ started \in BOOLEAN /\ timer \in BOOLEAN /\ nudger \in BOOLEAN
    /\ token \in BOOLEAN /\ crossed \in BOOLEAN
    /\ statsWait \in Nat
    /\ cyc \in [Cyc -> [at : CyclePlace, kind : CycleKind, pos : Nat]]
    /\ have \subseteq Nat /\ pullCursor \in Nat /\ feedEnd \in Nat

\* CursorIsHonest and what it rests on: without a crossing, no cycle pulls while another
\* wipes; a pulling cycle has shown all it passed; and a desktop about to wipe has already
\* stored the cursor zero.
CursorInv ==
    crossed \/
        /\ ~Crossing
        /\ \A c \in Cyc : Pulling(c) => 1..cyc[c].pos \subseteq have
        /\ \A c \in Cyc : cyc[c].at = "wipe" /\ cyc[c].kind # "full" => pullCursor = 0
        /\ (\E c \in Cyc : cyc[c].at = "zero") \/ 1..pullCursor \subseteq have

SchedInv == SchedTypeOK /\ HeartbeatNeverStops /\ CursorInv

\* A device that has just been opened.
LEMMA SchedInitInv == SchedInit => SchedInv
<1> SUFFICES ASSUME SchedInit PROVE SchedInv
  OBVIOUS
<1>1. SchedTypeOK
  BY DEF SchedInit, SchedTypeOK, NoCycle, CyclePlace, CycleKind
<1>2. HeartbeatNeverStops
  BY DEF SchedInit, HeartbeatNeverStops
<1>3. CursorInv
  BY DEF SchedInit, CursorInv, Crossing, Wiping, Pulling, NoCycle
<1> QED
  BY <1>1, <1>2, <1>3 DEF SchedInv

-----------------------------------------------------------------------------
(* Types                                                                   *)

\* A cycle that is begun, moved or ended is a cycle again.
LEMMA CycleTypes ==
  ASSUME SchedTypeOK, NEW c \in Cyc
  PROVE  /\ \A kind \in CycleKind, at \in CyclePlace : Begin(c, kind, at) =>
              cyc' \in [Cyc -> [at : CyclePlace, kind : CycleKind, pos : Nat]]
         /\ \A at \in CyclePlace, pos \in Nat : To(c, at, pos) =>
              cyc' \in [Cyc -> [at : CyclePlace, kind : CycleKind, pos : Nat]]
  BY DEF SchedTypeOK, Begin, To

\* The steps of the handle and of the world.
LEMMA HandleTypes ==
  ASSUME SchedTypeOK,
         StartDesktop \/ StartPhone \/ StatsRead \/ StopHandle \/ NudgeHandle
           \/ ServerChanges \/ SessionToken \/ AppDies,
         crossed' \in BOOLEAN
  PROVE  SchedTypeOK'
<1>1. CASE StartDesktop \/ StartPhone \/ StatsRead
  <2>1. statsWait' \in Nat
    BY <1>1 DEF SchedTypeOK, StartDesktop, StartPhone, StatsRead
  <2> QED
    BY <1>1, <2>1, Zenon DEF SchedTypeOK, StartDesktop, StartPhone, StatsRead
<1>2. CASE StopHandle \/ NudgeHandle
  BY <1>2 DEF SchedTypeOK, StopHandle, NudgeHandle
<1>3. CASE ServerChanges \/ SessionToken
  <2>1. feedEnd' \in Nat
    BY <1>3 DEF SchedTypeOK, ServerChanges, SessionToken
  <2>2. token' \in BOOLEAN
    BY <1>3, Zenon DEF SchedTypeOK, ServerChanges, SessionToken
  <2> QED
    BY <1>3, <2>1, <2>2 DEF SchedTypeOK, ServerChanges, SessionToken, timers
<1>4. CASE AppDies
  BY <1>4 DEF SchedTypeOK, AppDies, NoCycle, CyclePlace, CycleKind
<1> QED
  BY <1>1, <1>2, <1>3, <1>4

\* A timer, a nudge or a button begins a cycle.
LEMMA BeginTypes ==
  ASSUME SchedTypeOK, NEW c \in Cyc, crossed' \in BOOLEAN,
         TimerFires(c) \/ NudgeFires(c) \/ SyncNow(c) \/ ForceFullResync(c)
  PROVE  SchedTypeOK'
<1>1. cyc' \in [Cyc -> [at : CyclePlace, kind : CycleKind, pos : Nat]]
  BY CycleTypes DEF SchedTypeOK, TimerFires, NudgeFires, SyncNow, ForceFullResync, CyclePlace,
                    CycleKind
<1> QED
  BY <1>1 DEF SchedTypeOK, TimerFires, NudgeFires, SyncNow, ForceFullResync, timers

\* The steps of a cycle.
LEMMA StepTypes ==
  ASSUME SchedTypeOK, NEW c \in Cyc, crossed' \in BOOLEAN, CycleSteps(c)
  PROVE  SchedTypeOK'
<1>1. cyc[c] \in [at : CyclePlace, kind : CycleKind, pos : Nat]
  BY DEF SchedTypeOK
<1>2. CASE CycleEnds(c)
  BY <1>2 DEF CycleEnds, SchedTypeOK, NoCycle, CyclePlace, CycleKind
<1>3. CASE ReadCursor(c) \/ PullNothing(c) \/ CycleFails(c)
  BY <1>1, <1>3 DEF ReadCursor, PullNothing, CycleFails, To, Over, SchedTypeOK, CyclePlace, timers
<1>4. CASE PullPage(c)
  BY <1>1, <1>4 DEF PullPage, To, SchedTypeOK, CyclePlace, timers
<1>5. CASE SaveCursor(c) \/ ZeroCursor(c)
  BY <1>1, <1>5 DEF SaveCursor, ZeroCursor, To, Over, SchedTypeOK, CyclePlace, timers
<1>6. CASE ResyncAsked(c) \/ Wipe(c)
  BY <1>1, <1>6 DEF ResyncAsked, Wipe, To, Over, SchedTypeOK, CyclePlace, timers
<1> QED
  BY <1>2, <1>3, <1>4, <1>5, <1>6 DEF CycleSteps

-----------------------------------------------------------------------------
(* The heartbeat                                                           *)

\* No step takes the heartbeat from a started device.
LEMMA HeartbeatStep ==
  ASSUME SchedTypeOK, HeartbeatNeverStops, SchedNext
  PROVE  HeartbeatNeverStops'
<1>1. CASE StartDesktop \/ StartPhone \/ StatsRead
  <2>1. timer' \/ statsWait' > 0
    BY <1>1 DEF SchedTypeOK, StartDesktop, StartPhone, StatsRead
  <2> QED
    BY <2>1 DEF HeartbeatNeverStops
<1>2. CASE StopHandle \/ AppDies
  BY <1>2 DEF HeartbeatNeverStops, StopHandle, AppDies
<1>5. CASE NudgeHandle \/ ServerChanges \/ SessionToken
  BY <1>5 DEF HeartbeatNeverStops, NudgeHandle, ServerChanges, SessionToken, timers
<1>6. ASSUME NEW c \in Cyc, TimerFires(c)
      PROVE  HeartbeatNeverStops'
  <2>1. CASE token
    BY <1>6, <2>1 DEF HeartbeatNeverStops, SchedTypeOK, TimerFires, Begin
  <2>2. CASE ~token
    BY <1>6, <2>2 DEF HeartbeatNeverStops, TimerFires
  <2> QED
    BY <2>1, <2>2
<1>7. ASSUME NEW c \in Cyc, NudgeFires(c) \/ SyncNow(c) \/ ForceFullResync(c)
      PROVE  HeartbeatNeverStops'
  <2>1. /\ UNCHANGED <<started, timer, statsWait>>
        /\ \A d \in Cyc : cyc[d].at = "idle" \/ cyc'[d] = cyc[d]
    BY <1>7 DEF NudgeFires, SyncNow, ForceFullResync, Begin, SchedTypeOK, timers
  <2> QED
    BY <2>1 DEF HeartbeatNeverStops
<1>3. ASSUME NEW c \in Cyc, CycleSteps(c), ~CycleEnds(c)
      PROVE  HeartbeatNeverStops'
  <2>1. /\ UNCHANGED timers
        /\ \A d \in Cyc : cyc'[d].kind = cyc[d].kind /\ (cyc[d].at # "idle" => cyc'[d].at # "idle")
    BY <1>3 DEF CycleSteps, ReadCursor, PullPage, PullNothing, SaveCursor, ResyncAsked,
                Wipe, ZeroCursor, CycleFails, SchedTypeOK, To, Over, timers
  <2> QED
    BY <2>1 DEF HeartbeatNeverStops, timers
<1>4. ASSUME NEW c \in Cyc, CycleEnds(c)
      PROVE  HeartbeatNeverStops'
  BY <1>4 DEF CycleEnds, HeartbeatNeverStops, SchedTypeOK
<1> QED
  BY <1>1, <1>2, <1>3, <1>4, <1>5, <1>6, <1>7 DEF SchedNext

-----------------------------------------------------------------------------
(* The cursor                                                              *)

\* The steps of the handle and of the world leave the cursor honest.
LEMMA CursorHandleStep ==
  ASSUME SchedTypeOK, CursorInv, ~crossed, ~Crossing', ~DiesInWipe,
         StartDesktop \/ StartPhone \/ StatsRead \/ StopHandle \/ NudgeHandle
           \/ ServerChanges \/ SessionToken \/ AppDies
  PROVE  CursorInv'
<1>1. CASE AppDies
  BY <1>1 DEF CursorInv, AppDies, NoCycle, Pulling, DiesInWipe
<1>2. CASE ~AppDies
  <2>1. UNCHANGED <<cyc, have, pullCursor>>
    BY <1>2 DEF StartDesktop, StartPhone, StatsRead, StopHandle, NudgeHandle, ServerChanges,
                SessionToken
  <2> QED
    BY <2>1 DEF CursorInv, Pulling
<1> QED
  BY <1>1, <1>2

\* A cycle that begins takes nothing from the others.
LEMMA CursorBeginStep ==
  ASSUME SchedTypeOK, CursorInv, ~crossed, ~Crossing', NEW c \in Cyc,
         TimerFires(c) \/ NudgeFires(c) \/ SyncNow(c) \/ ForceFullResync(c)
  PROVE  CursorInv'
<1>1. /\ UNCHANGED <<have, pullCursor>>
      /\ \A d \in Cyc : \/ cyc'[d] = cyc[d]
                        \/ /\ cyc[d].at = "idle"
                           /\ \/ cyc'[d].at = "read"
                              \/ cyc'[d].at = "wipe" /\ cyc'[d].kind = "full"
  BY DEF TimerFires, NudgeFires, SyncNow, ForceFullResync, Begin, SchedTypeOK
<1> QED
  BY <1>1 DEF CursorInv, Pulling

\* So do the steps of a cycle.
LEMMA CursorCycleStep ==
  ASSUME SchedTypeOK, CursorInv, ~crossed, ~Crossing', NEW c \in Cyc, CycleSteps(c)
  PROVE  CursorInv'
<1> DEFINE same == \A d \in Cyc \ {c} : cyc'[d] = cyc[d]
<1>1. /\ same
      /\ cyc[c] \in [at : CyclePlace, kind : CycleKind, pos : Nat]
      /\ cyc'[c] \in [at : CyclePlace, kind : CycleKind, pos : Nat]
      /\ pullCursor \in Nat
  <2>1. /\ \A kind, at : Begin(c, kind, at) => same
        /\ \A at, pos : To(c, at, pos) => same
    BY DEF Begin, To, SchedTypeOK
  <2>2. same
    BY <2>1 DEF CycleSteps, ReadCursor, PullPage, PullNothing, SaveCursor, ResyncAsked, Wipe,
                ZeroCursor, CycleFails, CycleEnds, SchedTypeOK, Over
  <2>3. SchedTypeOK /\ (crossed' \in BOOLEAN => SchedTypeOK')
    BY StepTypes
  <2> QED
    BY <2>2 DEF SchedTypeOK, CycleSteps, ReadCursor, PullPage, PullNothing, SaveCursor,
                ResyncAsked, Wipe, ZeroCursor, CycleFails, CycleEnds, To, Over, NoCycle,
                CyclePlace, CycleKind
<1> USE <1>1
<1>2. CASE ReadCursor(c)
  <2>1. ~\E d \in Cyc : Wiping(d)
    BY <1>2 DEF ReadCursor, To, SchedTypeOK, Crossing, Wiping, Pulling
  <2> QED
    BY <1>2, <2>1 DEF ReadCursor, To, SchedTypeOK, CursorInv, Wiping, Pulling
<1>3. CASE PullPage(c)
  BY <1>3 DEF PullPage, To, SchedTypeOK, CursorInv, Pulling
<1>4. CASE PullNothing(c)
  BY <1>4 DEF PullNothing, To, SchedTypeOK, CursorInv, Pulling
<1>5. CASE SaveCursor(c)
  BY <1>5 DEF SaveCursor, To, Over, SchedTypeOK, CursorInv, Pulling, Wiping, Crossing
<1>6. CASE ResyncAsked(c)
  BY <1>6 DEF ResyncAsked, To, Over, SchedTypeOK, CursorInv, Pulling
<1>7. CASE Wipe(c)
  BY <1>7 DEF Wipe, To, Over, SchedTypeOK, CursorInv, Pulling, Wiping, Crossing
<1>8. CASE ZeroCursor(c)
  BY <1>8 DEF ZeroCursor, To, SchedTypeOK, CursorInv, Pulling
<1>9. CASE CycleFails(c)
  BY <1>9 DEF CycleFails, To, Over, SchedTypeOK, CursorInv, Pulling
<1>10. CASE CycleEnds(c)
  BY <1>10 DEF CycleEnds, NoCycle, SchedTypeOK, CursorInv, Pulling
<1> QED
  BY <1>2, <1>3, <1>4, <1>5, <1>6, <1>7, <1>8, <1>9, <1>10 DEF CycleSteps

-----------------------------------------------------------------------------
\* The invariant of the scheduler is inductive.
LEMMA SchedInvStep == SchedInv /\ [SchedNext]_schedVars => SchedInv'
<1> SUFFICES ASSUME SchedInv, [SchedNext]_schedVars PROVE SchedInv'
  OBVIOUS
<1>1. CASE SchedNext
  <2>1. crossed' \in BOOLEAN /\ crossed' = (crossed \/ DiesInWipe \/ Crossing')
    BY <1>1 DEF SchedNext, SchedInv, SchedTypeOK
  <2>2. SchedTypeOK'
    BY <1>1, <2>1, HandleTypes, BeginTypes, StepTypes DEF SchedNext, SchedInv
  <2>3. HeartbeatNeverStops'
    BY <1>1, HeartbeatStep DEF SchedInv
  <2>4. CursorInv'
    <3>1. CASE crossed'
      BY <3>1 DEF CursorInv
    <3>2. CASE ~crossed'
      BY <1>1, <2>1, <3>2, CursorHandleStep, CursorBeginStep, CursorCycleStep
         DEF SchedNext, SchedInv
    <3> QED
      BY <3>1, <3>2
  <2> QED
    BY <2>2, <2>3, <2>4 DEF SchedInv
<1>2. CASE UNCHANGED schedVars
  BY <1>2 DEF schedVars, SchedInv, SchedTypeOK, HeartbeatNeverStops, CursorInv, Crossing,
              Wiping, Pulling
<1> QED
  BY <1>1, <1>2

\* And holds in every state.
LEMMA SchedInvAlways == SchedSpec => []SchedInv
  BY SchedInitInv, SchedInvStep, PTL DEF SchedSpec

\* A started device never stops synchronising: for any nudges, stops, restarts, deaths and
\* overlapping cycles its heartbeat is armed, or a cycle that arms it is running.
THEOREM HeartbeatIsNeverLost == SchedSpec => []HeartbeatNeverStops
<1>1. SchedInv => HeartbeatNeverStops
  BY DEF SchedInv
<1> QED
  BY <1>1, SchedInvAlways, PTL

\* The device shows every change its cursor claims, for any feed and any number of cycles,
\* but for the crossings the property names.
THEOREM CursorStaysHonest == SchedSpec => []CursorIsHonest
<1>1. SchedInv => CursorIsHonest
  BY DEF SchedInv, CursorInv, CursorIsHonest
<1> QED
  BY <1>1, SchedInvAlways, PTL

-----------------------------------------------------------------------------
(* Sequences                                                               *)

\* A sequence without its element at n.
LEMMA RemovalFacts ==
  ASSUME NEW S, NEW q \in Seq(S), NEW n \in 1..Len(q), NEW rest, rest = RemoveAt(q, n)
  PROVE  /\ rest \in Seq(S) /\ Len(rest) = Len(q) - 1 /\ DOMAIN rest = 1..(Len(q) - 1)
         /\ \A i \in 1..(n - 1) : i \in DOMAIN rest /\ rest[i] = q[i]
         /\ \A i \in n..(Len(q) - 1) : i \in DOMAIN rest /\ rest[i] = q[i + 1]
<1> DEFINE a == SubSeq(q, 1, n - 1)
           b == SubSeq(q, n + 1, Len(q))
<1>0. Len(q) \in Nat /\ n \in Nat /\ 1 <= n /\ n <= Len(q)
  BY LenProperties
<1>1. a \in Seq(S) /\ Len(a) = n - 1 /\ \A i \in 1..(n - 1) : a[i] = q[i]
  BY <1>0
<1>2. b \in Seq(S) /\ Len(b) = Len(q) - n
      /\ \A i \in 1..(Len(q) - n) : b[i] = q[n + i]
  BY <1>0
<1>3. rest = a \o b
  BY DEF RemoveAt
<1> HIDE DEF a, b
<1>0a. a \in Seq(S) /\ b \in Seq(S)
  BY <1>1, <1>2
<1>0b. /\ a \o b \in Seq(S) /\ Len(a \o b) = Len(a) + Len(b)
       /\ \A i \in 1..(Len(a) + Len(b)) :
             (a \o b)[i] = IF i <= Len(a) THEN a[i] ELSE b[i - Len(a)]
  BY <1>0a, ConcatProperties
<1> DEFINE l == Len(a)
           m == Len(b)
<1>4. /\ rest \in Seq(S) /\ Len(rest) = l + m
      /\ \A i \in 1..(l + m) : rest[i] = IF i <= l THEN a[i] ELSE b[i - l]
  BY <1>0b, <1>3
<1>5. l = n - 1 /\ m = Len(q) - n
  BY <1>1, <1>2
<1> HIDE DEF l, m
<1>6. DOMAIN rest = 1..Len(rest) /\ Len(rest) = Len(q) - 1
  <2>1. DOMAIN rest = 1..Len(rest)
    BY <1>4, LenProperties
  <2>2. l + m = Len(q) - 1
    BY <1>0, <1>5
  <2> QED
    BY <1>4, <2>1, <2>2
<1>7. ASSUME NEW i \in 1..(n - 1) PROVE i \in DOMAIN rest /\ rest[i] = q[i]
  BY <1>0, <1>1, <1>4, <1>5, <1>6
<1>8. ASSUME NEW i \in n..(Len(q) - 1) PROVE i \in DOMAIN rest /\ rest[i] = q[i + 1]
  <2>1. i - l \in 1..(Len(q) - n) /\ n + (i - l) = i + 1 /\ i \in 1..(l + m) /\ ~(i <= l)
    BY <1>0, <1>5, <1>8
  <2>2. b[i - l] = q[i + 1]
    BY <1>2, <2>1
  <2> QED
    BY <1>0, <1>4, <1>6, <2>1, <2>2
<1> QED
  BY <1>4, <1>6, <1>7, <1>8

-----------------------------------------------------------------------------
(* The stores of a device: what the calls do to a queue                    *)

QRow == [id : OpId, rec : StoreRec, tries : Nat]

\* A queue in the order of its rows holds an operation once at most.
IsQueue(queue) ==
    /\ queue \in Seq(QRow)
    /\ \A i, j \in DOMAIN queue : queue[i].id = queue[j].id => i = j

\* An empty queue, and what a queue's rows are.
LEMMA QueueFacts ==
  /\ IsQueue(<<>>) /\ ToSet(<<>>) = {}
  /\ \A queue : IsQueue(queue) => ToSet(queue) \subseteq QRow
  BY DEF IsQueue, ToSet

\* Adding a row: the operations are the old ones and that one, and no other row is new.
LEMMA QueueAdds ==
  ASSUME NEW queue, IsQueue(queue), NEW row \in QRow
  PROVE  /\ IsQueue(MemAddPending(queue, row))
         /\ Ids(ToSet(MemAddPending(queue, row))) = Ids(ToSet(queue)) \cup {row.id}
         /\ ToSet(MemAddPending(queue, row)) \subseteq ToSet(queue) \cup {row}
<1>1. CASE Has(queue, row.id)
  BY <1>1 DEF MemAddPending, Has, Ids
<1>2. CASE ~Has(queue, row.id)
  <2> DEFINE new == Append(queue, row)
  <2>1. /\ MemAddPending(queue, row) = new /\ new \in Seq(QRow)
        /\ Len(new) = Len(queue) + 1 /\ Len(queue) \in Nat
        /\ DOMAIN new = 1..Len(new) /\ DOMAIN queue = 1..Len(queue)
        /\ new[Len(queue) + 1] = row
        /\ \A i \in 1..Len(queue) : new[i] = queue[i]
    BY <1>2, AppendProperties, LenProperties DEF MemAddPending, IsQueue
  <2> HIDE DEF new
  <2>2. \A i \in 1..Len(queue) : queue[i].id # row.id
    BY <1>2, <2>1 DEF Has, Ids, ToSet
  <2>3. ToSet(new) = ToSet(queue) \cup {row}
    <3>1. ASSUME NEW r \in ToSet(new) PROVE r \in ToSet(queue) \cup {row}
      BY <2>1 DEF ToSet
    <3>2. ASSUME NEW r \in ToSet(queue) \cup {row} PROVE r \in ToSet(new)
      <4>1. Len(queue) + 1 \in DOMAIN new /\ \A i \in DOMAIN queue : i \in DOMAIN new
        BY <2>1
      <4> QED
        BY <2>1, <4>1 DEF ToSet
    <3> QED
      BY <3>1, <3>2
  <2>4. IsQueue(new)
    <3>1. ASSUME NEW i \in DOMAIN new, NEW j \in DOMAIN new, new[i].id = new[j].id
          PROVE  i = j
      <4>1. (i \in DOMAIN queue \/ i = Len(queue) + 1) /\ (j \in DOMAIN queue \/ j = Len(queue) + 1)
        BY <2>1
      <4> QED
        BY <2>1, <2>2, <3>1, <4>1 DEF IsQueue
    <3> QED
      BY <2>1, <3>1 DEF IsQueue
  <2> QED
    BY <2>1, <2>3, <2>4 DEF Ids
<1> QED
  BY <1>1, <1>2

\* A queue without the row of o at n.
LEMMA RemovalIsQueue ==
  ASSUME NEW queue, IsQueue(queue), NEW o, NEW n \in DOMAIN queue, queue[n].id = o,
         NEW rest, rest = RemoveAt(queue, n)
  PROVE  IsQueue(rest) /\ ToSet(rest) = {row \in ToSet(queue) : row.id # o}
<1>1. queue \in Seq(QRow) /\ DOMAIN queue = 1..Len(queue) /\ Len(queue) \in Nat
  BY LenProperties DEF IsQueue
<1> PICK m \in Nat : m = Len(queue)
  BY <1>1
<1>2. n \in Nat /\ 1 <= n /\ n <= m /\ DOMAIN queue = 1..m
  BY <1>1
<1>3. /\ rest \in Seq(QRow) /\ DOMAIN rest = 1..(m - 1)
      /\ \A i \in 1..(n - 1) : i \in DOMAIN rest /\ rest[i] = queue[i]
      /\ \A i \in n..(m - 1) : i \in DOMAIN rest /\ rest[i] = queue[i + 1]
  <2>1. n \in 1..Len(queue)
    BY <1>1
  <2> QED
    BY <1>1, <2>1, RemovalFacts
<1> DEFINE at(k) == IF k < n THEN k ELSE k + 1
<1>4. ASSUME NEW k \in DOMAIN rest
      PROVE  k \in Nat /\ at(k) \in DOMAIN queue \ {n} /\ rest[k] = queue[at(k)]
  <2>1. k \in Nat /\ 1 <= k /\ k <= m - 1
    BY <1>2, <1>3
  <2>2. CASE k < n
    BY <1>2, <1>3, <2>1, <2>2
  <2>3. CASE ~(k < n)
    <3>1. k \in n..(m - 1) /\ k + 1 \in 1..m /\ k + 1 # n
      BY <1>2, <2>1, <2>3
    <3> QED
      BY <1>2, <1>3, <2>1, <2>3, <3>1
  <2> QED
    BY <2>2, <2>3
<1>5. ASSUME NEW j \in DOMAIN queue, j # n
      PROVE  \E k \in DOMAIN rest : rest[k] = queue[j]
  <2>1. j \in Nat /\ 1 <= j /\ j <= m
    BY <1>2
  <2>2. CASE j < n
    <3>1. j \in 1..(n - 1)
      BY <1>2, <2>1, <2>2
    <3> QED
      BY <1>3, <3>1
  <2>3. CASE ~(j < n)
    <3>1. j - 1 \in n..(m - 1) /\ (j - 1) + 1 = j
      BY <1>2, <1>5, <2>1, <2>3
    <3> QED
      BY <1>3, <3>1
  <2> QED
    BY <2>2, <2>3
<1>6. ToSet(rest) = {row \in ToSet(queue) : row.id # o}
  <2>1. ASSUME NEW row \in ToSet(rest) PROVE row \in ToSet(queue) /\ row.id # o
    <3>1. PICK k \in DOMAIN rest : row = rest[k]
      BY DEF ToSet
    <3>2. PICK j \in DOMAIN queue : j # n /\ row = queue[j]
      BY <1>4, <3>1
    <3> QED
      BY <3>2 DEF IsQueue, ToSet
  <2>2. ASSUME NEW row \in ToSet(queue), row.id # o PROVE row \in ToSet(rest)
    <3>1. PICK j \in DOMAIN queue : row = queue[j]
      BY DEF ToSet
    <3>2. j # n
      BY <2>2, <3>1
    <3> QED
      BY <1>5, <3>1, <3>2 DEF ToSet
  <2> QED
    BY <2>1, <2>2
<1>7. ASSUME NEW i \in DOMAIN rest, NEW j \in DOMAIN rest, rest[i].id = rest[j].id
      PROVE  i = j
  <2>1. at(i) = at(j) /\ i \in Nat /\ j \in Nat
    <3>1. /\ at(i) \in DOMAIN queue /\ rest[i] = queue[at(i)]
          /\ at(j) \in DOMAIN queue /\ rest[j] = queue[at(j)]
      BY <1>4
    <3> HIDE DEF at
    <3>2. at(i) = at(j)
      BY <1>7, <3>1 DEF IsQueue
    <3> QED
      BY <1>4, <3>2
  <2> QED
    BY <1>2, <2>1
<1> QED
  BY <1>3, <1>6, <1>7 DEF IsQueue

\* Resolving an operation removes its row and no other.
LEMMA QueueResolves ==
  ASSUME NEW queue, IsQueue(queue), NEW o
  PROVE  /\ IsQueue(Without(queue, o))
         /\ ToSet(Without(queue, o)) = {row \in ToSet(queue) : row.id # o}
         /\ Ids(ToSet(Without(queue, o))) = Ids(ToSet(queue)) \ {o}
<1> DEFINE n == CHOOSE i \in DOMAIN queue : queue[i].id = o
           rest == Without(queue, o)
<1>1. IsQueue(rest) /\ ToSet(rest) = {row \in ToSet(queue) : row.id # o}
  <2>1. CASE ~Has(queue, o)
    BY <2>1 DEF Without, Has, Ids
  <2>2. CASE Has(queue, o)
    <3>1. n \in DOMAIN queue /\ queue[n].id = o
      BY <2>2 DEF Has, Ids, ToSet
    <3>2. rest = RemoveAt(queue, n)
      BY <2>2 DEF Without
    <3> HIDE DEF n, rest
    <3> QED
      BY <3>1, <3>2, RemovalIsQueue
  <2> QED
    BY <2>1, <2>2
<1> HIDE DEF rest
<1>2. Ids(ToSet(rest)) = Ids(ToSet(queue)) \ {o}
  BY <1>1 DEF Ids
<1> QED
  BY <1>1, <1>2 DEF rest

\* Counting an attempt changes no operation and no record.
LEMMA QueueFails ==
  ASSUME NEW queue, IsQueue(queue), NEW o
  PROVE  /\ IsQueue(MemFailPending(queue, o))
         /\ Ids(ToSet(MemFailPending(queue, o))) = Ids(ToSet(queue))
         /\ \A row \in ToSet(MemFailPending(queue, o)) :
               \E old \in ToSet(queue) : row.id = old.id /\ row.rec = old.rec
<1> PICK new : new = MemFailPending(queue, o)
  OBVIOUS
<1>1. queue \in Seq(QRow) /\ DOMAIN queue = 1..Len(queue) /\ Len(queue) \in Nat
  BY LenProperties DEF IsQueue
<1>2. \A row \in QRow : /\ TriedAgain(row) \in QRow
                        /\ TriedAgain(row).id = row.id /\ TriedAgain(row).rec = row.rec
  BY DEF TriedAgain, QRow
<1>3. DOMAIN new = DOMAIN queue
      /\ \A i \in DOMAIN queue : new[i] \in QRow /\ new[i].id = queue[i].id /\ new[i].rec = queue[i].rec
  BY <1>1, <1>2 DEF MemFailPending
<1>4. new \in Seq(QRow)
  <2>1. new = [i \in 1..Len(queue) |-> new[i]]
    BY <1>1 DEF MemFailPending
  <2> QED
    BY <1>1, <1>3, <2>1
<1>5. IsQueue(new)
  BY <1>3, <1>4 DEF IsQueue
<1>6. \A row \in ToSet(new) : \E old \in ToSet(queue) : row.id = old.id /\ row.rec = old.rec
  BY <1>3 DEF ToSet
<1>7. \A old \in ToSet(queue) : \E row \in ToSet(new) : row.id = old.id
  BY <1>3 DEF ToSet
<1>8. Ids(ToSet(new)) = Ids(ToSet(queue))
  BY <1>6, <1>7 DEF Ids
<1> QED
  BY <1>5, <1>6, <1>8

\* The same of the rows of IndexedDB.
LEMMA RowsAdd ==
  ASSUME NEW rows \in SUBSET QRow, NEW row \in QRow
  PROVE  /\ DexAddPending(rows, row) \subseteq rows \cup {row}
         /\ Ids(DexAddPending(rows, row)) = Ids(rows) \cup {row.id}
  BY DEF DexAddPending, Ids

\* And a removal.
LEMMA RowsResolve ==
  ASSUME NEW rows \in SUBSET QRow, NEW o
  PROVE  /\ DexResolvePending(rows, o) \subseteq rows
         /\ Ids(DexResolvePending(rows, o)) = Ids(rows) \ {o}
  BY DEF DexResolvePending, Ids

-----------------------------------------------------------------------------
(* The invariant of the stores                                             *)

Conflict == [id : OpId, rec : StoreRec]
OpenCall == {IdleStoreCall} \cup [at : {"answers"}, rows : SUBSET QRow]
RewriteCall == [at : {"rewrite"}, row : QRow, next : OpenCall]
Rewriting(k) == storeCall[k].at = "rewrite"

StoreTypes ==
    /\ IsQueue(memQueue) /\ dexQueue \subseteq QRow
    /\ openConflicts \subseteq Conflict /\ tapped \subseteq Conflict \X (1..2)
    /\ editing \subseteq QRow /\ edits \in 0..MaxEdits
    /\ storeCall \in [StoreCall -> OpenCall \cup RewriteCall]

\* StoresAgreeOnQueue, and what it rests on: a row that a failPending is about to put
\* back is in IndexedDB still, or was removed since it was read.
AgreeInv ==
    /\ StoresAgreeOnQueue
    /\ \A k \in StoreCall : Rewriting(k) => storeCall[k].row.id \in Ids(dexQueue) \cup overtakenOps

\* The rows that are in IndexedDB or may yet be put there.
Held == editing \cup dexQueue \cup {storeCall[k].row : k \in {l \in StoreCall : Rewriting(l)}}
First(row) == row.id[2] = "first"

\* UnsentEditIsReadable, and what it rests on: the rows of one edit are of one record, an
\* edit to come is of none of them, and the record of an edit being saved is written.
ReadInv ==
    /\ UnsentEditIsReadable
    /\ \A row \in Held : First(row) => row.id[1] <= edits
    /\ \A a, b \in Held : First(a) /\ a.id = b.id => a.rec = b.rec
    /\ \A row \in editing : row.rec \in memRecs \cap (sqlRecs \cup tornRecs) \cap (dexRecs \cup tornRecs)

StoreInv == StoreTypes /\ AgreeInv /\ ReadInv

\* The stores of a new device.
LEMMA StoreInitInv == StoreInit => StoreInv
<1> SUFFICES ASSUME StoreInit PROVE StoreInv
  OBVIOUS
<1>1. \A k \in StoreCall : storeCall[k] = IdleStoreCall /\ ~Rewriting(k)
  BY DEF StoreInit, Rewriting, IdleStoreCall
<1>2. StoreTypes
  BY <1>1, QueueFacts, StoreAssumption DEF StoreInit, StoreTypes, OpenCall
<1>3. ToSet(memQueue) = {} /\ ToSet(sqlQueue) = {} /\ dexQueue = {} /\ sqlQueue = memQueue
  BY QueueFacts DEF StoreInit
<1>4. AgreeInv
  BY <1>1, <1>3 DEF AgreeInv, StoresAgreeOnQueue, Ids
<1>5. Held = {} /\ editing = {}
  BY <1>1 DEF StoreInit, Held
<1>6. ReadInv
  BY <1>3, <1>5 DEF ReadInv, UnsentEditIsReadable
<1> QED
  BY <1>2, <1>4, <1>6 DEF StoreInv

\* What a cycle that has read answers holds, and what is left of it after one.
LEMMA CallFacts ==
  ASSUME StoreTypes, NEW k \in StoreCall
  PROVE  /\ Rewriting(k) => storeCall[k] \in RewriteCall /\ storeCall[k].row \in QRow
                            /\ storeCall[k].next \in OpenCall
         /\ storeCall[k].at = "answers" =>
              /\ storeCall[k].rows \subseteq QRow
              /\ \A row \in storeCall[k].rows : Consumed(k, row) \in OpenCall
         /\ \A c \in OpenCall : c.at # "rewrite"
         /\ \A c : storeCall' = [storeCall EXCEPT ![k] = c] =>
              \A l \in StoreCall : storeCall'[l] = IF l = k THEN c ELSE storeCall[l]
<1>1. storeCall[k] \in OpenCall \cup RewriteCall
  BY DEF StoreTypes
<1>2. Rewriting(k) => storeCall[k] \in RewriteCall
  BY <1>1 DEF Rewriting, OpenCall, IdleStoreCall
<1>3. storeCall[k].at = "answers" => storeCall[k] \in [at : {"answers"}, rows : SUBSET QRow]
  BY <1>1 DEF OpenCall, RewriteCall, IdleStoreCall
<1>4. ASSUME storeCall[k].at = "answers", NEW row \in storeCall[k].rows
      PROVE  Consumed(k, row) \in OpenCall
  BY <1>3, <1>4 DEF Consumed, OpenCall
<1>5. \A c \in OpenCall : c.at # "rewrite"
  BY DEF OpenCall, IdleStoreCall
<1>6. ASSUME NEW c, storeCall' = [storeCall EXCEPT ![k] = c]
      PROVE  \A l \in StoreCall : storeCall'[l] = IF l = k THEN c ELSE storeCall[l]
  BY <1>6 DEF StoreTypes
<1> QED
  BY <1>2, <1>3, <1>4, <1>5, <1>6 DEF RewriteCall

-----------------------------------------------------------------------------
(* A step that adds the same operations everywhere, or removes the same    *)

\* The rows that are being put back after the step: those of before, or rows IndexedDB has.
RewritesKnown ==
    \A k \in StoreCall : Rewriting(k)' =>
       \/ Rewriting(k) /\ storeCall'[k].row = storeCall[k].row
       \/ storeCall'[k].row \in dexQueue /\ storeCall'[k].row \in dexQueue'

\* The queues go on agreeing, and the rows being put back are known or were overtaken.
LEMMA AgreeMoves ==
  ASSUME AgreeInv, RewritesKnown, overtakenOps' = overtakenOps \cup Overtaken,
         sqlQueue' = memQueue', NEW more, NEW less,
         Ids(ToSet(memQueue))' = (Ids(ToSet(memQueue)) \ less) \cup more,
         Ids(dexQueue)' = (Ids(dexQueue) \ less) \cup more
  PROVE  AgreeInv'
<1>1. StoresAgreeOnQueue'
  BY DEF AgreeInv, StoresAgreeOnQueue
<1>2. ASSUME NEW k \in StoreCall, Rewriting(k)'
      PROVE  storeCall'[k].row.id \in Ids(dexQueue)' \cup overtakenOps'
  <2>1. CASE Rewriting(k) /\ storeCall'[k].row = storeCall[k].row
    <3>1. storeCall[k].row.id \in Ids(dexQueue) \cup overtakenOps
      BY <2>1 DEF AgreeInv
    <3>2. storeCall[k].row.id \in Ids(dexQueue) \ Ids(dexQueue') => storeCall[k].row.id \in Overtaken
      BY <2>1 DEF Overtaken, Rewriting
    <3> QED
      BY <2>1, <3>1, <3>2
  <2>2. CASE storeCall'[k].row \in dexQueue'
    BY <2>2 DEF Ids
  <2> QED
    BY <1>2, <2>1, <2>2 DEF RewritesKnown
<1> QED
  BY <1>1, <1>2 DEF AgreeInv

\* A row of an operation and a record some of the rows have.
Like(row, rows) == \E old \in rows : row.id = old.id /\ row.rec = old.rec

\* What is queued can be read if its rows are old ones, or come from an edit being saved.
LEMMA ReadMoves ==
  ASSUME ReadInv, RewritesKnown, overtakenOps \subseteq overtakenOps',
         sqlQueue = memQueue, sqlQueue' = memQueue',
         UNCHANGED <<edits, tornRecs>>, editing' \subseteq editing,
         memRecs \subseteq memRecs', sqlRecs \subseteq sqlRecs', dexRecs \subseteq dexRecs',
         \A row \in ToSet(memQueue)' : First(row) => Like(row, ToSet(memQueue) \cup editing),
         \A row \in dexQueue' : First(row) => Like(row, dexQueue \cup editing)
  PROVE  ReadInv'
<1>1. \A row \in Held' : First(row) => Like(row, Held)
  BY DEF Held, RewritesKnown, Like
<1>2. \A row \in Held' : First(row) => row.id[1] <= edits'
  BY <1>1 DEF Like, ReadInv, First
<1>3. \A a, b \in Held' : First(a) /\ a.id = b.id => a.rec = b.rec
  BY <1>1 DEF Like, ReadInv, First
<1>4. \A row \in editing' :
         row.rec \in memRecs' \cap (sqlRecs' \cup tornRecs') \cap (dexRecs' \cup tornRecs')
  BY DEF ReadInv
<1>5. ASSUME NEW row \in ToSet(memQueue)', First(row), row.id \notin overtakenOps'
      PROVE  row.rec \in memRecs' \cup tornRecs' /\ row.rec \in sqlRecs' \cup tornRecs'
  BY <1>5 DEF Like, ReadInv, UnsentEditIsReadable, First
<1>6. ASSUME NEW row \in dexQueue', First(row), row.id \notin overtakenOps'
      PROVE  row.rec \in dexRecs' \cup tornRecs'
  BY <1>6 DEF Like, ReadInv, UnsentEditIsReadable, First
<1>7. UnsentEditIsReadable'
  BY <1>5, <1>6 DEF UnsentEditIsReadable, First
<1> QED
  BY <1>2, <1>3, <1>4, <1>7 DEF ReadInv

-----------------------------------------------------------------------------
(* The steps                                                               *)

\* A new operation in the three queues.
LEMMA AddEverywhere ==
  ASSUME StoreInv, NEW row \in QRow, AddPending(row)
  PROVE  /\ IsQueue(memQueue)' /\ sqlQueue' = memQueue' /\ (dexQueue \subseteq QRow)'
         /\ Ids(ToSet(memQueue))' = (Ids(ToSet(memQueue)) \ {}) \cup {row.id}
         /\ Ids(dexQueue)' = (Ids(dexQueue) \ {}) \cup {row.id}
         /\ ToSet(memQueue)' \subseteq ToSet(memQueue) \cup {row}
         /\ dexQueue' \subseteq dexQueue \cup {row}
<1>1. IsQueue(memQueue) /\ dexQueue \in SUBSET QRow /\ sqlQueue = memQueue
  BY DEF StoreInv, StoreTypes, AgreeInv, StoresAgreeOnQueue
<1>2. /\ memQueue' = MemAddPending(memQueue, row) /\ dexQueue' = DexAddPending(dexQueue, row)
      /\ sqlQueue' = memQueue'
  BY <1>1 DEF AddPending, MemAddPending, SqlAddPending
<1>3. /\ dexQueue' \subseteq dexQueue \cup {row}
      /\ Ids(dexQueue') = Ids(dexQueue) \cup {row.id}
  BY <1>1, <1>2, RowsAdd
<1>4. /\ IsQueue(memQueue') /\ Ids(ToSet(memQueue')) = Ids(ToSet(memQueue)) \cup {row.id}
      /\ ToSet(memQueue') \subseteq ToSet(memQueue) \cup {row}
  BY <1>1, <1>2, QueueAdds
<1> QED
  BY <1>1, <1>2, <1>3, <1>4

\* A resolved operation in the three queues.
LEMMA ResolveEverywhere ==
  ASSUME StoreInv, NEW o, ResolvePending(o)
  PROVE  /\ IsQueue(memQueue)' /\ sqlQueue' = memQueue' /\ (dexQueue \subseteq QRow)'
         /\ Ids(ToSet(memQueue))' = (Ids(ToSet(memQueue)) \ {o}) \cup {}
         /\ Ids(dexQueue)' = (Ids(dexQueue) \ {o}) \cup {}
         /\ ToSet(memQueue)' \subseteq ToSet(memQueue)
         /\ dexQueue' \subseteq dexQueue
<1>1. IsQueue(memQueue) /\ dexQueue \in SUBSET QRow /\ sqlQueue = memQueue
  BY DEF StoreInv, StoreTypes, AgreeInv, StoresAgreeOnQueue
<1>2. /\ memQueue' = Without(memQueue, o) /\ dexQueue' = DexResolvePending(dexQueue, o)
      /\ sqlQueue' = memQueue'
  BY <1>1 DEF ResolvePending, MemResolvePending, SqlResolvePending
<1>3. /\ dexQueue' \subseteq dexQueue /\ Ids(dexQueue') = Ids(dexQueue) \ {o}
  BY <1>1, <1>2, RowsResolve
<1>4. /\ IsQueue(memQueue') /\ Ids(ToSet(memQueue')) = Ids(ToSet(memQueue)) \ {o}
      /\ ToSet(memQueue') \subseteq ToSet(memQueue)
  BY <1>1, <1>2, QueueResolves
<1> QED
  BY <1>1, <1>2, <1>3, <1>4

\* The queues at rest.
LEMMA QueuesRest ==
  ASSUME StoreInv, UNCHANGED queues
  PROVE  /\ IsQueue(memQueue)' /\ sqlQueue' = memQueue' /\ (dexQueue \subseteq QRow)'
         /\ Ids(ToSet(memQueue))' = (Ids(ToSet(memQueue)) \ {}) \cup {}
         /\ Ids(dexQueue)' = (Ids(dexQueue) \ {}) \cup {}
         /\ ToSet(memQueue)' \subseteq ToSet(memQueue)
         /\ dexQueue' \subseteq dexQueue
  BY DEF StoreInv, StoreTypes, AgreeInv, StoresAgreeOnQueue, queues

\* A step of no cycle puts nothing back.
LEMMA QuietCalls ==
  ASSUME UNCHANGED storeCall
  PROVE  RewritesKnown
  BY DEF RewritesKnown, Rewriting

\* The records of the technician's own step, and no others, are new.
LEMMA WriteRecords ==
  ASSUME NEW r, WriteRecord(r)
  PROVE  memRecs \subseteq memRecs' /\ sqlRecs \subseteq sqlRecs' /\ dexRecs \subseteq dexRecs'
         /\ r \in memRecs' /\ r \in sqlRecs' /\ r \in dexRecs'
  BY DEF WriteRecord

\* A row is like itself.
LEMMA LikeItself ==
  ASSUME NEW rows, NEW row \in rows
  PROVE  Like(row, rows)
  BY DEF Like

\* The save of an edit writes the record under an operation nothing knows yet.
LEMMA EditWriteStep ==
  ASSUME StoreInv, NEW r \in StoreRec, EditWrite(r), overtakenOps' = overtakenOps \cup Overtaken
  PROVE  StoreInv'
<1> PICK n : n = edits + 1
  OBVIOUS
<1> DEFINE new == QueueRow(<<n, "first">>, r)
<1>0. edits \in Nat /\ edits < MaxEdits /\ MaxEdits \in Nat
  BY StoreAssumption DEF StoreInv, StoreTypes, EditWrite
<1>1. n \in 1..MaxEdits /\ edits' = n /\ n \in 0..MaxEdits
  BY <1>0 DEF EditWrite
<1>2. new \in QRow /\ new.id = <<n, "first">> /\ new.rec = r /\ new.id[1] = n
  BY <1>1 DEF QueueRow, QRow, OpId
<1>3. /\ UNCHANGED <<queues, openConflicts, tapped, storeCall, tornRecs>>
      /\ editing' = editing \cup {new} /\ WriteRecord(r)
  BY DEF EditWrite, storeHistory
<1>3a. memRecs \subseteq memRecs' /\ sqlRecs \subseteq sqlRecs' /\ dexRecs \subseteq dexRecs'
       /\ r \in memRecs' /\ r \in sqlRecs' /\ r \in dexRecs'
  BY <1>3, WriteRecords
<1> HIDE DEF new
<1>4. StoreTypes'
  BY <1>1, <1>2, <1>3 DEF StoreInv, StoreTypes, queues
<1>5. AgreeInv'
  BY <1>3, AgreeMoves, QueuesRest, QuietCalls DEF StoreInv
<1>6. Held' = Held \cup {new}
  BY <1>3 DEF Held, Rewriting, queues
<1>7. \A row \in Held : First(row) => row.id # new.id
  BY <1>0, <1>2 DEF StoreInv, ReadInv
<1>8. ReadInv'
  <2>1. UnsentEditIsReadable'
    BY <1>3, <1>3a DEF StoreInv, ReadInv, UnsentEditIsReadable, queues
  <2>2. \A row \in Held' : First(row) => row.id[1] <= edits'
    <3>1. \A i \in Int : i <= edits => i <= n
      BY <1>0
    <3>2. \A row \in Held : row.id[1] \in Int
      <4>1. \A row \in QRow : row.id[1] \in Int
        BY DEF QRow, OpId
      <4>2. Held \subseteq QRow
        BY CallFacts DEF Held, StoreInv, StoreTypes
      <4> QED
        BY <4>1, <4>2
    <3> QED
      BY <1>0, <1>1, <1>2, <1>6, <3>1, <3>2 DEF StoreInv, ReadInv
  <2>3. \A a, b \in Held' : First(a) /\ a.id = b.id => a.rec = b.rec
    BY <1>2, <1>6, <1>7 DEF StoreInv, ReadInv, First
  <2>4. \A row \in editing' :
           row.rec \in memRecs' \cap (sqlRecs' \cup tornRecs') \cap (dexRecs' \cup tornRecs')
    BY <1>2, <1>3, <1>3a DEF StoreInv, ReadInv
  <2> QED
    BY <2>1, <2>2, <2>3, <2>4 DEF ReadInv
<1> QED
  BY <1>4, <1>5, <1>8 DEF StoreInv

\* The second half of the save queues the operation, whose record is written.
LEMMA EditAddStep ==
  ASSUME StoreInv, NEW row \in editing, EditAdd(row), overtakenOps' = overtakenOps \cup Overtaken
  PROVE  StoreInv'
<1>1. row \in QRow /\ editing' \subseteq editing
  BY DEF StoreInv, StoreTypes, EditAdd
<1>2. /\ UNCHANGED <<records, openConflicts, edits, tapped, storeCall, tornRecs>>
      /\ AddPending(row)
  BY DEF EditAdd, storeHistory
<1>3. /\ IsQueue(memQueue)' /\ sqlQueue' = memQueue' /\ (dexQueue \subseteq QRow)'
      /\ Ids(ToSet(memQueue))' = (Ids(ToSet(memQueue)) \ {}) \cup {row.id}
      /\ Ids(dexQueue)' = (Ids(dexQueue) \ {}) \cup {row.id}
      /\ ToSet(memQueue)' \subseteq ToSet(memQueue) \cup {row}
      /\ dexQueue' \subseteq dexQueue \cup {row}
  BY <1>1, <1>2, AddEverywhere
<1>4. StoreTypes'
  BY <1>1, <1>2, <1>3 DEF StoreInv, StoreTypes
<1>5. AgreeInv'
  BY <1>2, <1>3, AgreeMoves, QuietCalls DEF StoreInv
<1>6. ReadInv'
  <2>1. \A r \in ToSet(memQueue)' : Like(r, ToSet(memQueue) \cup editing)
    BY <1>3, LikeItself
  <2>2. \A r \in dexQueue' : Like(r, dexQueue \cup editing)
    BY <1>3, LikeItself
  <2>3. sqlQueue = memQueue
    BY DEF StoreInv, AgreeInv, StoresAgreeOnQueue
  <2> QED
    BY <1>1, <1>2, <1>3, <2>1, <2>2, <2>3, ReadMoves, QuietCalls DEF StoreInv, records
<1> QED
  BY <1>4, <1>5, <1>6 DEF StoreInv

\* A step that removes operations at most.
LEMMA ShrinkingStep ==
  ASSUME StoreInv, RewritesKnown, overtakenOps' = overtakenOps \cup Overtaken,
         UNCHANGED queues \/ \E o : ResolvePending(o),
         UNCHANGED <<editing, edits, tornRecs>>,
         memRecs \subseteq memRecs', sqlRecs \subseteq sqlRecs', dexRecs \subseteq dexRecs',
         openConflicts' \subseteq Conflict, tapped' \subseteq Conflict \X (1..2),
         storeCall' \in [StoreCall -> OpenCall \cup RewriteCall]
  PROVE  StoreInv'
<1>1. PICK less :
         /\ IsQueue(memQueue)' /\ sqlQueue' = memQueue' /\ (dexQueue \subseteq QRow)'
         /\ Ids(ToSet(memQueue))' = (Ids(ToSet(memQueue)) \ less) \cup {}
         /\ Ids(dexQueue)' = (Ids(dexQueue) \ less) \cup {}
         /\ ToSet(memQueue)' \subseteq ToSet(memQueue)
         /\ dexQueue' \subseteq dexQueue
  BY QueuesRest, ResolveEverywhere
<1>2. StoreTypes'
  BY <1>1 DEF StoreInv, StoreTypes
<1>3. AgreeInv'
  BY <1>1, AgreeMoves DEF StoreInv
<1>4. ReadInv'
  <2>1. \A r \in ToSet(memQueue)' : Like(r, ToSet(memQueue) \cup editing)
    BY <1>1, LikeItself
  <2>2. \A r \in dexQueue' : Like(r, dexQueue \cup editing)
    BY <1>1, LikeItself
  <2>3. sqlQueue = memQueue
    BY DEF StoreInv, AgreeInv, StoresAgreeOnQueue
  <2> QED
    BY <1>1, <2>1, <2>2, <2>3, ReadMoves DEF StoreInv
<1> QED
  BY <1>2, <1>3, <1>4 DEF StoreInv

\* Decisions on a conflict that leave no operation, or none yet.
LEMMA DecisionStep ==
  ASSUME StoreInv, NEW c \in openConflicts, TakeServer(c) \/ \E n \in 1..2 : Tap(c, n),
         overtakenOps' = overtakenOps \cup Overtaken
  PROVE  StoreInv'
<1>1. /\ openConflicts \subseteq Conflict /\ tapped \subseteq Conflict \X (1..2)
      /\ storeCall \in [StoreCall -> OpenCall \cup RewriteCall]
  BY DEF StoreInv, StoreTypes
<1>2. CASE TakeServer(c)
  <2>1. /\ ResolvePending(c.id) /\ WriteRecord(c.rec)
        /\ UNCHANGED <<editing, edits, tapped, storeCall, tornRecs>>
        /\ openConflicts' \subseteq openConflicts
    BY <1>2 DEF TakeServer, storeHistory, ClearConflict
  <2>2. memRecs \subseteq memRecs' /\ sqlRecs \subseteq sqlRecs' /\ dexRecs \subseteq dexRecs'
    BY <2>1, WriteRecords
  <2> QED
    BY <1>1, <2>1, <2>2, QuietCalls, ShrinkingStep
<1>3. ASSUME NEW n \in 1..2, Tap(c, n) PROVE StoreInv'
  <2>1. /\ UNCHANGED <<queues, records, openConflicts, editing, edits, storeCall, tornRecs>>
        /\ tapped' = tapped \cup {<<c, n>>}
    BY <1>3 DEF Tap, storeHistory
  <2>2. tapped' \subseteq Conflict \X (1..2)
    BY <1>1, <2>1
  <2> QED
    BY <1>1, <2>1, <2>2, QuietCalls, ShrinkingStep DEF records
<1> QED
  BY <1>2, <1>3

\* "Keep mine" puts a forced operation in the place of the one in conflict.
LEMMA TakeLocalStep ==
  ASSUME StoreInv, NEW tap \in tapped, TakeLocal(tap), overtakenOps' = overtakenOps \cup Overtaken
  PROVE  StoreInv'
<1> DEFINE o == tap[1].id
           forced == <<o[1], "forced">>
           row == QueueRow(forced, tap[1].rec)
<1>1. tap[1] \in Conflict /\ o \in OpId /\ o[1] \in 1..MaxEdits
  BY DEF StoreInv, StoreTypes, Conflict, OpId
<1>2. row \in QRow /\ row.id = forced /\ ~First(row) /\ forced \in OpId
      /\ [id |-> forced, rec |-> tap[1].rec] \in Conflict
  BY <1>1 DEF QueueRow, QRow, OpId, First, Conflict
<1>3. /\ memQueue' = MemAddPending(Without(memQueue, o), row)
      /\ sqlQueue' = SqlAddPending(Without(sqlQueue, o), row)
      /\ dexQueue' = DexAddPending(DexResolvePending(dexQueue, o), row)
      /\ tapped' = tapped \ {tap}
      /\ UNCHANGED <<records, editing, edits, storeCall, tornRecs>>
      /\ openConflicts' = ClearConflict(AddConflict(openConflicts, [id |-> forced, rec |-> tap[1].rec]), o)
  BY DEF TakeLocal, MemResolvePending, SqlResolvePending, storeHistory
<1> HIDE DEF row
<1>4. IsQueue(memQueue) /\ dexQueue \in SUBSET QRow /\ sqlQueue = memQueue
  BY DEF StoreInv, StoreTypes, AgreeInv, StoresAgreeOnQueue
<1>5. /\ IsQueue(Without(memQueue, o))
      /\ ToSet(Without(memQueue, o)) \subseteq ToSet(memQueue)
      /\ Ids(ToSet(Without(memQueue, o))) = Ids(ToSet(memQueue)) \ {o}
  BY <1>4, QueueResolves
<1>6. /\ IsQueue(memQueue') /\ sqlQueue' = memQueue'
      /\ Ids(ToSet(memQueue')) = (Ids(ToSet(memQueue)) \ {o}) \cup {row.id}
      /\ ToSet(memQueue') \subseteq ToSet(memQueue) \cup {row}
  <2> PICK q : q = Without(memQueue, o)
    OBVIOUS
  <2>1. memQueue' = MemAddPending(q, row) /\ sqlQueue' = memQueue'
    BY <1>3, <1>4 DEF MemAddPending, SqlAddPending
  <2>2. /\ IsQueue(MemAddPending(q, row))
        /\ Ids(ToSet(MemAddPending(q, row))) = Ids(ToSet(q)) \cup {row.id}
        /\ ToSet(MemAddPending(q, row)) \subseteq ToSet(q) \cup {row}
    BY <1>2, <1>5, QueueAdds
  <2> QED
    BY <1>5, <2>1, <2>2
<1>7. /\ dexQueue' \subseteq dexQueue \cup {row} /\ dexQueue' \subseteq QRow
      /\ Ids(dexQueue') = (Ids(dexQueue) \ {o}) \cup {row.id}
  <2> PICK rows : rows = DexResolvePending(dexQueue, o)
    OBVIOUS
  <2>1. rows \in SUBSET QRow /\ rows \subseteq dexQueue /\ Ids(rows) = Ids(dexQueue) \ {o}
    BY <1>4, RowsResolve
  <2>2. /\ DexAddPending(rows, row) \subseteq rows \cup {row}
        /\ Ids(DexAddPending(rows, row)) = Ids(rows) \cup {row.id}
    BY <1>2, <2>1, RowsAdd
  <2> QED
    BY <1>2, <1>3, <1>4, <2>1, <2>2
<1>8. StoreTypes'
  <2>1. openConflicts' \subseteq Conflict
    BY <1>2, <1>3 DEF ClearConflict, AddConflict, StoreInv, StoreTypes
  <2> QED
    BY <1>3, <1>6, <1>7, <2>1 DEF StoreInv, StoreTypes
<1>9. AgreeInv'
  BY <1>3, <1>6, <1>7, AgreeMoves, QuietCalls DEF StoreInv
<1>10. ReadInv'
  <2>1. \A r \in ToSet(memQueue)' : First(r) => Like(r, ToSet(memQueue) \cup editing)
    BY <1>2, <1>6, LikeItself
  <2>2. \A r \in dexQueue' : First(r) => Like(r, dexQueue \cup editing)
    BY <1>2, <1>7, LikeItself
  <2> QED
    BY <1>3, <1>4, <1>6, <2>1, <2>2, ReadMoves, QuietCalls DEF StoreInv, records
<1> QED
  BY <1>8, <1>9, <1>10 DEF StoreInv

\* A cycle reads the queue, and takes an answer that puts nothing back.
LEMMA CycleStep ==
  ASSUME StoreInv, NEW k \in StoreCall, overtakenOps' = overtakenOps \cup Overtaken,
         \/ StoreCycle(k)
         \/ /\ storeCall[k].at = "answers"
            /\ \E row \in storeCall[k].rows : AcceptedAnswer(k, row) \/ ConflictAnswer(k, row)
  PROVE  StoreInv'
<1>1. /\ openConflicts \subseteq Conflict /\ tapped \subseteq Conflict \X (1..2)
      /\ dexQueue \subseteq QRow
      /\ storeCall \in [StoreCall -> OpenCall \cup RewriteCall] /\ StoreTypes
  BY DEF StoreInv, StoreTypes
<1>2. ASSUME NEW c \in OpenCall, storeCall' = [storeCall EXCEPT ![k] = c]
      PROVE  RewritesKnown /\ storeCall' \in [StoreCall -> OpenCall \cup RewriteCall]
  <2>1. \A l \in StoreCall : storeCall'[l] = IF l = k THEN c ELSE storeCall[l]
    BY <1>1, <1>2, CallFacts
  <2>2. c.at # "rewrite"
    BY <1>1, <1>2, CallFacts
  <2> QED
    BY <1>1, <1>2, <2>1, <2>2 DEF RewritesKnown, Rewriting
<1>3. CASE StoreCycle(k)
  <2>1. [at |-> "answers", rows |-> dexQueue] \in OpenCall
    BY <1>1 DEF OpenCall
  <2>2. /\ UNCHANGED <<queues, records, openConflicts, editing, edits, tapped, tornRecs>>
        /\ storeCall' = [storeCall EXCEPT ![k] = [at |-> "answers", rows |-> dexQueue]]
    BY <1>3 DEF StoreCycle
  <2>3. RewritesKnown /\ storeCall' \in [StoreCall -> OpenCall \cup RewriteCall]
    BY <1>2, <2>1, <2>2
  <2> QED
    BY <1>1, <2>2, <2>3, ShrinkingStep DEF records
<1>4. ASSUME storeCall[k].at = "answers", NEW row \in storeCall[k].rows, AcceptedAnswer(k, row)
      PROVE  StoreInv'
  <2>1. /\ ResolvePending(row.id) /\ UNCHANGED <<records, editing, edits, tapped, tornRecs>>
        /\ storeCall' = [storeCall EXCEPT ![k] = Consumed(k, row)]
        /\ openConflicts' \subseteq openConflicts
    BY <1>4 DEF AcceptedAnswer, storeHistory
  <2>2. Consumed(k, row) \in OpenCall
    BY <1>1, <1>4, CallFacts
  <2>3. RewritesKnown /\ storeCall' \in [StoreCall -> OpenCall \cup RewriteCall]
    BY <1>2, <2>1, <2>2
  <2> QED
    BY <1>1, <2>1, <2>3, ShrinkingStep DEF records
<1>5. ASSUME storeCall[k].at = "answers", NEW row \in storeCall[k].rows, ConflictAnswer(k, row)
      PROVE  StoreInv'
  <2>1. /\ UNCHANGED <<queues, editing, edits, tapped, tornRecs>> /\ WriteRecord(row.rec)
        /\ storeCall' = [storeCall EXCEPT ![k] = Consumed(k, row)]
        /\ openConflicts' = AddConflict(openConflicts, [id |-> row.id, rec |-> row.rec])
    BY <1>5 DEF ConflictAnswer, storeHistory
  <2>2. row \in QRow /\ Consumed(k, row) \in OpenCall
    BY <1>1, <1>5, CallFacts
  <2>3. openConflicts' \subseteq Conflict
    BY <1>1, <2>1, <2>2 DEF AddConflict, Conflict, QRow
  <2>4. memRecs \subseteq memRecs' /\ sqlRecs \subseteq sqlRecs' /\ dexRecs \subseteq dexRecs'
    BY <2>1, WriteRecords
  <2>5. RewritesKnown /\ storeCall' \in [StoreCall -> OpenCall \cup RewriteCall]
    BY <1>2, <2>1, <2>2
  <2> QED
    BY <1>1, <2>1, <2>3, <2>4, <2>5, ShrinkingStep
<1> QED
  BY <1>3, <1>4, <1>5

\* A refused operation: the queues count the attempt, IndexedDB reads the row it will put.
LEMMA RefusedStep ==
  ASSUME StoreInv, NEW k \in StoreCall, storeCall[k].at = "answers",
         NEW row \in storeCall[k].rows, RefusedAnswer(k, row),
         overtakenOps' = overtakenOps \cup Overtaken
  PROVE  StoreInv'
<1> DEFINE held == {r \in dexQueue : r.id = row.id}
           next == Consumed(k, row)
           call == IF held = {} THEN next
                   ELSE [at |-> "rewrite", row |-> CHOOSE r \in held : TRUE, next |-> next]
<1>1. /\ IsQueue(memQueue) /\ sqlQueue = memQueue /\ dexQueue \subseteq QRow /\ StoreTypes
      /\ storeCall \in [StoreCall -> OpenCall \cup RewriteCall]
  BY DEF StoreInv, StoreTypes, AgreeInv, StoresAgreeOnQueue
<1>2. /\ memQueue' = MemFailPending(memQueue, row.id) /\ sqlQueue' = memQueue'
      /\ UNCHANGED <<dexQueue, records, openConflicts, editing, edits, tapped, tornRecs>>
      /\ storeCall' = [storeCall EXCEPT ![k] = call]
  BY <1>1 DEF RefusedAnswer, MemFailPending, SqlFailPending, storeHistory
<1>3. next \in OpenCall
  BY <1>1, CallFacts
<1>4. call \in OpenCall \cup RewriteCall /\ (call.at = "rewrite" => call.row \in dexQueue)
  <2>1. CASE held = {}
    <3>1. call = next /\ next.at # "rewrite"
      BY <1>1, <1>3, <2>1, CallFacts
    <3> QED
      BY <1>3, <3>1
  <2>2. CASE held # {}
    <3>1. PICK r \in held : r = CHOOSE h \in held : TRUE
      BY <2>2
    <3>2. call = [at |-> "rewrite", row |-> r, next |-> next]
      BY <2>2, <3>1
    <3> HIDE DEF next
    <3> QED
      BY <1>1, <1>3, <3>2 DEF RewriteCall
  <2> QED
    BY <2>1, <2>2
<1> HIDE DEF call
<1>5. \A l \in StoreCall : storeCall'[l] = IF l = k THEN call ELSE storeCall[l]
  BY <1>1, <1>2, CallFacts
<1>6. RewritesKnown
  BY <1>2, <1>4, <1>5 DEF RewritesKnown, Rewriting
<1>7. /\ IsQueue(memQueue') /\ Ids(ToSet(memQueue')) = Ids(ToSet(memQueue))
      /\ \A r \in ToSet(memQueue') : \E old \in ToSet(memQueue) : r.id = old.id /\ r.rec = old.rec
  BY <1>1, <1>2, QueueFails
<1>8. StoreTypes'
  BY <1>1, <1>2, <1>4, <1>7 DEF StoreTypes
<1>9. AgreeInv'
  <2>1. /\ Ids(ToSet(memQueue))' = (Ids(ToSet(memQueue)) \ {}) \cup {}
        /\ Ids(dexQueue)' = (Ids(dexQueue) \ {}) \cup {}
    BY <1>2, <1>7
  <2> QED
    BY <1>2, <1>6, <2>1, AgreeMoves DEF StoreInv
<1>10. ReadInv'
  <2>1. \A r \in ToSet(memQueue)' : Like(r, ToSet(memQueue) \cup editing)
    BY <1>7 DEF Like
  <2>2. \A r \in dexQueue' : Like(r, dexQueue \cup editing)
    BY <1>2, LikeItself
  <2> QED
    BY <1>1, <1>2, <1>6, <2>1, <2>2, ReadMoves DEF StoreInv, records
<1> QED
  BY <1>8, <1>9, <1>10 DEF StoreInv

\* The late put of a failPending.
LEMMA DexRewriteStep ==
  ASSUME StoreInv, NEW k \in StoreCall, DexRewrite(k), overtakenOps' = overtakenOps \cup Overtaken
  PROVE  StoreInv'
<1> PICK old, new : old = storeCall[k].row /\ new = TriedAgain(old)
  OBVIOUS
<1>1. /\ IsQueue(memQueue) /\ sqlQueue = memQueue /\ dexQueue \in SUBSET QRow /\ StoreTypes
      /\ storeCall \in [StoreCall -> OpenCall \cup RewriteCall] /\ Rewriting(k)
  BY DEF StoreInv, StoreTypes, AgreeInv, StoresAgreeOnQueue, DexRewrite, Rewriting
<1>2. old \in QRow /\ storeCall[k].next \in OpenCall /\ old \in Held
  BY <1>1, CallFacts DEF Held
<1>3. new \in QRow /\ new.id = old.id /\ new.rec = old.rec
  BY <1>2 DEF TriedAgain, QRow
<1>4. /\ UNCHANGED <<memQueue, sqlQueue, records, openConflicts, editing, edits, tapped, tornRecs>>
      /\ dexQueue' = DexAddPending(dexQueue, new)
      /\ storeCall' = [storeCall EXCEPT ![k] = storeCall[k].next]
  BY DEF DexRewrite, storeHistory
<1>5. /\ dexQueue' \subseteq dexQueue \cup {new}
      /\ Ids(dexQueue') = Ids(dexQueue) \cup {old.id}
  <2>1. /\ DexAddPending(dexQueue, new) \subseteq dexQueue \cup {new}
        /\ Ids(DexAddPending(dexQueue, new)) = Ids(dexQueue) \cup {new.id}
    BY <1>1, <1>3, RowsAdd
  <2> QED
    BY <1>3, <1>4, <2>1
<1>6. \A l \in StoreCall : Rewriting(l)' => l # k /\ Rewriting(l) /\ storeCall'[l] = storeCall[l]
  <2>1. \A l \in StoreCall : storeCall'[l] = IF l = k THEN storeCall[k].next ELSE storeCall[l]
    BY <1>1, <1>4, CallFacts
  <2>2. storeCall[k].next.at # "rewrite"
    BY <1>1, <1>2, CallFacts
  <2> QED
    BY <2>1, <2>2 DEF Rewriting
<1>7. StoreTypes'
  BY <1>1, <1>2, <1>3, <1>4, <1>5 DEF StoreTypes
<1>8. old.id \in Ids(dexQueue) \cup overtakenOps
  BY <1>1 DEF StoreInv, AgreeInv
<1>9. AgreeInv'
  <2>1. StoresAgreeOnQueue'
    BY <1>4, <1>5, <1>8 DEF StoreInv, AgreeInv, StoresAgreeOnQueue
  <2>2. \A l \in StoreCall : Rewriting(l)' => storeCall'[l].row.id \in Ids(dexQueue') \cup overtakenOps'
    BY <1>5, <1>6 DEF StoreInv, AgreeInv
  <2> QED
    BY <2>1, <2>2 DEF AgreeInv
<1>10. \A row \in Held' : Like(row, Held)
  <2>1. Held' \subseteq Held \cup {new}
    BY <1>4, <1>5, <1>6 DEF Held
  <2> QED
    BY <1>2, <1>3, <2>1, LikeItself DEF Like
<1>11. ReadInv'
  <2>1. \A row \in Held' : First(row) => row.id[1] <= edits'
    BY <1>4, <1>10 DEF StoreInv, ReadInv, Like, First
  <2>2. \A a, b \in Held' : First(a) /\ a.id = b.id => a.rec = b.rec
    BY <1>10 DEF StoreInv, ReadInv, Like, First
  <2>3. ASSUME NEW row \in dexQueue', First(row), row.id \notin overtakenOps'
        PROVE  row.rec \in dexRecs' \cup tornRecs'
    <3>1. CASE row \in dexQueue
      BY <1>4, <2>3, <3>1 DEF StoreInv, ReadInv, UnsentEditIsReadable, First, records
    <3>2. CASE row = new
      <4>1. PICK there \in dexQueue : there.id = old.id
        BY <1>3, <1>8, <2>3, <3>2 DEF Ids
      <4>2. there \in Held /\ First(there)
        BY <1>3, <2>3, <3>2, <4>1 DEF Held, First
      <4>3. there.rec = old.rec
        BY <1>2, <4>1, <4>2 DEF StoreInv, ReadInv
      <4>4. there.rec \in dexRecs \cup tornRecs
        BY <1>3, <2>3, <3>2, <4>1, <4>2 DEF StoreInv, ReadInv, UnsentEditIsReadable, First
      <4> QED
        BY <1>3, <1>4, <3>2, <4>3, <4>4 DEF records
    <3> QED
      BY <1>5, <2>3, <3>1, <3>2
  <2>4. UnsentEditIsReadable'
    BY <1>4, <2>3 DEF StoreInv, ReadInv, UnsentEditIsReadable, First, records
  <2>5. \A row \in editing' :
           row.rec \in memRecs' \cap (sqlRecs' \cup tornRecs') \cap (dexRecs' \cup tornRecs')
    BY <1>4 DEF StoreInv, ReadInv, records
  <2> QED
    BY <2>1, <2>2, <2>4, <2>5 DEF ReadInv
<1> QED
  BY <1>7, <1>9, <1>11 DEF StoreInv

\* The wipe keeps the records of queued operations, and an edit being saved is an exception.
LEMMA WipeStep ==
  ASSUME StoreInv, StoreWipe, overtakenOps' = overtakenOps \cup Overtaken
  PROVE  StoreInv'
<1>1. /\ UNCHANGED <<queues, memRecs, openConflicts, editing, edits, tapped, storeCall>>
      /\ dexRecs' = dexRecs \cap {row.rec : row \in dexQueue}
      /\ sqlRecs' = sqlRecs \cap {row.rec : row \in ToSet(sqlQueue)}
      /\ tornRecs' = tornRecs \cup {row.rec : row \in editing}
  BY DEF StoreWipe, DexWipe, SqlWipe
<1>2. StoreTypes'
  BY <1>1 DEF StoreInv, StoreTypes, queues
<1>3. AgreeInv'
  BY <1>1, QueuesRest, QuietCalls, AgreeMoves DEF StoreInv
<1>4. UNCHANGED Held
  BY <1>1 DEF Held, Rewriting, queues
<1>5. UnsentEditIsReadable'
  BY <1>1 DEF StoreInv, ReadInv, UnsentEditIsReadable, queues
<1>6. ReadInv'
  BY <1>1, <1>4, <1>5 DEF StoreInv, ReadInv
<1> QED
  BY <1>2, <1>3, <1>6 DEF StoreInv

\* The invariant of the stores is inductive.
LEMMA StoreStep ==
  ASSUME StoreInv, [StoreNext]_storeVars
  PROVE  StoreInv'
<1>1. CASE StoreNext
  BY <1>1, EditWriteStep, EditAddStep, DecisionStep, TakeLocalStep, CycleStep, RefusedStep,
     DexRewriteStep, WipeStep
     DEF StoreNext, StoreSteps
<1>2. CASE UNCHANGED storeVars
  <2>1. UNCHANGED <<memQueue, sqlQueue, dexQueue, memRecs, sqlRecs, dexRecs, openConflicts,
                    editing, edits, tapped, storeCall, overtakenOps, tornRecs>>
    BY <1>2 DEF storeVars
  <2>2. StoreTypes' /\ AgreeInv'
    BY <2>1 DEF StoreInv, StoreTypes, AgreeInv, StoresAgreeOnQueue, Rewriting
  <2>3. ReadInv'
    BY <2>1 DEF StoreInv, ReadInv, UnsentEditIsReadable, Held, Rewriting
  <2> QED
    BY <2>2, <2>3 DEF StoreInv
<1> QED
  BY <1>1, <1>2

\* The invariant of the three stores, for any number of edits, cycles, taps and wipes.
THEOREM StoresInvariant == StoreSpec => []StoreInv
  BY StoreInitInv, StoreStep, PTL DEF StoreSpec

\* SQLite holds the reference store's queue row for row, and IndexedDB the same operations;
\* what only IndexedDB has was removed under a failPending (dexieStore.ts:143-147).
THEOREM StoresAgree == StoreSpec => []StoresAgreeOnQueue
<1>1. StoreInv => StoresAgreeOnQueue
  BY DEF StoreInv, AgreeInv
<1> QED
  BY <1>1, StoresInvariant, PTL

\* A technician reads what was typed and not yet sent, in each store, through cycles,
\* decisions and full resynchronisations (client.ts:450-454).
THEOREM UnsentEditsAreReadable == StoreSpec => []UnsentEditIsReadable
<1>1. StoreInv => UnsentEditIsReadable
  BY DEF StoreInv, ReadInv
<1> QED
  BY <1>1, StoresInvariant, PTL
=============================================================================
