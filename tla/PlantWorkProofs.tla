--------------------------- MODULE PlantWorkProofs ---------------------------
(***************************************************************************)
(* What holds of the plant's daily work for any orders, shifts, employees, *)
(* punches, requests and pushes.  Work orders: a status moves along the    *)
(* domain's table and its log row says so, and no dangerous job starts     *)
(* without its permit.  Shift logs: a log keeps the preparer that saved    *)
(* it.  Attendance: no punch counts for two days, and an approved          *)
(* correction shows in the day, save for the rows that CorrectionsCount    *)
(* names.                                                                  *)
(***************************************************************************)
EXTENDS WorkOrder, ShiftLog, Attendance, FiniteSetTheorems, WellFoundedInduction, TLAPS

-----------------------------------------------------------------------------
(* Work orders: the inductive invariant OrderIInv.                           *)

LogEntry == [from : WoState \cup {"none"}, to : WoState \cup {"none"}]

MoveCall == [at : {"permit", "write"}, order : Order, from : WoState, to : WoState, version : Nat]
LaborCall == [at : {"labor", "total"}, order : Order]

OrderRow == [status : WoState \cup {"none"}, version : Nat, permitNeeded : BOOLEAN]

WoTypeOK ==
  /\ order \in [Order -> OrderRow]
  /\ woLog \in [Order -> LogEntry]
  /\ permit \in [Order -> [status : PermitState, valid : BOOLEAN]]
  /\ woCall \in [WoCall -> {WoIdle} \cup MoveCall \cup LaborCall]

Moving(c) == woCall[c].at \in {"permit", "write"}

\* A transition under way was allowed by the table, and as long as nobody has raised
\* the version its order has the status it starts from.
MovesAllowed ==
  \A c \in WoCall : Moving(c) =>
    LET o == woCall[c].order
    IN /\ \E t \in WO_TRANSITIONS[woCall[c].from] : t.to = woCall[c].to
       /\ woCall[c].version <= order[o].version
       /\ SameVersion(c) => woCall[c].from = order[o].status

\* An order has a status once it is opened, and calls are about opened orders.
KnownOrders ==
  /\ \A o \in Order : order[o].status = "none" <=> ~Known(o)
  /\ \A c \in WoCall : woCall[c].at # "idle" => Known(woCall[c].order)

\* What the permit of an order has been through.
Approved(o) == permit[o].status \in {"APPROVED_BY_HSE", "OPEN", "EXTENDED", "CLOSED"}

\* A call that will start a dangerous job has seen its permit; a push that makes the job
\* dangerous meanwhile raises the version, and the call comes to nothing.
StartsSeen ==
  \A c \in WoCall : Moving(c) =>
    LET o == woCall[c].order
    IN /\ woCall[c].at = "permit" => woCall[c].to = "IN_PROGRESS"
       /\ (woCall[c].at = "write" /\ woCall[c].to = "IN_PROGRESS" /\ SameVersion(c)
             /\ order[o].permitNeeded) => Approved(o)

-----------------------------------------------------------------------------
(* The tables                                                              *)

\* The states a work order and a permit start in are states; "none" is no order's state.
LEMMA DraftIsState == {"DRAFT", "SUBMITTED"} \subseteq WoState /\ "none" \notin WoState /\ "none" \in PermitState
  BY DEF WoState, WO_TRANSITIONS, PermitState, PERMIT_TRANSITIONS

\* What HSE has approved stays approved: from there a permit is opened, extended, closed.
LEMMA ApprovalLasts ==
  ASSUME NEW from \in {"APPROVED_BY_HSE", "OPEN", "EXTENDED", "CLOSED"},
         NEW to \in PERMIT_TRANSITIONS[from]
  PROVE  to \in {"APPROVED_BY_HSE", "OPEN", "EXTENDED", "CLOSED"}
  BY DEF PERMIT_TRANSITIONS

\* Permits move between their states.
LEMMA PermitMovesStay ==
  ASSUME NEW from \in PermitState, NEW to \in PERMIT_TRANSITIONS[from]
  PROVE  to \in PermitState
  BY DEF PermitState, PERMIT_TRANSITIONS

-----------------------------------------------------------------------------
(* Types                                                                   *)

\* The records of calls in progress.
LEMMA CallKinds ==
  ASSUME WoTypeOK, NEW c \in WoCall
  PROVE  /\ Moving(c) => woCall[c] \in MoveCall
         /\ woCall[c].at \in {"labor", "total"} => woCall[c] \in LaborCall
  BY DEF WoTypeOK, Moving, WoIdle, MoveCall, LaborCall

\* A write that raises the version of an order.
LEMMA VersionTypes ==
  ASSUME WoTypeOK, NEW o \in Order, NEW need \in BOOLEAN,
         order' = [order EXCEPT ![o] =
             [order[o] EXCEPT !.version = order[o].version + 1, !.permitNeeded = need]]
  PROVE  order' \in [Order -> OrderRow]
<1>1. order[o] \in OrderRow /\ order[o].version + 1 \in Nat
  BY DEF WoTypeOK, OrderRow
<1>2. [order[o] EXCEPT !.version = order[o].version + 1, !.permitNeeded = need] \in OrderRow
  BY <1>1 DEF OrderRow
<1> QED
  BY <1>2 DEF WoTypeOK

\* Before anything happens there is no order and no call.
LEMMA WoInitTypes == WoInit => WoTypeOK /\ KnownOrders /\ MovesAllowed /\ StartsSeen
<1> SUFFICES ASSUME WoInit PROVE WoTypeOK /\ KnownOrders /\ MovesAllowed /\ StartsSeen
  OBVIOUS
<1>1. /\ order \in [Order -> OrderRow]
      /\ KnownOrders
  BY DEF WoInit, NoOrder, KnownOrders, Known, OrderRow, WoIdle
<1>2. woLog \in [Order -> LogEntry]
  BY DEF WoInit, NoRow, LogEntry
<1>3. permit \in [Order -> [status : PermitState, valid : BOOLEAN]]
  BY DraftIsState DEF WoInit
<1>4. woCall \in [WoCall -> {WoIdle} \cup MoveCall \cup LaborCall] /\ \A c \in WoCall : ~Moving(c)
  BY DEF WoInit, WoIdle, Moving
<1> QED
  BY <1>1, <1>2, <1>3, <1>4 DEF WoTypeOK, MovesAllowed, StartsSeen

\* What opening an order writes.
LEMMA Opened ==
  ASSUME NEW o \in Order, OpenOrder(o)
  PROVE  \E need \in BOOLEAN :
           order' = [order EXCEPT ![o] = [status |-> "DRAFT", version |-> 1, permitNeeded |-> need]]
<1>1. PICK requirePermit \in BOOLEAN, emergency \in BOOLEAN :
        order' = [order EXCEPT ![o] = [status |-> "DRAFT", version |-> 1,
                                       permitNeeded |-> requirePermit \/ emergency]]
  BY Zenon DEF OpenOrder
<1>2. (requirePermit \/ emergency) \in BOOLEAN
  BY Zenon
<1> QED
  BY <1>1, <1>2, Zenon

\* What a push of an order writes.
LEMMA Rewritten ==
  ASSUME NEW o \in Order, DeviceWrites(o)
  PROVE  \E need \in BOOLEAN :
           order' = [order EXCEPT ![o] =
             [order[o] EXCEPT !.version = order[o].version + 1, !.permitNeeded = need]]
  BY DEF DeviceWrites

\* A step on an order.
LEMMA OrderTypes ==
  ASSUME WoTypeOK, NEW o \in Order,
         \/ OpenOrder(o) \/ PermitMoves(o) \/ PermitExpires(o)
         \/ DeviceCreates(o) \/ DeviceWrites(o) \/ DeviceLogs(o)
  PROVE  WoTypeOK'
<1>1. CASE OpenOrder(o)
  <2>1. woLog' \in [Order -> LogEntry]
    <3>1. [from |-> "none", to |-> "DRAFT"] \in LogEntry
      BY DraftIsState DEF LogEntry
    <3> QED
      BY <1>1, <3>1 DEF OpenOrder, WoTypeOK
  <2>2. order' \in [Order -> OrderRow]
    <3>1. PICK need \in BOOLEAN :
            order' = [order EXCEPT ![o] = [status |-> "DRAFT", version |-> 1, permitNeeded |-> need]]
      BY <1>1, Opened
    <3> QED
      BY <3>1, DraftIsState DEF WoTypeOK, OrderRow
  <2> QED
    BY <1>1, <2>1, <2>2 DEF OpenOrder, WoTypeOK
<1>2. CASE DeviceWrites(o)
  <2>1. PICK need \in BOOLEAN :
          order' = [order EXCEPT ![o] =
             [order[o] EXCEPT !.version = order[o].version + 1, !.permitNeeded = need]]
    BY <1>2, Rewritten
  <2>2. order' \in [Order -> OrderRow]
    BY <2>1, VersionTypes
  <2> QED
    BY <1>2, <2>2 DEF DeviceWrites, WoTypeOK
<1>5. CASE DeviceCreates(o)
  <2>1. order' \in [Order -> OrderRow]
    BY <1>5, DraftIsState DEF DeviceCreates, WoTypeOK, OrderRow
  <2> QED
    BY <1>5, <2>1 DEF DeviceCreates, WoTypeOK
<1>6. CASE DeviceLogs(o)
  <2>1. NoRow \in LogEntry
    BY DEF NoRow, LogEntry
  <2> QED
    BY <1>6, <2>1 DEF DeviceLogs, WoTypeOK
<1>3. CASE PermitMoves(o)
  <2>1. PICK to \in PERMIT_TRANSITIONS[permit[o].status] :
          permit' = [permit EXCEPT ![o] = [status |-> to, valid |-> to \notin {"CLOSED", "CANCELLED"}]]
    BY <1>3 DEF PermitMoves
  <2>2. permit[o].status \in PermitState
    BY DEF WoTypeOK
  <2>3. to \in PermitState
    BY <2>2, PermitMovesStay
  <2>4. permit' \in [Order -> [status : PermitState, valid : BOOLEAN]]
    BY <2>1, <2>3 DEF WoTypeOK
  <2> QED
    BY <1>3, <2>4 DEF PermitMoves, WoTypeOK
<1>4. CASE PermitExpires(o)
  BY <1>4 DEF PermitExpires, WoTypeOK
<1> QED
  BY <1>1, <1>2, <1>3, <1>4, <1>5, <1>6

\* A step of a call.
LEMMA CallTypes ==
  ASSUME WoTypeOK, KnownOrders, NEW c \in WoCall,
         \/ \E o \in Order : TransitionRead(c, o) \/ LaborRead(c, o)
         \/ PermitRead(c) \/ TransitionWrite(c) \/ LaborInsert(c) \/ LaborTotal(c) \/ LaborDies(c)
  PROVE  WoTypeOK'
<1>1. ASSUME NEW o \in Order, TransitionRead(c, o)
      PROVE  WoTypeOK'
  <2>1. order[o].status \in WoState /\ order[o].version \in Nat
    BY <1>1 DEF TransitionRead, KnownOrders, WoTypeOK, OrderRow
  <2>2. PICK to \in WoState, at \in {"permit", "write"} :
          woCall' = [woCall EXCEPT ![c] = [at |-> at, order |-> o, from |-> order[o].status, to |-> to,
                                           version |-> order[o].version]]
    BY <1>1, Zenon DEF TransitionRead
  <2>3. woCall' \in [WoCall -> {WoIdle} \cup MoveCall \cup LaborCall]
    BY <2>1, <2>2 DEF WoTypeOK, MoveCall
  <2> QED
    BY <1>1, <2>3 DEF TransitionRead, WoTypeOK
<1>2. ASSUME NEW o \in Order, LaborRead(c, o)
      PROVE  WoTypeOK'
  <2>1. [at |-> "labor", order |-> o] \in LaborCall
    BY DEF LaborCall
  <2> QED
    BY <1>2, <2>1 DEF LaborRead, WoTypeOK
<1>3. CASE PermitRead(c)
  <2>1. woCall[c] \in MoveCall
    BY <1>3, CallKinds DEF PermitRead, WoAt, Moving
  <2>2. [woCall[c] EXCEPT !.at = "write"] \in MoveCall
    BY <2>1 DEF MoveCall
  <2>3. woCall' \in [WoCall -> {WoIdle} \cup MoveCall \cup LaborCall]
    BY <1>3, <2>2 DEF PermitRead, WoTypeOK
  <2> QED
    BY <1>3, <2>3 DEF PermitRead, WoTypeOK
<1>4. CASE TransitionWrite(c)
  <2> DEFINE o == woCall[c].order
             to == woCall[c].to
  <2>1. woCall[c] \in MoveCall
    BY <1>4, CallKinds DEF TransitionWrite, WoAt, Moving
  <2>2. o \in Order /\ to \in WoState /\ [from |-> woCall[c].from, to |-> to] \in LogEntry
    BY <2>1 DEF MoveCall, LogEntry
  <2>3. woCall' \in [WoCall -> {WoIdle} \cup MoveCall \cup LaborCall]
    BY <1>4 DEF TransitionWrite, WoEnd, WoTypeOK
  <2>4. CASE SameVersion(c)
    <3>1. order' = [order EXCEPT ![o].status = to, ![o].version = @ + 1]
      BY <1>4, <2>4 DEF TransitionWrite
    <3>2. woLog' = [woLog EXCEPT ![o] = [from |-> woCall[c].from, to |-> to]]
      BY <1>4, <2>4 DEF TransitionWrite
    <3> HIDE DEF o, to
    <3>3. order' \in [Order -> OrderRow]
      <4>1. order[o] \in OrderRow /\ order[o].version + 1 \in Nat
        BY <2>2 DEF WoTypeOK, OrderRow
      <4>2. [order[o] EXCEPT !.status = to, !.version = order[o].version + 1] \in OrderRow
        BY <2>2, <4>1 DEF OrderRow
      <4>3. order' = [order EXCEPT ![o] =
                        [order[o] EXCEPT !.status = to, !.version = order[o].version + 1]]
        BY <3>1
      <4> QED
        BY <4>2, <4>3 DEF WoTypeOK
    <3>4. woLog' \in [Order -> LogEntry]
      BY <2>2, <3>2 DEF WoTypeOK
    <3> QED
      BY <1>4, <2>3, <3>3, <3>4 DEF TransitionWrite, WoTypeOK
  <2>5. CASE ~SameVersion(c)
    BY <1>4, <2>3, <2>5 DEF TransitionWrite, WoTypeOK
  <2> QED
    BY <2>4, <2>5
<1>5. CASE LaborInsert(c) \/ LaborTotal(c) \/ LaborDies(c)
  <2>1. woCall[c] \in LaborCall
    BY <1>5, CallKinds DEF LaborInsert, LaborTotal, LaborDies, WoAt
  <2>2. woCall[c].order \in Order /\ [woCall[c] EXCEPT !.at = "total"] \in LaborCall
    BY <2>1 DEF LaborCall
  <2>3. woCall' \in [WoCall -> {WoIdle} \cup MoveCall \cup LaborCall]
    BY <1>5, <2>2 DEF LaborInsert, LaborTotal, LaborDies, WoEnd, WoTypeOK
  <2>4. CASE LaborTotal(c)
    <3>1. order' \in [Order -> OrderRow]
      BY <2>2, <2>4 DEF LaborTotal, WoTypeOK, OrderRow
    <3> QED
      BY <2>3, <2>4, <3>1 DEF LaborTotal, WoTypeOK
  <2>5. CASE LaborInsert(c) \/ LaborDies(c)
    BY <2>3, <2>5 DEF LaborInsert, LaborDies, WoTypeOK
  <2> QED
    BY <1>5, <2>4, <2>5
<1> QED
  BY <1>1, <1>2, <1>3, <1>4, <1>5

\* Every step keeps the types.
LEMMA WoTypesStay ==
  ASSUME WoTypeOK, KnownOrders, [WoNext]_woVars
  PROVE  WoTypeOK'
<1>1. CASE WoNext
  BY <1>1, OrderTypes, CallTypes DEF WoNext
<1>2. CASE UNCHANGED woVars
  BY <1>2 DEF WoTypeOK, woVars
<1> QED
  BY <1>1, <1>2

-----------------------------------------------------------------------------
(* What a step may do to an order, its permit, a call                      *)

\* The transition of call c takes place.
Moves(c, o) ==
  /\ Moving(c) /\ woCall[c].order = o /\ SameVersion(c)
  /\ order'[o] = [order[o] EXCEPT !.status = woCall[c].to, !.version = order[o].version + 1]
  /\ woLog'[o] = [from |-> woCall[c].from, to |-> woCall[c].to]
  /\ woCall[c].at = "write"

\* An order is opened, moves, or gets a new version with the status it had.
OrderStep(o) ==
  \/ ~Known(o) /\ order'[o].status \in {"DRAFT", "SUBMITTED"} /\ order'[o].version = 1
  \/ \E c \in WoCall : Moves(c, o)
  \/ order'[o] = order[o]
  \/ /\ Known(o) /\ order'[o].version = order[o].version + 1
     /\ order'[o].status = order[o].status

\* What one step may do to an order.
LEMMA OrderSteps ==
  ASSUME WoTypeOK, KnownOrders, [WoNext]_woVars, NEW o \in Order
  PROVE  OrderStep(o)
<1>1. ASSUME NEW p \in Order, ~Known(p), NEW first \in {"DRAFT", "SUBMITTED"}, NEW need \in BOOLEAN,
             order' = [order EXCEPT ![p] = [status |-> first, version |-> 1, permitNeeded |-> need]]
      PROVE  OrderStep(o)
  <2>1. CASE p = o
    BY <1>1, <2>1 DEF OrderStep, WoTypeOK
  <2>2. CASE p # o
    BY <1>1, <2>2 DEF OrderStep, WoTypeOK
  <2> QED
    BY <2>1, <2>2
<1>2. ASSUME NEW p \in Order, Known(p), NEW need \in BOOLEAN,
             order' = [order EXCEPT ![p] =
             [order[p] EXCEPT !.version = order[p].version + 1, !.permitNeeded = need]]
      PROVE  OrderStep(o)
  <2>1. order[o] \in OrderRow
    BY DEF WoTypeOK
  <2>2. CASE p = o
    <3>1. order'[o] = [order[o] EXCEPT !.version = order[o].version + 1, !.permitNeeded = need]
      BY <1>2, <2>2 DEF WoTypeOK
    <3> QED
      BY <1>2, <2>1, <2>2, <3>1 DEF OrderStep, OrderRow
  <2>3. CASE p # o
    BY <1>2, <2>3 DEF OrderStep, WoTypeOK
  <2> QED
    BY <2>2, <2>3
<1>3. ASSUME NEW c \in WoCall, TransitionWrite(c)
      PROVE  OrderStep(o)
  <2>1. woCall[c] \in MoveCall /\ Moving(c) /\ woCall[c].at = "write"
    BY <1>3, CallKinds DEF TransitionWrite, WoAt, Moving
  <2>2. CASE ~SameVersion(c) \/ woCall[c].order # o
    <3>1. order'[o] = order[o]
      BY <1>3, <2>1, <2>2 DEF TransitionWrite, WoTypeOK, MoveCall
    <3> QED
      BY <3>1 DEF OrderStep
  <2>3. CASE SameVersion(c) /\ woCall[c].order = o
    <3>1. order' = [order EXCEPT ![o] =
                      [order[o] EXCEPT !.status = woCall[c].to, !.version = order[o].version + 1]]
      BY <1>3, <2>3 DEF TransitionWrite
    <3>2. woLog' = [woLog EXCEPT ![o] = [from |-> woCall[c].from, to |-> woCall[c].to]]
      BY <1>3, <2>3 DEF TransitionWrite
    <3>3. Moves(c, o)
      BY <2>1, <2>3, <3>1, <3>2 DEF Moves, WoTypeOK
    <3> QED
      BY <3>3 DEF OrderStep
  <2> QED
    BY <2>2, <2>3
<1>4. ASSUME NEW c \in WoCall, LaborTotal(c)
      PROVE  OrderStep(o)
  <2>1. PICK p : p = woCall[c].order
    OBVIOUS
  <2>2. p \in Order /\ order[p] \in OrderRow /\ Known(p)
    BY <1>4, <2>1, CallKinds DEF LaborTotal, WoAt, LaborCall, WoTypeOK, KnownOrders
  <2>3. order' = [order EXCEPT ![p].version = @ + 1]
    BY <1>4, <2>1 DEF LaborTotal
  <2>4. order' = [order EXCEPT ![p] =
             [order[p] EXCEPT !.version = order[p].version + 1, !.permitNeeded = order[p].permitNeeded]]
    BY <2>2, <2>3 DEF WoTypeOK, OrderRow
  <2>5. order[p].permitNeeded \in BOOLEAN
    BY <2>2 DEF OrderRow
  <2> QED
    BY <1>2, <2>2, <2>4, <2>5
<1>5. ASSUME UNCHANGED order
      PROVE  OrderStep(o)
  BY <1>5 DEF OrderStep
<1>6. ASSUME NEW p \in Order, OpenOrder(p) \/ DeviceCreates(p)
      PROVE  OrderStep(o)
  <2>1. ~Known(p)
    BY <1>6 DEF OpenOrder, DeviceCreates
  <2>2. CASE OpenOrder(p)
    BY <1>1, <2>1, <2>2, Opened
  <2>3. CASE DeviceCreates(p)
    BY <1>1, <2>1, <2>3 DEF DeviceCreates
  <2> QED
    BY <1>6, <2>2, <2>3
<1>7. ASSUME NEW p \in Order, DeviceWrites(p)
      PROVE  OrderStep(o)
  <2>1. Known(p)
    BY <1>7 DEF DeviceWrites
  <2> QED
    BY <1>2, <1>7, <2>1, Rewritten
<1> QED
  BY <1>3, <1>4, <1>5, <1>6, <1>7
     DEF WoNext, woVars, DeviceLogs, PermitMoves, PermitExpires, TransitionRead, LaborRead,
         PermitRead, LaborInsert, LaborDies

\* What HSE has approved stays approved.
LEMMA ApprovedStays ==
  ASSUME WoTypeOK, [WoNext]_woVars, NEW o \in Order, Approved(o)
  PROVE  Approved(o)'
<1>1. ASSUME NEW p \in Order, PermitMoves(p)
      PROVE  Approved(o)'
  <2>1. PICK to \in PERMIT_TRANSITIONS[permit[p].status] :
          permit' = [permit EXCEPT ![p] = [status |-> to, valid |-> to \notin {"CLOSED", "CANCELLED"}]]
    BY <1>1 DEF PermitMoves
  <2>2. p = o => to \in {"APPROVED_BY_HSE", "OPEN", "EXTENDED", "CLOSED"}
    BY <2>1, ApprovalLasts DEF Approved
  <2> QED
    BY <2>1, <2>2 DEF Approved, WoTypeOK
<1>2. ASSUME NEW p \in Order, PermitExpires(p)
      PROVE  Approved(o)'
  BY <1>2 DEF PermitExpires, Approved, WoTypeOK
<1>3. ASSUME UNCHANGED permit
      PROVE  Approved(o)'
  BY <1>3 DEF Approved
<1> QED
  BY <1>1, <1>2, <1>3
     DEF WoNext, woVars, OpenOrder, DeviceCreates, DeviceWrites, DeviceLogs, TransitionRead, LaborRead,
         PermitRead, TransitionWrite, LaborInsert, LaborTotal, LaborDies

\* A transition under way is as it was, has just seen its permit, or has just begun.
GoesOn(c) ==
  \/ woCall'[c] = woCall[c]
  \/ /\ woCall[c].at = "permit" /\ woCall'[c] = [woCall[c] EXCEPT !.at = "write"]
     /\ InForce(permit[woCall[c].order])

Begins(c, o) ==
  /\ UNCHANGED <<order, permit>> /\ Known(o)
  /\ woCall'[c].order = o /\ woCall'[c].from = order[o].status
  /\ woCall'[c].version = order[o].version
  /\ woCall'[c].at = IF woCall'[c].to = "IN_PROGRESS" /\ order[o].permitNeeded THEN "permit" ELSE "write"
  /\ \E t \in WO_TRANSITIONS[order[o].status] : t.to = woCall'[c].to

\* A transition under way goes on or has just begun.
LEMMA MoveSteps ==
  ASSUME WoTypeOK, [WoNext]_woVars, NEW c \in WoCall, Moving(c)'
  PROVE  (Moving(c) /\ GoesOn(c)) \/ \E o \in Order : Begins(c, o)
<1>1. ASSUME woCall'[c] = woCall[c]
      PROVE  Moving(c) /\ GoesOn(c)
  BY <1>1 DEF Moving, GoesOn
<1>2. ASSUME NEW d \in WoCall, NEW o \in Order, TransitionRead(d, o)
      PROVE  (Moving(c) /\ GoesOn(c)) \/ Begins(c, o)
  <2>1. CASE d = c
    <3>1. PICK u \in WoUser, to \in WoState :
            /\ CanTransition(order[o].status, to, u) # {}
            /\ woCall' = [woCall EXCEPT ![c] =
                 [at |-> IF to = "IN_PROGRESS" /\ order[o].permitNeeded THEN "permit" ELSE "write",
                  order |-> o, from |-> order[o].status, to |-> to, version |-> order[o].version]]
      BY <1>2, <2>1, Zenon DEF TransitionRead
    <3>2. PICK at : at = IF to = "IN_PROGRESS" /\ order[o].permitNeeded THEN "permit" ELSE "write"
      OBVIOUS
    <3>a. woCall'[c] = [at |-> at, order |-> o, from |-> order[o].status, to |-> to,
                        version |-> order[o].version]
      BY <3>1, <3>2, Zenon DEF WoTypeOK
    <3>b. /\ woCall'[c].order = o /\ woCall'[c].from = order[o].status /\ woCall'[c].to = to
          /\ woCall'[c].version = order[o].version /\ woCall'[c].at = at
      BY <3>a
    <3>3. /\ woCall'[c].order = o /\ woCall'[c].from = order[o].status /\ woCall'[c].to = to
          /\ woCall'[c].version = order[o].version
          /\ woCall'[c].at = IF to = "IN_PROGRESS" /\ order[o].permitNeeded THEN "permit" ELSE "write"
      BY <3>2, <3>b, Zenon
    <3>4. \E t \in WO_TRANSITIONS[order[o].status] : t.to = to
      BY <3>1 DEF CanTransition
    <3>5. UNCHANGED <<order, permit>> /\ Known(o)
      BY <1>2 DEF TransitionRead
    <3>6. woCall'[c].at = IF woCall'[c].to = "IN_PROGRESS" /\ order[o].permitNeeded
                          THEN "permit" ELSE "write"
      BY <3>3, Zenon
    <3>7. \E t \in WO_TRANSITIONS[order[o].status] : t.to = woCall'[c].to
      BY <3>3, <3>4
    <3>8. UNCHANGED order /\ UNCHANGED permit
      BY <3>5
    <3> QED
      BY <3>3, <3>5, <3>6, <3>7, <3>8 DEF Begins
  <2>2. CASE d # c
    <3>1. woCall'[c] = woCall[c]
      BY <1>2, <2>2 DEF TransitionRead, WoTypeOK
    <3> QED
      BY <1>1, <3>1
  <2> QED
    BY <2>1, <2>2
<1>3. ASSUME NEW d \in WoCall, PermitRead(d)
      PROVE  Moving(c) /\ GoesOn(c)
  <2>1. CASE d = c
    <3>1. woCall'[c] = IF InForce(permit[woCall[c].order])
                       THEN [woCall[c] EXCEPT !.at = "write"] ELSE WoIdle
      BY <1>3, <2>1 DEF PermitRead, WoTypeOK
    <3>2. woCall'[c] # WoIdle
      BY DEF Moving, WoIdle
    <3> QED
      BY <1>3, <2>1, <3>1, <3>2 DEF PermitRead, WoAt, Moving, GoesOn
  <2>2. CASE d # c
    BY <1>1, <1>3, <2>2 DEF PermitRead, WoTypeOK
  <2> QED
    BY <2>1, <2>2
<1>4. ASSUME NEW d \in WoCall, woCall' = [woCall EXCEPT ![d] = WoIdle]
      PROVE  Moving(c) /\ GoesOn(c)
  <2>1. d # c
    BY <1>4 DEF Moving, WoIdle, WoTypeOK
  <2> QED
    BY <1>1, <1>4, <2>1 DEF WoTypeOK
<1>5. ASSUME NEW d \in WoCall, LaborInsert(d)
      PROVE  Moving(c) /\ GoesOn(c)
  <2>1. d # c
    <3>1. woCall[d] \in LaborCall
      BY <1>5, CallKinds DEF LaborInsert, WoAt
    <3>2. woCall'[d].at = "total"
      BY <1>5, <3>1 DEF LaborInsert, WoTypeOK, LaborCall
    <3> QED
      BY <3>2 DEF Moving
  <2> QED
    BY <1>1, <1>5, <2>1 DEF LaborInsert, WoTypeOK
<1>6. ASSUME NEW d \in WoCall, NEW o \in Order, LaborRead(d, o)
      PROVE  Moving(c) /\ GoesOn(c)
  <2>1. d # c
    BY <1>6 DEF LaborRead, Moving, WoTypeOK
  <2> QED
    BY <1>1, <1>6, <2>1 DEF LaborRead, WoTypeOK
<1> QED
  BY <1>1, <1>2, <1>3, <1>4, <1>5, <1>6
     DEF WoNext, woVars, OpenOrder, DeviceCreates, DeviceWrites, DeviceLogs, PermitMoves,
         PermitExpires, TransitionWrite, LaborTotal, LaborDies, WoEnd

-----------------------------------------------------------------------------
(* The invariants                                                          *)

\* An order that changes gets a newer version.
LEMMA OrdersAge ==
  ASSUME WoTypeOK, KnownOrders, NEW o \in Order, OrderStep(o)
  PROVE  /\ order'[o] = order[o] \/ order'[o].version > order[o].version
         /\ Known(o) => Known(o)'
         /\ order[o].version \in Nat
<1>0. order[o] \in OrderRow /\ order[o].version \in Nat
  BY DEF WoTypeOK, OrderRow
<1>1. CASE ~Known(o) /\ order'[o].version = 1
  BY <1>0, <1>1 DEF Known
<1>2. ASSUME NEW c \in WoCall, Moves(c, o)
      PROVE  order'[o].version = order[o].version + 1
  BY <1>0, <1>2 DEF Moves, OrderRow
<1>3. CASE order'[o] = order[o] \/ (Known(o) /\ order'[o].version = order[o].version + 1)
  BY <1>0, <1>3 DEF Known
<1> QED
  BY <1>0, <1>1, <1>2, <1>3 DEF OrderStep, Known

\* What an unfinished transition knows of its order outlives the steps of others.
LEMMA MovesStayAllowed ==
  ASSUME WoTypeOK, KnownOrders, MovesAllowed, [WoNext]_woVars
  PROVE  MovesAllowed'
<1> SUFFICES ASSUME NEW c \in WoCall, Moving(c)'
             PROVE  /\ \E t \in WO_TRANSITIONS[woCall'[c].from] : t.to = woCall'[c].to
                    /\ woCall'[c].version <= order'[woCall'[c].order].version
                    /\ SameVersion(c)' => woCall'[c].from = order'[woCall'[c].order].status
  BY DEF MovesAllowed
<1>1. CASE Moving(c) /\ GoesOn(c)
  <2> DEFINE o == woCall[c].order
  <2>1. woCall[c] \in MoveCall
    BY <1>1, CallKinds
  <2>2. /\ woCall'[c].order = o /\ woCall'[c].from = woCall[c].from
        /\ woCall'[c].to = woCall[c].to /\ woCall'[c].version = woCall[c].version
    BY <1>1, <2>1 DEF GoesOn, MoveCall
  <2>3. o \in Order /\ woCall[c].version \in Nat
    BY <2>1 DEF MoveCall
  <2>4. /\ \E t \in WO_TRANSITIONS[woCall[c].from] : t.to = woCall[c].to
        /\ woCall[c].version <= order[o].version
        /\ woCall[c].version = order[o].version => woCall[c].from = order[o].status
    BY <1>1 DEF MovesAllowed, SameVersion
  <2>5. /\ order'[o] = order[o] \/ order'[o].version > order[o].version
        /\ order[o].version \in Nat
    BY <2>3, OrderSteps, OrdersAge
  <2>6. order'[o].version \in Nat
    BY <2>3, WoTypesStay DEF WoTypeOK, OrderRow
  <2> HIDE DEF o
  <2> QED
    BY <2>2, <2>3, <2>4, <2>5, <2>6 DEF SameVersion
<1>2. ASSUME NEW o \in Order, Begins(c, o)
      PROVE  /\ \E t \in WO_TRANSITIONS[woCall'[c].from] : t.to = woCall'[c].to
             /\ woCall'[c].version <= order'[woCall'[c].order].version
             /\ woCall'[c].from = order'[woCall'[c].order].status
  BY <1>2 DEF Begins, WoTypeOK, OrderRow
<1> QED
  BY <1>1, <1>2, MoveSteps

\* A call stays with its order, and a new one is about an opened order.
LEMMA CallOrders ==
  ASSUME WoTypeOK, [WoNext]_woVars, NEW c \in WoCall, woCall'[c].at # "idle"
  PROVE  \/ woCall[c].at # "idle" /\ woCall'[c].order = woCall[c].order
         \/ woCall'[c].order \in Order /\ Known(woCall'[c].order)
<1>1. ASSUME woCall'[c] = woCall[c]
      PROVE  woCall[c].at # "idle" /\ woCall'[c].order = woCall[c].order
  BY <1>1
<1>2. ASSUME NEW d \in WoCall, NEW o \in Order, TransitionRead(d, o) \/ LaborRead(d, o)
      PROVE  woCall'[c] = woCall[c] \/ (woCall'[c].order = o /\ Known(o))
  <2>1. Known(o)
    BY <1>2 DEF TransitionRead, LaborRead
  <2>2. PICK new : new.order = o /\ woCall' = [woCall EXCEPT ![d] = new]
    <3>1. CASE LaborRead(d, o)
      BY <3>1, Zenon DEF LaborRead
    <3>2. CASE TransitionRead(d, o)
      <4>1. PICK to \in WoState, at \in {"permit", "write"} :
              woCall' = [woCall EXCEPT ![d] = [at |-> at, order |-> o, from |-> order[o].status,
                                               to |-> to, version |-> order[o].version]]
        BY <3>2, Zenon DEF TransitionRead
      <4>2. [at |-> at, order |-> o, from |-> order[o].status, to |-> to,
             version |-> order[o].version].order = o
        OBVIOUS
      <4> QED
        BY <4>1, <4>2, Zenon
    <3> QED
      BY <1>2, <3>1, <3>2
  <2> QED
    BY <2>1, <2>2 DEF WoTypeOK
<1>3. ASSUME NEW d \in WoCall, PermitRead(d) \/ LaborInsert(d)
      PROVE  woCall'[c] = woCall[c] \/ (woCall[c].at # "idle" /\ woCall'[c].order = woCall[c].order)
  <2>1. woCall[d].at # "idle" /\ woCall[d] \in MoveCall \cup LaborCall
    BY <1>3, CallKinds DEF PermitRead, LaborInsert, WoAt, Moving
  <2>2. CASE d = c
    BY <1>3, <2>1, <2>2 DEF PermitRead, LaborInsert, WoTypeOK, WoIdle, MoveCall, LaborCall
  <2>3. CASE d # c
    BY <1>3, <2>3 DEF PermitRead, LaborInsert, WoTypeOK
  <2> QED
    BY <2>2, <2>3
<1>4. ASSUME NEW d \in WoCall, WoEnd(d)
      PROVE  woCall'[c] = woCall[c]
  BY <1>4 DEF WoEnd, WoIdle, WoTypeOK
<1> QED
  BY <1>1, <1>2, <1>3, <1>4
     DEF WoNext, woVars, OpenOrder, DeviceCreates, DeviceWrites, DeviceLogs, PermitMoves,
         PermitExpires, TransitionWrite, LaborTotal, LaborDies

\* An order has a status from the moment it has a version.
LEMMA KnownOrdersStay ==
  ASSUME WoTypeOK, KnownOrders, [WoNext]_woVars
  PROVE  KnownOrders'
<1>1. ASSUME NEW o \in Order
      PROVE  order'[o].status = "none" <=> ~Known(o)'
  <2>1. OrderStep(o)
    BY OrderSteps
  <2>2. order[o] \in OrderRow /\ order[o].version \in Nat
    BY DEF WoTypeOK, OrderRow
  <2>3. order[o].status = "none" <=> ~Known(o)
    BY DEF KnownOrders
  <2>4. ASSUME NEW c \in WoCall, Moves(c, o)
        PROVE  order'[o].status # "none" /\ order'[o].version = order[o].version + 1
    BY <2>2, <2>4, CallKinds, DraftIsState DEF Moves, MoveCall, OrderRow
  <2> QED
    BY <2>1, <2>2, <2>3, <2>4 DEF OrderStep, Known
<1>2. ASSUME NEW c \in WoCall, woCall'[c].at # "idle"
      PROVE  Known(woCall[c].order)'
  <2>1. PICK o : o = woCall'[c].order
    OBVIOUS
  <2>2. o \in Order /\ Known(o)
    <3>1. woCall[c].at # "idle" => woCall[c].order \in Order
      BY DEF WoTypeOK, WoIdle, MoveCall, LaborCall
    <3> QED
      BY <1>2, <2>1, <3>1, CallOrders DEF KnownOrders
  <2>3. order'[o].version > 0
    BY <2>2, OrderSteps, OrdersAge DEF Known
  <2> QED
    BY <2>1, <2>3 DEF Known
<1> QED
  BY <1>1, <1>2 DEF KnownOrders

\* A call that waits for the permit's verdict still starts work on the order, and one that
\* has it writes nothing once the order is another.
LEMMA StartsStaySeen ==
  ASSUME WoTypeOK, KnownOrders, MovesAllowed, StartsSeen, [WoNext]_woVars
  PROVE  StartsSeen'
<1> SUFFICES ASSUME NEW c \in WoCall, Moving(c)'
             PROVE  /\ woCall'[c].at = "permit" => woCall'[c].to = "IN_PROGRESS"
                    /\ (woCall'[c].at = "write" /\ woCall'[c].to = "IN_PROGRESS" /\ SameVersion(c)'
                          /\ order'[woCall'[c].order].permitNeeded) => Approved(woCall[c].order)'
  BY DEF StartsSeen
<1>1. CASE Moving(c) /\ GoesOn(c)
  <2>1. PICK o : o = woCall[c].order
    OBVIOUS
  <2>2. woCall[c] \in MoveCall /\ o \in Order /\ woCall[c].version \in Nat
    BY <1>1, <2>1, CallKinds DEF MoveCall
  <2>3. /\ woCall'[c].order = o /\ woCall'[c].to = woCall[c].to
        /\ woCall'[c].version = woCall[c].version
    BY <1>1, <2>1, <2>2 DEF GoesOn, MoveCall
  <2>4. woCall[c].version <= order[o].version
    BY <1>1, <2>1 DEF MovesAllowed
  <2>5. /\ order'[o] = order[o] \/ order'[o].version > order[o].version
        /\ order[o].version \in Nat
    BY <2>2, OrderSteps, OrdersAge
  <2>6. order'[o].version \in Nat
    BY <2>2, WoTypesStay DEF WoTypeOK, OrderRow
  <2>7. woCall[c].version = order'[o].version => order'[o] = order[o] /\ woCall[c].version = order[o].version
    BY <2>2, <2>4, <2>5, <2>6
  <2>8. SameVersion(c)' => SameVersion(c) /\ order'[o] = order[o]
    BY <2>1, <2>3, <2>7 DEF SameVersion
  <2>9. /\ woCall[c].at = "permit" => woCall[c].to = "IN_PROGRESS"
        /\ (woCall[c].at = "write" /\ woCall[c].to = "IN_PROGRESS" /\ SameVersion(c)
              /\ order[o].permitNeeded) => Approved(o)
    BY <1>1, <2>1 DEF StartsSeen
  <2>10. /\ woCall'[c].at = "permit" => woCall[c].at = "permit"
         /\ woCall'[c].at = "write" => woCall[c].at = "write" \/ Approved(o)
    BY <1>1, <2>1, <2>2 DEF GoesOn, MoveCall, InForce, Approved
  <2>11. Approved(o) => Approved(o)'
    BY <2>2, ApprovedStays
  <2>12. (woCall'[c].at = "write" /\ woCall'[c].to = "IN_PROGRESS" /\ SameVersion(c)'
            /\ order'[o].permitNeeded) => Approved(o)'
    BY <2>3, <2>8, <2>9, <2>10, <2>11
  <2> QED
    BY <2>3, <2>9, <2>10, <2>12 DEF Approved
<1>2. ASSUME NEW o \in Order, Begins(c, o)
      PROVE  /\ woCall'[c].at = "permit" => woCall'[c].to = "IN_PROGRESS"
             /\ ~(woCall'[c].at = "write" /\ woCall'[c].to = "IN_PROGRESS"
                    /\ order'[woCall'[c].order].permitNeeded)
  BY <1>2 DEF Begins
<1> QED
  BY <1>1, <1>2, MoveSteps

-----------------------------------------------------------------------------
OrderIInv == WoTypeOK /\ KnownOrders /\ MovesAllowed /\ StartsSeen

\* The inductive invariant holds in every state.
LEMMA OrderIInvHolds == WoSpec => []OrderIInv
<1>1. OrderIInv /\ [WoNext]_woVars => OrderIInv'
  BY WoTypesStay, KnownOrdersStay, MovesStayAllowed, StartsStaySeen DEF OrderIInv
<1>2. WoInit => OrderIInv
  BY WoInitTypes DEF OrderIInv
<1> QED
  BY <1>1, <1>2, PTL DEF WoSpec

\* What StatusChangesAreLogged and DangerousWorkHadPermit say of a step.
ChangesAreLogged ==
  \A o \in Order : Known(o) /\ order'[o].status # order[o].status =>
    /\ \E t \in WO_TRANSITIONS[order[o].status] : t.to = order'[o].status
    /\ woLog'[o] = [from |-> order[o].status, to |-> order'[o].status]

StartsHavePermit ==
  \A o \in Order :
    order[o].permitNeeded /\ order[o].status # "IN_PROGRESS" /\ order'[o].status = "IN_PROGRESS" =>
      permit[o].status \in {"APPROVED_BY_HSE", "OPEN", "EXTENDED", "CLOSED"}

\* Only a transition changes a status, and only from the one its call had read.
LEMMA OnlyTransitions ==
  ASSUME OrderIInv, [WoNext]_woVars, NEW o \in Order,
         order'[o].status # order[o].status, Known(o) \/ order'[o].status = "IN_PROGRESS"
  PROVE  \E c \in WoCall : Moves(c, o) /\ order'[o].status = woCall[c].to /\ order[o].status = woCall[c].from
<1>1. PICK c \in WoCall : Moves(c, o)
  BY OrderSteps DEF OrderStep, OrderIInv
<1>2. order[o] \in OrderRow
  BY DEF OrderIInv, WoTypeOK
<1>3. order'[o].status = woCall[c].to
  BY <1>1, <1>2 DEF Moves, OrderRow
<1>4. order[o].status = woCall[c].from
  BY <1>1 DEF Moves, MovesAllowed, OrderIInv
<1> QED
  BY <1>1, <1>3, <1>4

\* An order's status changes only along the domain's table, from the status it has at that
\* moment, and the log row written with the change names both, whatever calls and pushes
\* go on beside it.
THEOREM StatusChangesFollowTheTable == WoSpec => StatusChangesAreLogged
<1>1. ASSUME OrderIInv, [WoNext]_woVars
      PROVE  ChangesAreLogged
  <2> SUFFICES ASSUME NEW o \in Order, Known(o), order'[o].status # order[o].status
               PROVE  /\ \E t \in WO_TRANSITIONS[order[o].status] : t.to = order'[o].status
                      /\ woLog'[o] = [from |-> order[o].status, to |-> order'[o].status]
    BY DEF ChangesAreLogged
  <2>1. PICK c \in WoCall : Moves(c, o) /\ order'[o].status = woCall[c].to /\ order[o].status = woCall[c].from
    BY <1>1, OnlyTransitions
  <2>2. \E t \in WO_TRANSITIONS[woCall[c].from] : t.to = woCall[c].to
    BY <1>1, <2>1 DEF OrderIInv, MovesAllowed, Moves
  <2> QED
    BY <2>1, <2>2 DEF Moves
<1>2. OrderIInv /\ [WoNext]_woVars => [ChangesAreLogged]_woVars
  BY <1>1
<1>3. WoSpec => [][ChangesAreLogged]_woVars
  BY <1>2, OrderIInvHolds, PTL DEF WoSpec
<1> QED
  BY <1>3, PTL DEF StatusChangesAreLogged, ChangesAreLogged

\* Work on an order that needs a permit starts only when HSE has approved one, whatever
\* happens to the permit and to the need of one during the call.
THEOREM PermitsComeFirst == WoSpec => DangerousWorkHadPermit
<1>1. ASSUME OrderIInv, [WoNext]_woVars
      PROVE  StartsHavePermit
  <2> SUFFICES ASSUME NEW o \in Order, order[o].permitNeeded, order[o].status # "IN_PROGRESS",
                      order'[o].status = "IN_PROGRESS"
               PROVE  Approved(o)
    BY DEF StartsHavePermit, Approved
  <2>1. PICK c \in WoCall : Moves(c, o) /\ order'[o].status = woCall[c].to
    BY <1>1, OnlyTransitions
  <2> QED
    BY <1>1, <2>1 DEF OrderIInv, StartsSeen, Moves
<1>2. OrderIInv /\ [WoNext]_woVars => [StartsHavePermit]_woVars
  BY <1>1
<1>3. WoSpec => [][StartsHavePermit]_woVars
  BY <1>2, OrderIInvHolds, PTL DEF WoSpec
<1> QED
  BY <1>3, PTL DEF DangerousWorkHadPermit, StartsHavePermit

-----------------------------------------------------------------------------
(* Shift logs: a request that found a log finds it there with its preparer.  *)

Row == [status : {"DRAFT", "APPROVED", "LOCKED"}, by : Writer, approved : BOOLEAN]

Kept == {NoLog} \cup Row

Saving == [at : {"saving"}, shift : Shift, action : {"SAVE"}, user : Writer, seen : Kept]
Deciding == [at : {"deciding"}, shift : Shift, action : {"APPROVE", "LOCK", "REOPEN"},
             user : {"head"}, seen : Kept]

LogTypeOK ==
  /\ log \in [Shift -> Kept]
  /\ logCall \in [LogCall -> {NoLogCall} \cup Saving \cup Deciding]

\* A request under way that found a log finds it at its end, with the same preparer.
CallFits(k) ==
  logCall[k].at # "idle" =>
    /\ logCall[k].seen # NoLog => log[logCall[k].shift] # NoLog
                                  /\ log[logCall[k].shift].by = logCall[k].seen.by
    /\ logCall[k].at = "deciding" => logCall[k].seen # NoLog

LogInv == LogTypeOK /\ \A k \in LogCall : CallFits(k)

\* The log of a shift, once there, keeps its preparer.
PreparerStays(s) == log[s] # NoLog => log'[s] # NoLog /\ log'[s].by = log[s].by

\* The records of requests in progress.
LEMMA Kinds ==
  ASSUME LogTypeOK, NEW k \in LogCall
  PROVE  /\ logCall[k].at = "saving" => logCall[k] \in Saving
         /\ logCall[k].at = "deciding" => logCall[k] \in Deciding
         /\ logCall[k].at # "idle" => logCall[k] \in Saving \cup Deciding
  BY DEF LogTypeOK, NoLogCall, Saving, Deciding

\* A log that is kept has a status.
LEMMA RowKinds ==
  ASSUME NEW r \in Kept
  PROVE  r # NoLog <=> r \in Row /\ r.status # "none"
  BY DEF Kept, NoLog, Row

\* What a save writes.
LEMMA Saves ==
  ASSUME LogInv, NEW k \in LogCall, UpsertWrite(k)
  PROVE  /\ log' \in [Shift -> Kept]
         /\ \A s \in Shift : PreparerStays(s)
<1>1. PICK s : s = logCall[k].shift
  OBVIOUS
<1>2. logCall[k] \in Saving /\ s \in Shift /\ logCall[k].user \in Writer /\ log[s] \in Kept
  BY <1>1, Kinds DEF UpsertWrite, LogInv, Saving, LogTypeOK
<1>3. PICK new : /\ new \in Kept /\ log' = [log EXCEPT ![s] = new]
                 /\ log[s] # NoLog => new # NoLog /\ new.by = log[s].by
  <2>1. CASE logCall[k].seen = NoLog /\ log[s] = NoLog
    <3>1. log' = [log EXCEPT ![s] = [status |-> "DRAFT", by |-> logCall[k].user, approved |-> FALSE]]
      BY <1>1, <2>1 DEF UpsertWrite
    <3> QED
      BY <1>2, <2>1, <3>1 DEF Kept, Row
  <2>2. CASE logCall[k].seen = NoLog /\ log[s] # NoLog
    <3>1. log' = [log EXCEPT ![s] = log[s]]
      BY <1>1, <1>2, <2>2 DEF UpsertWrite, LogInv, LogTypeOK
    <3> QED
      BY <1>2, <2>2, <3>1
  <2>3. CASE logCall[k].seen # NoLog
    <3>1. log[s] # NoLog /\ log[s].by = logCall[k].seen.by
      BY <1>1, <2>3 DEF LogInv, CallFits, UpsertWrite
    <3>2. log' = [log EXCEPT ![s] = [log[s] EXCEPT !.status = "DRAFT", !.by = logCall[k].seen.by]]
      BY <1>1, <2>3 DEF UpsertWrite
    <3>3. log[s] \in Row
      BY <1>2, <3>1, RowKinds
    <3>4. PICK new : new = [log[s] EXCEPT !.status = "DRAFT", !.by = logCall[k].seen.by]
      OBVIOUS
    <3>5. new \in Row /\ new.by = log[s].by
      BY <3>1, <3>3, <3>4 DEF Row
    <3>6. new \in Kept /\ new # NoLog
      BY <3>5 DEF Kept, Row, NoLog
    <3> QED
      BY <3>2, <3>4, <3>5, <3>6
  <2> QED
    BY <2>1, <2>2, <2>3
<1> QED
  BY <1>1, <1>2, <1>3 DEF PreparerStays, LogInv, LogTypeOK

\* What a decision writes.
LEMMA Decides ==
  ASSUME LogInv, NEW k \in LogCall, DecideWrite(k)
  PROVE  /\ log' \in [Shift -> Kept]
         /\ \A s \in Shift : PreparerStays(s)
<1>1. PICK s : s = logCall[k].shift
  OBVIOUS
<1>2. logCall[k] \in Deciding /\ s \in Shift /\ logCall[k].action \in {"APPROVE", "LOCK", "REOPEN"}
  BY <1>1, Kinds DEF DecideWrite, LogInv, Deciding
<1>3. log[s] # NoLog /\ log[s] \in Kept
  BY <1>1, <1>2 DEF DecideWrite, LogInv, CallFits, LogTypeOK
<1>4. log[s] \in Row
  BY <1>3, RowKinds
<1>5. PICK new : new = [log[s] EXCEPT !.status = StatusAfter[logCall[k].action],
                                      !.approved = logCall[k].action # "REOPEN"]
  OBVIOUS
<1>6. StatusAfter[logCall[k].action] \in {"DRAFT", "APPROVED", "LOCKED"}
  BY <1>2 DEF StatusAfter
<1>7. new \in Row /\ new.by = log[s].by
  <2>1. PICK b \in BOOLEAN : b = (logCall[k].action # "REOPEN")
    BY Zenon
  <2>2. new = [log[s] EXCEPT !.status = StatusAfter[logCall[k].action], !.approved = b]
    BY <1>5, <2>1, Zenon
  <2> QED
    BY <1>4, <1>6, <2>2 DEF Row
<1>8. log' = [log EXCEPT ![s] = new]
  BY <1>1, <1>5, Zenon DEF DecideWrite
<1>9. new \in Kept /\ new # NoLog
  BY <1>7 DEF Kept, Row, NoLog
<1> QED
  BY <1>1, <1>2, <1>7, <1>8, <1>9 DEF PreparerStays, LogInv, LogTypeOK

\* What a device's push writes.
LEMMA Submits ==
  ASSUME LogInv, NEW s \in Shift, NEW u \in Writer, DeviceSubmits(s, u)
  PROVE  /\ log' \in [Shift -> Kept]
         /\ \A t \in Shift : PreparerStays(t)
<1>1. PICK new : new = [status |-> "DRAFT", by |-> u, approved |-> FALSE]
  OBVIOUS
<1>2. new \in Kept
  BY <1>1 DEF Kept, Row
<1> QED
  BY <1>1, <1>2 DEF DeviceSubmits, PreparerStays, LogInv, LogTypeOK

\* No step changes who prepared a log.
LEMMA LogStep ==
  ASSUME LogInv, [LogNext]_logVars
  PROVE  \A s \in Shift : PreparerStays(s)
<1>1. CASE log' = log
  BY <1>1 DEF PreparerStays
<1>2. CASE log' # log
  BY <1>2, Saves, Decides, Submits DEF LogNext, logVars, UpsertRead, DecideRead
<1> QED
  BY <1>1, <1>2

\* Every step keeps the preparers.
LEMMA LogInvStays == LogInv /\ [LogNext]_logVars => LogInv'
<1> SUFFICES ASSUME LogInv, [LogNext]_logVars
             PROVE  LogInv'
  OBVIOUS
<1>1. ASSUME NEW k \in LogCall, NEW s \in Shift, NEW u \in Writer, UpsertRead(k, s, u)
      PROVE  LogInv'
  <2>1. PICK new : new = [at |-> "saving", shift |-> s, action |-> "SAVE", user |-> u, seen |-> log[s]]
    OBVIOUS
  <2>2. new \in Saving
    BY <2>1 DEF LogInv, LogTypeOK, Saving
  <2>3. logCall' = [logCall EXCEPT ![k] = new] /\ UNCHANGED log /\ MaySave(log[s], u)
    BY <1>1, <2>1 DEF UpsertRead
  <2>4. LogTypeOK'
    BY <2>2, <2>3 DEF LogInv, LogTypeOK
  <2>5. ASSUME NEW j \in LogCall
        PROVE  CallFits(j)'
    BY <2>1, <2>3 DEF LogInv, LogTypeOK, CallFits
  <2> QED
    BY <2>4, <2>5 DEF LogInv
<1>2. ASSUME NEW k \in LogCall, NEW s \in Shift, NEW action \in DOMAIN StatusAfter,
             DecideRead(k, s, action)
      PROVE  LogInv'
  <2>1. PICK new : new = [at |-> "deciding", shift |-> s, action |-> action, user |-> "head",
                          seen |-> log[s]]
    OBVIOUS
  <2>2. new \in Deciding
    BY <2>1 DEF LogInv, LogTypeOK, Deciding, StatusAfter
  <2>3. logCall' = [logCall EXCEPT ![k] = new] /\ UNCHANGED log /\ log[s] # NoLog
    BY <1>2, <2>1 DEF DecideRead
  <2>4. LogTypeOK'
    BY <2>2, <2>3 DEF LogInv, LogTypeOK
  <2>5. ASSUME NEW j \in LogCall
        PROVE  CallFits(j)'
    BY <2>1, <2>3 DEF LogInv, LogTypeOK, CallFits
  <2> QED
    BY <2>4, <2>5 DEF LogInv
<1>3. ASSUME NEW k \in LogCall, UpsertWrite(k) \/ DecideWrite(k)
      PROVE  LogInv'
  <2>1. log' \in [Shift -> Kept] /\ \A s \in Shift : PreparerStays(s)
    BY <1>3, Saves, Decides
  <2>2. logCall' = [logCall EXCEPT ![k] = NoLogCall]
    BY <1>3 DEF UpsertWrite, DecideWrite
  <2>3. LogTypeOK'
    BY <2>1, <2>2 DEF LogInv, LogTypeOK
  <2>4. ASSUME NEW j \in LogCall
        PROVE  CallFits(j)'
    <3>1. CASE j = k
      BY <2>2, <3>1 DEF LogInv, LogTypeOK, CallFits, NoLogCall
    <3>2. CASE j # k
      <4>1. logCall'[j] = logCall[j]
        BY <2>2, <3>2 DEF LogInv, LogTypeOK
      <4>2. logCall[j].at # "idle" => logCall[j].shift \in Shift
        BY Kinds DEF LogInv, Saving, Deciding
      <4> QED
        BY <2>1, <4>1, <4>2 DEF LogInv, CallFits, PreparerStays
    <3> QED
      BY <3>1, <3>2
  <2> QED
    BY <2>3, <2>4 DEF LogInv
<1>4. ASSUME NEW s \in Shift, NEW u \in Writer, DeviceSubmits(s, u)
      PROVE  LogInv'
  <2>1. log' \in [Shift -> Kept] /\ (\A t \in Shift : PreparerStays(t)) /\ logCall' = logCall
    BY <1>4, Submits DEF DeviceSubmits
  <2>2. LogTypeOK'
    BY <2>1 DEF LogInv, LogTypeOK
  <2>3. ASSUME NEW j \in LogCall
        PROVE  CallFits(j)'
    <3>1. logCall[j].at # "idle" => logCall[j].shift \in Shift
      BY Kinds DEF LogInv, Saving, Deciding
    <3> QED
      BY <2>1, <3>1 DEF LogInv, CallFits, PreparerStays
  <2> QED
    BY <2>2, <2>3 DEF LogInv
<1>5. CASE UNCHANGED logVars
  BY <1>5 DEF logVars, LogInv, LogTypeOK, CallFits
<1> QED
  BY <1>1, <1>2, <1>3, <1>4, <1>5 DEF LogNext

\* A log keeps who prepared it, however many saves and pushes overlap.
THEOREM PreparersStand == LogSpec => PreparerStands
<1>1. LogInit => LogInv
  BY DEF LogInit, LogInv, LogTypeOK, CallFits, Kept, NoLogCall
<1>2. LogSpec => []LogInv
  BY <1>1, LogInvStays, PTL DEF LogSpec
<1>3. LogInv /\ [LogNext]_logVars => \A s \in Shift : PreparerStays(s)
  BY LogStep
<1>4. LogSpec => [][\A s \in Shift : PreparerStays(s)]_logVars
  BY <1>2, <1>3, PTL DEF LogSpec
<1> QED
  BY <1>4 DEF PreparerStands, PreparerStays

-----------------------------------------------------------------------------
(* Attendance: punches in time.                                              *)

\* Of finitely many punches one is the earliest.
LEMMA EarliestExists ==
  ASSUME NEW P, IsFiniteSet(P), P # {}, \A p \in P : p.at \in Nat
  PROVE  \E p \in P : \A q \in P : p.at <= q.at
<1> DEFINE Upto(p) == {q \in P : q.at <= p.at}
<1> DEFINE Heads == {Upto(p) : p \in P}
<1>1. Heads # {} /\ Heads \subseteq SUBSET P
  OBVIOUS
<1>2. Heads \subseteq FiniteSubsetsOf(P)
  BY <1>1, FS_Subset DEF FiniteSubsetsOf
<1>3. PICK M \in Heads : \A T \in Heads : <<T, M>> \notin StrictSubsetOrdering(P)
  <2> HIDE DEF Heads
  <2> QED  BY <1>1, <1>2, FS_StrictSubsetOrderingWellFounded, WFMin
<1>4. PICK p \in P : M = Upto(p)
  OBVIOUS
<1>5. SUFFICES ASSUME NEW q \in P, ~ p.at <= q.at
               PROVE  FALSE
  BY <1>4
<1>6. p.at \in Nat /\ q.at \in Nat
  OBVIOUS
<1>7. Upto(q) \subseteq M /\ p \in M /\ p \notin Upto(q)
  BY <1>4, <1>5, <1>6
<1>8. Upto(q) \in Heads
  OBVIOUS
<1> QED
  BY <1>1, <1>3, <1>7, <1>8 DEF StrictSubsetOrdering

\* Of finitely many punches one is the latest.
LEMMA LatestExists ==
  ASSUME NEW P, IsFiniteSet(P), P # {}, \A p \in P : p.at \in Nat
  PROVE  \E p \in P : \A q \in P : p.at >= q.at
<1> DEFINE Since(p) == {q \in P : q.at >= p.at}
<1> DEFINE Tails == {Since(p) : p \in P}
<1>1. Tails # {} /\ Tails \subseteq SUBSET P
  OBVIOUS
<1>2. Tails \subseteq FiniteSubsetsOf(P)
  BY <1>1, FS_Subset DEF FiniteSubsetsOf
<1>3. PICK M \in Tails : \A T \in Tails : <<T, M>> \notin StrictSubsetOrdering(P)
  <2> HIDE DEF Tails
  <2> QED  BY <1>1, <1>2, FS_StrictSubsetOrderingWellFounded, WFMin
<1>4. PICK p \in P : M = Since(p)
  OBVIOUS
<1>5. SUFFICES ASSUME NEW q \in P, ~ p.at >= q.at
               PROVE  FALSE
  BY <1>4
<1>6. p.at \in Nat /\ q.at \in Nat
  OBVIOUS
<1>7. Since(q) \subseteq M /\ p \in M /\ p \notin Since(q)
  BY <1>4, <1>5, <1>6
<1>8. Since(q) \in Tails
  OBVIOUS
<1> QED
  BY <1>1, <1>3, <1>7, <1>8 DEF StrictSubsetOrdering

\* The start taken from punches is the time of one of them.
LEMMA EarliestIsAPunch ==
  ASSUME NEW P, IsFiniteSet(P), \A p \in P : p.at \in Nat
  PROVE  /\ EarliestOf(P) \in Nat \cup {Absent}
         /\ EarliestOf(P) # Absent => \E p \in P : EarliestOf(P) = p.at
<1>1. CASE P = {}
  BY <1>1 DEF EarliestOf
<1>2. CASE P # {}
  <2>1. \E p \in P : \A q \in P : p.at <= q.at
    BY <1>2, EarliestExists
  <2>2. (CHOOSE p \in P : \A q \in P : p.at <= q.at) \in P
    BY <2>1
  <2> QED  BY <1>2, <2>2 DEF EarliestOf
<1> QED  BY <1>1, <1>2

\* So is the end.
LEMMA LatestIsAPunch ==
  ASSUME NEW P, IsFiniteSet(P), \A p \in P : p.at \in Nat
  PROVE  /\ LatestOf(P) \in Nat \cup {Absent}
         /\ LatestOf(P) # Absent => \E p \in P : LatestOf(P) = p.at
<1>1. CASE P = {}
  BY <1>1 DEF LatestOf
<1>2. CASE P # {}
  <2>1. \E p \in P : \A q \in P : p.at >= q.at
    BY <1>2, LatestExists
  <2>2. (CHOOSE p \in P : \A q \in P : p.at >= q.at) \in P
    BY <2>1
  <2> QED  BY <1>2, <2>2 DEF LatestOf
<1> QED  BY <1>1, <1>2

\* The four shifts in minutes.
LEMMA ShiftTable ==
  ASSUME NEW s \in DOMAIN DEFAULT_SHIFTS, NEW d \in Nat
  PROVE  /\ s \in {"A", "B", "C", "D"} /\ ShiftRank[s] \in 1 .. 4
         /\ s = "A" => shiftFrom(d, s) = d * 1440 + 480 /\ shiftTo(d, s) = d * 1440 + 1200
         /\ s = "B" => shiftFrom(d, s) = d * 1440 + 1200 /\ shiftTo(d, s) = d * 1440 + 1920
         /\ s = "C" => shiftFrom(d, s) = d * 1440 + 480 /\ shiftTo(d, s) = d * 1440 + 960
         /\ s = "D" => shiftFrom(d, s) = d * 1440 + 540 /\ shiftTo(d, s) = d * 1440 + 1020
         /\ DEFAULT_SHIFTS[s].grace \in Nat /\ DEFAULT_SHIFTS[s].lateAfter \in Nat
<1>1. s \in {"A", "B", "C", "D"}
  BY DEF DEFAULT_SHIFTS
<1> QED
  BY <1>1 DEF shiftFrom, shiftTo, DEFAULT_SHIFTS, Hour, ShiftRank

\* A day is in one of seven states, never in that of a row not calculated yet.
LEMMA StatusIsKnown ==
  ASSUME NEW in, NEW out, NEW late, NEW early, NEW s, NEW leave
  PROVE  DayStatus(in, out, late, early, s, leave)
           \in {"PRESENT", "LATE_IN", "EARLY_OUT", "MISSING_IN", "MISSING_OUT", "ABSENT", "LEAVE"}
BY DEF DayStatus

\* Without a leave and with both times known the day counts as worked.
LEMMA StatusOfAFullDay ==
  ASSUME NEW in, NEW out, NEW late, NEW early, NEW s, NEW leave,
         leave = FALSE, in # Absent, out # Absent
  PROVE  DayStatus(in, out, late, early, s, leave) \in {"PRESENT", "LATE_IN", "EARLY_OUT"}
BY DEF DayStatus

-----------------------------------------------------------------------------
(* What a row says.                                                          *)

Time == Nat \cup {Absent}
NoFix == [in |-> Absent, out |-> Absent, ot |-> 0]
Fix(c) == [in |-> c.in, out |-> c.out, ot |-> c.ot]
Fixes == [in : Time, out : Time, ot : Int]

\* The two times of a row are those of the correction, or those of punches of the day;
\* its minutes are numbers, and it has at least the overtime the correction grants.
LEMMA RowOfADay ==
  ASSUME NEW P, P \subseteq DevicePunch, NEW d \in Nat, NEW s \in DOMAIN DEFAULT_SHIFTS,
         NEW fix \in Fixes, NEW leave \in BOOLEAN,
         NEW row, row = evaluateDay(P, d, s, fix, leave)
  PROVE  /\ row.status \in {"PRESENT", "LATE_IN", "EARLY_OUT", "MISSING_IN", "MISSING_OUT",
                            "ABSENT", "LEAVE"}
         /\ row # NoSummary
         /\ {row.worked, row.late, row.early} \subseteq Nat
         /\ row.over \in Int /\ row.over >= fix.ot
         /\ row.outside <= row.count
         /\ ~leave /\ row.firstIn # Absent /\ row.lastOut # Absent
              => row.status \in {"PRESENT", "LATE_IN", "EARLY_OUT"}
         /\ fix.in # Absent => row.firstIn = fix.in
         /\ fix.out # Absent => row.lastOut = fix.out
         /\ fix.in = Absent /\ row.firstIn # Absent
              => \E p \in Linked(P, d, s) : row.firstIn = p.at
         /\ fix.out = Absent /\ row.lastOut # Absent
              => \E p \in Linked(P, d, s) : row.lastOut = p.at
<1> DEFINE link == Linked(P, d, s)
           ins == {p \in link : p.type = "IN"}
           outs == {p \in link : p.type = "OUT"}
           outside == {p \in link : p.at < shiftFrom(d, s) - 15 \/ p.at > shiftTo(d, s) + 15}
           in == IF fix.in # Absent THEN fix.in ELSE EarliestOf(ins)
           out == IF fix.out # Absent THEN fix.out ELSE LatestOf(outs)
           worked == IF Absent \in {in, out} THEN 0 ELSE Minutes(in, out)
           over == worked - (shiftTo(d, s) - shiftFrom(d, s))
           late0 == IF in = Absent THEN 0 ELSE in - shiftFrom(d, s)
           early0 == IF out = Absent THEN 0 ELSE shiftTo(d, s) - out
           late == IF late0 > DEFAULT_SHIFTS[s].grace THEN late0 ELSE 0
           early == IF early0 > DEFAULT_SHIFTS[s].grace THEN early0 ELSE 0
<1>1. link \subseteq DevicePunch /\ IsFiniteSet(link) /\ \A p \in link : p.at \in Nat
  BY AttendanceAssumption, FS_Subset DEF Linked
<1>2. /\ IsFiniteSet(ins) /\ \A p \in ins : p.at \in Nat
      /\ IsFiniteSet(outs) /\ \A p \in outs : p.at \in Nat
      /\ ins \subseteq link /\ outs \subseteq link
  BY <1>1, FS_Subset
<1>3. Cardinality(outside) <= Cardinality(link)
  BY <1>1, FS_Subset
<1>4. /\ EarliestOf(ins) \in Time /\ LatestOf(outs) \in Time
      /\ EarliestOf(ins) # Absent => \E p \in link : EarliestOf(ins) = p.at
      /\ LatestOf(outs) # Absent => \E p \in link : LatestOf(outs) = p.at
  <2> HIDE DEF ins, outs, link
  <2>1. /\ EarliestOf(ins) \in Time
        /\ EarliestOf(ins) # Absent => \E p \in ins : EarliestOf(ins) = p.at
    BY <1>2, EarliestIsAPunch DEF Time
  <2>2. /\ LatestOf(outs) \in Time
        /\ LatestOf(outs) # Absent => \E p \in outs : LatestOf(outs) = p.at
    BY <1>2, LatestIsAPunch DEF Time
  <2> QED  BY <1>2, <2>1, <2>2
<1>5. /\ shiftFrom(d, s) \in Int /\ shiftTo(d, s) \in Int
      /\ DEFAULT_SHIFTS[s].grace \in Nat
  BY ShiftTable
<1>6. row = [status |-> DayStatus(in, out, late, early, s, leave),
             shift |-> s, firstIn |-> in, lastOut |-> out,
             worked |-> worked, late |-> late, early |-> early,
             over |-> fix.ot + IF over >= OtMinMinutes THEN over ELSE 0,
             count |-> Cardinality(link), outside |-> Cardinality(outside)]
  BY DEF evaluateDay
<1> HIDE DEF link, ins, outs, outside
<1>7. in \in Time /\ out \in Time /\ fix.ot \in Int
  BY <1>4 DEF Fixes
<1>8. /\ fix.in # Absent => in = fix.in
      /\ fix.out # Absent => out = fix.out
      /\ fix.in = Absent /\ in # Absent => \E p \in link : in = p.at
      /\ fix.out = Absent /\ out # Absent => \E p \in link : out = p.at
  BY <1>4
<1> HIDE DEF in, out
<1>9. worked \in Nat
  BY <1>7 DEF Minutes, Time, Absent
<1>10. late \in Nat /\ early \in Nat
  BY <1>5, <1>7 DEF Time, Absent
<1> HIDE DEF worked, late, early
<1>11. over \in Int /\ OtMinMinutes \in Nat
  BY <1>5, <1>9 DEF OtMinMinutes, Hour
<1> HIDE DEF over
<1>12. row.over \in Int /\ row.over >= fix.ot
  BY <1>6, <1>7, <1>11
<1>13. row.status = DayStatus(in, out, late, early, s, leave) /\ row.firstIn = in /\ row.lastOut = out
       /\ row.worked = worked /\ row.late = late /\ row.early = early
       /\ row.count = Cardinality(link) /\ row.outside = Cardinality(outside)
  BY <1>6
<1>14. row.status \in {"PRESENT", "LATE_IN", "EARLY_OUT", "MISSING_IN", "MISSING_OUT",
                       "ABSENT", "LEAVE"}
  BY <1>13, StatusIsKnown
<1>15. row # NoSummary
  BY <1>14 DEF NoSummary
<1>16. ASSUME ~leave, in # Absent, out # Absent
       PROVE  row.status \in {"PRESENT", "LATE_IN", "EARLY_OUT"}
  <2>1. leave = FALSE
    BY <1>16
  <2>2. DayStatus(in, out, late, early, s, leave) \in {"PRESENT", "LATE_IN", "EARLY_OUT"}
    BY <1>16, <2>1, StatusOfAFullDay
  <2> QED  BY <1>13, <2>2
<1> USE DEF link
<1> QED
  BY <1>3, <1>8, <1>9, <1>10, <1>12, <1>13, <1>14, <1>15, <1>16

-----------------------------------------------------------------------------
(* Shifts and the days they belong to.                                       *)

\* A punch inside the window of a shift seen from a day is given to such a shift.
LEMMA AssignedInside ==
  ASSUME NEW t \in Nat, NEW d \in Nat, NEW c \in Candidate(t, d), Gap(t, c) = 0
  PROVE  \E x \in Candidate(t, d) : Gap(t, x) = 0 /\ assignShift(t, d) = x.shift
<1> DEFINE nearest == {x \in Candidate(t, d) : \A e \in Candidate(t, d) : Gap(t, x) <= Gap(t, e)}
<1>1. \A x \in Candidate(t, d) :
         /\ Gap(t, x) \in Nat /\ ShiftRank[x.shift] \in {1, 2, 3, 4}
  <2>1. SUFFICES ASSUME NEW x \in Candidate(t, d)
                 PROVE  Gap(t, x) \in Nat /\ ShiftRank[x.shift] \in {1, 2, 3, 4}
    OBVIOUS
  <2>2. x.shift \in {"A", "B", "C", "D"} /\ x.day \in Int
    BY DEF Candidate, DEFAULT_SHIFTS
  <2>3. shiftFrom(x.day, x.shift) \in Int /\ shiftTo(x.day, x.shift) \in Int
    BY <2>2 DEF shiftFrom, shiftTo, DEFAULT_SHIFTS, Hour
  <2>4. Gap(t, x) \in Nat
    BY <2>3 DEF Gap, Least, Dist
  <2> QED  BY <2>2, <2>4 DEF ShiftRank
<1>2. c \in nearest
  BY <1>1
<1>3. \A x \in nearest : Gap(t, x) = 0 /\ x \in Candidate(t, d)
  BY <1>1
<1> DEFINE Rank(x) == ShiftRank[x.shift]
<1>4. \A x \in nearest : Rank(x) \in {1, 2, 3, 4}
  BY <1>1
<1>5. assignShift(t, d) = (CHOOSE x \in nearest : \A e \in nearest : Rank(x) <= Rank(e)).shift
  BY DEF assignShift
<1> HIDE DEF nearest, Rank
<1>6. \E x \in nearest : \A e \in nearest : Rank(x) <= Rank(e)
  <2>1. CASE \E x \in nearest : Rank(x) = 1
    BY <1>4, <2>1
  <2>2. CASE (\E x \in nearest : Rank(x) = 2) /\ ~ \E x \in nearest : Rank(x) = 1
    BY <1>4, <2>2
  <2>3. CASE (\E x \in nearest : Rank(x) = 3) /\ ~ \E x \in nearest : Rank(x) \in {1, 2}
    BY <1>4, <2>3
  <2>4. CASE ~ \E x \in nearest : Rank(x) \in {1, 2, 3}
    BY <1>2, <1>4, <2>4
  <2> QED  BY <2>1, <2>2, <2>3, <2>4
<1> QED
  BY <1>3, <1>5, <1>6

\* A punch at the end of the reach of one day's shift is at the start of the reach of
\* the same shift of the next; of the two recalculations one gives it to another shift.
LEMMA BoundaryPunch ==
  ASSUME NEW d \in Nat, NEW e \in Nat, d < e, NEW s \in DOMAIN DEFAULT_SHIFTS, NEW t \in Nat,
         t <= shiftTo(d, s) + 6 * Hour, t >= shiftFrom(e, s) - 6 * Hour
  PROVE  assignShift(t, d) \notin {"none", s} \/ assignShift(t, e) \notin {"none", s}
<1>1. s \in {"A", "B"} /\ e = d + 1
  BY ShiftTable DEF Hour
<1>2. CASE s = "A"
  <2>1. t = d * 1440 + 1560
    BY <1>1, <1>2, ShiftTable DEF Hour
  <2> DEFINE c == [shift |-> "B", day |-> d]
  <2>2. c \in Candidate(t, d) /\ Gap(t, c) = 0
    BY <2>1 DEF Candidate, Gap, shiftFrom, shiftTo, DEFAULT_SHIFTS, Hour
  <2>3. PICK x \in Candidate(t, d) : assignShift(t, d) = x.shift
    <3> HIDE DEF c
    <3> QED  BY <2>2, AssignedInside
  <2>4. x.shift # "A" /\ x.shift # "none"
    BY <2>1 DEF Candidate, shiftFrom, shiftTo, DEFAULT_SHIFTS, Hour
  <2> QED  BY <1>2, <2>3, <2>4
<1>3. CASE s = "B"
  <2>1. t = e * 1440 + 840
    BY <1>1, <1>3, ShiftTable DEF Hour
  <2> DEFINE c == [shift |-> "A", day |-> e]
  <2>2. c \in Candidate(t, e) /\ Gap(t, c) = 0
    BY <2>1 DEF Candidate, Gap, shiftFrom, shiftTo, DEFAULT_SHIFTS, Hour
  <2>3. PICK x \in Candidate(t, e) : Gap(t, x) = 0 /\ assignShift(t, e) = x.shift
    <3> HIDE DEF c
    <3> QED  BY <2>2, AssignedInside
  <2>4. x.shift # "B" /\ x.shift # "none"
    BY <2>1, <2>3 DEF Candidate, shiftFrom, shiftTo, DEFAULT_SHIFTS, Hour
  <2> QED  BY <1>3, <2>3, <2>4
<1> QED  BY <1>1, <1>2, <1>3

-----------------------------------------------------------------------------
(* The inductive invariant.                                                  *)

DecidingCall == [at : {"deciding"}, asked : Asked]
WorkingCall == [at : {"punches", "writing"}, day : WorkDay, workers : SUBSET Worker,
                punches : SUBSET DevicePunch, approved : SUBSET Asked, blind : SUBSET Worker]

AttTypes ==
  /\ punch \subseteq DevicePunch
  /\ summary = [wd \in Worker \X WorkDay |-> summary[wd]]
  /\ correction \in [Asked -> {"none", "PENDING", "APPROVED", "REJECTED"}]
  /\ recalc \in [RecalcCall -> {NoRecalc} \cup DecidingCall \cup WorkingCall]
  /\ unseen \subseteq Worker \X WorkDay

OwnPunches(w, d) ==
  {p \in DevicePunch : p.worker = w /\ AssignedFrom[<<p, d>>] \in {"none", ShiftOf[<<w, d>>]}}

\* The row of w on day d is what evaluateDay makes of some punches of w and fix.
RowFrom(w, d, fix) ==
  \E P \in SUBSET OwnPunches(w, d) :
     summary[<<w, d>>] = evaluateDay(P, d, ShiftOf[<<w, d>>], fix, <<w, d>> \in OnLeave)

AskedFor(w, d) == {c \in Asked : c.worker = w /\ c.day = d /\ correction[c] # "none"}
ApprovedFor(w, d) == {c \in AskedFor(w, d) : correction[c] = "APPROVED"}

\* Every row was calculated, from nothing but punches or from a correction asked for.
RowEvaluated(w, d) ==
  summary[<<w, d>>] # NoSummary =>
    RowFrom(w, d, NoFix) \/ \E c \in AskedFor(w, d) : RowFrom(w, d, Fix(c))

\* A recalculation that is writing has the corrections approved now of every employee
\* to come, but of those it is blind to.
ReadsCurrent(s) ==
  recalc[s].at = "writing" =>
    /\ \A c \in recalc[s].approved : c.day = recalc[s].day /\ correction[c] # "none"
    /\ \A c \in Asked : c.day = recalc[s].day /\ c.worker \in recalc[s].workers \ recalc[s].blind
                           => (c \in recalc[s].approved <=> correction[c] = "APPROVED")

\* Some recalculation is still to write the row.
Pending(w, d) ==
  \E s \in RecalcCall : /\ recalc[s].at \in {"punches", "writing"}
                        /\ recalc[s].day = d /\ w \in recalc[s].workers

\* A row that misses no decision shows an approved correction, or will be written.
ApprovalSeen(w, d) ==
  ApprovedFor(w, d) # {} /\ <<w, d>> \notin unseen /\ w \notin Terminated =>
    Pending(w, d) \/ \E c \in ApprovedFor(w, d) : RowFrom(w, d, Fix(c))

AttInv ==
  /\ AttTypes
  /\ \A w \in Worker, d \in WorkDay : RowEvaluated(w, d) /\ ApprovalSeen(w, d)
  /\ \A s \in RecalcCall : ReadsCurrent(s)

\* The invariant speaks of the rows, the corrections and the calls of a day only.
LEMMA SameRow ==
  ASSUME NEW w \in Worker, NEW d \in WorkDay, summary'[<<w, d>>] = summary[<<w, d>>]
  PROVE  \A fix : RowFrom(w, d, fix)' <=> RowFrom(w, d, fix)
BY DEF RowFrom, OwnPunches, AssignedFrom

\* A row that is written is evaluated.
LEMMA RowWritten ==
  ASSUME NEW w \in Worker, NEW d \in WorkDay, NEW fix, NEW P \in SUBSET OwnPunches(w, d),
         summary'[<<w, d>>] = evaluateDay(P, d, ShiftOf[<<w, d>>], fix, <<w, d>> \in OnLeave)
  PROVE  RowFrom(w, d, fix)'
BY DEF RowFrom, OwnPunches, AssignedFrom

\* The records of calls in progress.
LEMMA CallRecords ==
  ASSUME AttTypes, NEW s \in RecalcCall
  PROVE  /\ recalc[s].at \in {"idle", "deciding", "punches", "writing"}
         /\ recalc[s].at \in {"punches", "writing"} => recalc[s] \in WorkingCall
         /\ recalc[s].at = "deciding" => recalc[s] \in DecidingCall
         /\ recalc[s].at = "idle" => recalc[s] = NoRecalc
BY DEF AttTypes, WorkingCall, DecidingCall, NoRecalc

\* Before anything happens no row exists and no correction is asked for.
LEMMA InitAttInv == AttInit => AttInv
<1> SUFFICES ASSUME AttInit
             PROVE  AttInv
  OBVIOUS
<1>1. AttTypes
  BY DEF AttInit, AttTypes
<1>2. ASSUME NEW w \in Worker, NEW d \in WorkDay
      PROVE  RowEvaluated(w, d) /\ ApprovalSeen(w, d)
  <2>1. summary[<<w, d>>] = NoSummary /\ ApprovedFor(w, d) = {}
    BY DEF AttInit, ApprovedFor, AskedFor
  <2> QED  BY <2>1 DEF RowEvaluated, ApprovalSeen
<1>3. ASSUME NEW s \in RecalcCall
      PROVE  ReadsCurrent(s)
  BY DEF AttInit, ReadsCurrent, NoRecalc
<1> QED  BY <1>1, <1>2, <1>3 DEF AttInv

-----------------------------------------------------------------------------
(* The invariant step by step.                                               *)

\* A row nobody writes stays evaluated as long as nothing is un-asked for.
LEMMA RowKept ==
  ASSUME NEW w \in Worker, NEW d \in WorkDay, summary'[<<w, d>>] = summary[<<w, d>>],
         \A c \in Asked : correction[c] # "none" => correction'[c] # "none",
         RowEvaluated(w, d)
  PROVE  RowEvaluated(w, d)'
<1>1. \A fix : RowFrom(w, d, fix)' <=> RowFrom(w, d, fix)
  BY SameRow
<1>2. AskedFor(w, d) \subseteq AskedFor(w, d)'
  BY DEF AskedFor
<1> QED
  BY <1>1, <1>2 DEF RowEvaluated, NoFix, Fix

\* A row nobody writes still shows an approved correction as long as the same ones
\* are approved, and who was to write it still is.
LEMMA ApprovalKept ==
  ASSUME NEW w \in Worker, NEW d \in WorkDay, summary'[<<w, d>>] = summary[<<w, d>>],
         \A c \in Asked : c.worker = w /\ c.day = d
            => (correction[c] = "APPROVED" <=> correction'[c] = "APPROVED"),
         <<w, d>> \in unseen => <<w, d>> \in unseen',
         Pending(w, d) => Pending(w, d)',
         ApprovalSeen(w, d)
  PROVE  ApprovalSeen(w, d)'
<1>1. \A fix : RowFrom(w, d, fix)' <=> RowFrom(w, d, fix)
  BY SameRow
<1>2. ApprovedFor(w, d)' = ApprovedFor(w, d)
  BY DEF ApprovedFor, AskedFor
<1> QED
  BY <1>1, <1>2 DEF ApprovalSeen, Fix

\* A punch more changes no row.
LEMMA ImportPunchKeepsInv ==
  ASSUME AttInv, NEW p \in DevicePunch, ImportPunch(p)
  PROVE  AttInv'
<1>1. AttTypes'
  BY DEF AttInv, AttTypes, ImportPunch
<1>2. ASSUME NEW w \in Worker, NEW d \in WorkDay
      PROVE  RowEvaluated(w, d)' /\ ApprovalSeen(w, d)'
  <2>1. Pending(w, d)' <=> Pending(w, d)
    BY DEF Pending, ImportPunch
  <2> QED  BY <2>1, RowKept, ApprovalKept DEF AttInv, ImportPunch
<1>3. ASSUME NEW s \in RecalcCall
      PROVE  ReadsCurrent(s)'
  BY DEF AttInv, ReadsCurrent, ImportPunch
<1> QED  BY <1>1, <1>2, <1>3 DEF AttInv

\* Asking for a correction neither approves it nor changes a row.
LEMMA RequestKeepsInv ==
  ASSUME AttInv, NEW c \in Asked, requestCorrection(c)
  PROVE  AttInv'
<1> USE DEF requestCorrection
<1>0. \A k \in Asked : /\ correction[k] # "none" => correction'[k] # "none"
                       /\ correction[k] = "APPROVED" <=> correction'[k] = "APPROVED"
  BY DEF AttInv, AttTypes
<1>1. AttTypes'
  BY DEF AttInv, AttTypes
<1>2. ASSUME NEW w \in Worker, NEW d \in WorkDay
      PROVE  RowEvaluated(w, d)' /\ ApprovalSeen(w, d)'
  <2>1. Pending(w, d)' <=> Pending(w, d)
    BY DEF Pending
  <2> QED  BY <1>0, <2>1, RowKept, ApprovalKept DEF AttInv
<1>3. ASSUME NEW s \in RecalcCall
      PROVE  ReadsCurrent(s)'
  <2>1. recalc[s].approved \subseteq Asked \/ recalc[s].at # "writing"
    BY CallRecords DEF AttInv, WorkingCall
  <2> QED  BY <1>0, <2>1 DEF AttInv, ReadsCurrent
<1> QED  BY <1>1, <1>2, <1>3 DEF AttInv

\* A recalculation begins with the punches imported so far.
LEMMA StartedRecord ==
  ASSUME AttInv, NEW d \in WorkDay, NEW W \in SUBSET Worker
  PROVE  Started(d, W) \in {NoRecalc} \cup WorkingCall
BY DEF Started, Fetched, WorkingCall, AttInv, AttTypes

\* Starting a recalculation changes no row.
LEMMA StartKeepsInv ==
  ASSUME AttInv, NEW s \in RecalcCall, NEW day \in WorkDay, RecalcStart(s, day)
  PROVE  AttInv'
<1> USE DEF RecalcStart
<1>0. Started(day, Worker) \in {NoRecalc} \cup WorkingCall
  BY StartedRecord
<1>1. AttTypes'
  BY <1>0 DEF AttInv, AttTypes
<1>2. ASSUME NEW w \in Worker, NEW d \in WorkDay
      PROVE  RowEvaluated(w, d)' /\ ApprovalSeen(w, d)'
  <2>1. Pending(w, d) => Pending(w, d)'
    <3>1. SUFFICES ASSUME NEW t \in RecalcCall, recalc[t].at \in {"punches", "writing"},
                          recalc[t].day = d, w \in recalc[t].workers
                   PROVE  Pending(w, d)'
      BY DEF Pending
    <3>2. recalc'[t] = recalc[t]
      BY <3>1 DEF AttInv, AttTypes
    <3> QED  BY <3>1, <3>2 DEF Pending
  <2> QED  BY <2>1, RowKept, ApprovalKept DEF AttInv
<1>3. ASSUME NEW t \in RecalcCall
      PROVE  ReadsCurrent(t)'
  <2>1. CASE t = s
    <3>1. recalc'[s] = Started(day, Worker)
      BY DEF AttInv, AttTypes
    <3> QED  BY <2>1, <3>1 DEF ReadsCurrent, Started, NoRecalc
  <2>2. CASE t # s
    BY <2>2 DEF AttInv, AttTypes, ReadsCurrent
  <2> QED  BY <2>1, <2>2
<1> QED  BY <1>1, <1>2, <1>3 DEF AttInv

\* Reading the corrections makes a call see those approved at that moment.
LEMMA CorrectionsKeepInv ==
  ASSUME AttInv, NEW s \in RecalcCall, RecalcCorrections(s)
  PROVE  AttInv'
<1> USE DEF RecalcCorrections
<1> DEFINE read == {c \in Asked : c.day = recalc[s].day /\ correction[c] = "APPROVED"}
<1>0. /\ recalc[s] \in WorkingCall
      /\ recalc'[s] \in WorkingCall
      /\ recalc'[s].at = "writing" /\ recalc'[s].approved = read
      /\ recalc'[s].day = recalc[s].day /\ recalc'[s].workers = recalc[s].workers
      /\ recalc'[s].blind = recalc[s].blind
  <2>1. recalc[s] \in WorkingCall
    BY CallRecords DEF AttInv
  <2>2. recalc'[s] = [recalc[s] EXCEPT !.at = "writing", !.approved = read]
    BY DEF AttInv, AttTypes
  <2>3. read \in SUBSET Asked
    OBVIOUS
  <2>4. PICK new : new = recalc'[s]
    OBVIOUS
  <2>5. PICK old : old = recalc[s]
    OBVIOUS
  <2> HIDE DEF read, RecalcCorrections
  <2>6. new = [old EXCEPT !.at = "writing", !.approved = read] /\ old \in WorkingCall
    BY <2>1, <2>2, <2>4, <2>5
  <2>7. /\ new \in WorkingCall /\ new.at = "writing" /\ new.approved = read
        /\ new.day = old.day /\ new.workers = old.workers /\ new.blind = old.blind
    BY <2>3, <2>6 DEF WorkingCall
  <2> QED  BY <2>1, <2>4, <2>5, <2>7
<1>a. \A t \in RecalcCall : t # s => recalc'[t] = recalc[t]
  BY DEF AttInv, AttTypes
<1>b. correction' = correction
  OBVIOUS
<1>1. AttTypes'
  <2>1. recalc' \in [RecalcCall -> {NoRecalc} \cup DecidingCall \cup WorkingCall]
    <3>1. recalc' = [t \in RecalcCall |-> recalc'[t]]
      BY DEF AttInv, AttTypes
    <3>2. \A t \in RecalcCall : recalc'[t] \in {NoRecalc} \cup DecidingCall \cup WorkingCall
      BY <1>0, <1>a DEF AttInv, AttTypes
    <3> QED  BY <3>1, <3>2
  <2> QED  BY <2>1 DEF AttInv, AttTypes
<1>2. ASSUME NEW w \in Worker, NEW d \in WorkDay
      PROVE  RowEvaluated(w, d)' /\ ApprovalSeen(w, d)'
  <2>1. Pending(w, d) => Pending(w, d)'
    <3>1. SUFFICES ASSUME NEW t \in RecalcCall, recalc[t].at \in {"punches", "writing"},
                          recalc[t].day = d, w \in recalc[t].workers
                   PROVE  Pending(w, d)'
      BY DEF Pending
    <3>2. recalc'[t].at \in {"punches", "writing"} /\ recalc'[t].day = d /\ w \in recalc'[t].workers
      BY <1>0, <1>a, <3>1
    <3> QED  BY <3>2 DEF Pending
  <2> QED  BY <2>1, RowKept, ApprovalKept DEF AttInv
<1>3. ASSUME NEW t \in RecalcCall
      PROVE  ReadsCurrent(t)'
  <2> HIDE DEF RecalcCorrections
  <2>1. CASE t = s
    <3>1. recalc'[t].approved = read /\ recalc'[t].day = recalc[s].day
      BY <1>0, <2>1
    <3> QED  BY <1>b, <3>1 DEF ReadsCurrent
  <2>2. CASE t # s
    <3>1. recalc'[t] = recalc[t]
      BY <1>a, <2>2
    <3> QED  BY <1>b, <3>1 DEF AttInv, ReadsCurrent
  <2> QED  BY <2>1, <2>2
<1> QED  BY <1>1, <1>2, <1>3 DEF AttInv

\* A call that dies leaves its rows marked.
LEMMA DiesKeepsInv ==
  ASSUME AttInv, NEW s \in RecalcCall, RecalcDies(s)
  PROVE  AttInv'
<1> USE DEF RecalcDies
<1>0. recalc[s] \in WorkingCall /\ recalc'[s] = NoRecalc /\ recalc'[s].at = "idle"
  BY CallRecords DEF AttInv, AttTypes, NoRecalc
<1>a. \A t \in RecalcCall : t # s => recalc'[t] = recalc[t]
  BY DEF AttInv, AttTypes
<1>1. AttTypes'
  <2>1. recalc' \in [RecalcCall -> {NoRecalc} \cup DecidingCall \cup WorkingCall]
    BY DEF AttInv, AttTypes
  <2>2. unseen' \subseteq Worker \X WorkDay
    BY <1>0 DEF AttInv, AttTypes, WorkingCall
  <2> QED  BY <2>1, <2>2 DEF AttInv, AttTypes
<1>2. ASSUME NEW w \in Worker, NEW d \in WorkDay
      PROVE  RowEvaluated(w, d)' /\ ApprovalSeen(w, d)'
  <2>1. RowEvaluated(w, d)'
    BY RowKept DEF AttInv
  <2>2. CASE <<w, d>> \in unseen'
    BY <2>1, <2>2 DEF ApprovalSeen
  <2>3. CASE <<w, d>> \notin unseen'
    <3>1. ~ (recalc[s].day = d /\ w \in recalc[s].workers)
      BY <2>3
    <3>2. Pending(w, d) => Pending(w, d)'
      <4>1. SUFFICES ASSUME NEW t \in RecalcCall, recalc[t].at \in {"punches", "writing"},
                            recalc[t].day = d, w \in recalc[t].workers
                     PROVE  Pending(w, d)'
        BY DEF Pending
      <4>2. recalc'[t] = recalc[t]
        BY <1>a, <3>1, <4>1
      <4> QED  BY <4>1, <4>2 DEF Pending
    <3>3. ApprovalSeen(w, d)'
      BY <2>3, <3>2, ApprovalKept DEF AttInv
    <3> QED  BY <2>1, <3>3
  <2> QED  BY <2>1, <2>2, <2>3
<1>3. ASSUME NEW t \in RecalcCall
      PROVE  ReadsCurrent(t)'
  BY <1>0, <1>a DEF AttInv, ReadsCurrent
<1> QED  BY <1>1, <1>2, <1>3 DEF AttInv

\* Reading a request changes nothing but the call.
LEMMA ResolveReadKeepsInv ==
  ASSUME AttInv, NEW s \in RecalcCall, NEW c \in Asked, ResolveRead(s, c)
  PROVE  AttInv'
<1> USE DEF ResolveRead
<1>0. /\ recalc'[s] = [at |-> "deciding", asked |-> c]
      /\ recalc'[s] \in DecidingCall /\ recalc'[s].at = "deciding"
  BY DEF AttInv, AttTypes, DecidingCall
<1>a. \A t \in RecalcCall : t # s => recalc'[t] = recalc[t]
  BY DEF AttInv, AttTypes
<1>1. AttTypes'
  <2>1. recalc' \in [RecalcCall -> {NoRecalc} \cup DecidingCall \cup WorkingCall]
    BY DEF AttInv, AttTypes, DecidingCall
  <2> QED  BY <2>1 DEF AttInv, AttTypes
<1>2. ASSUME NEW w \in Worker, NEW d \in WorkDay
      PROVE  RowEvaluated(w, d)' /\ ApprovalSeen(w, d)'
  <2>1. Pending(w, d) => Pending(w, d)'
    <3>1. SUFFICES ASSUME NEW t \in RecalcCall, recalc[t].at \in {"punches", "writing"},
                          recalc[t].day = d, w \in recalc[t].workers
                   PROVE  Pending(w, d)'
      BY DEF Pending
    <3>2. recalc'[t] = recalc[t]
      BY <1>a, <3>1
    <3> QED  BY <3>1, <3>2 DEF Pending
  <2> QED  BY <2>1, RowKept, ApprovalKept DEF AttInv
<1>3. ASSUME NEW t \in RecalcCall
      PROVE  ReadsCurrent(t)'
  BY <1>0, <1>a DEF AttInv, ReadsCurrent
<1> QED  BY <1>1, <1>2, <1>3 DEF AttInv

\* Writing a row evaluates the day from punches or from a correction the call read; it
\* shows an approved one unless the call is blind to a decision.
LEMMA WriteKeepsInv ==
  ASSUME AttInv, NEW s \in RecalcCall, NEW v \in Worker, RecalcWrite(s, v)
  PROVE  AttInv'
<1>1. /\ recalc[s] \in WorkingCall /\ recalc[s].at = "writing"
      /\ recalc[s].day \in WorkDay /\ v \in recalc[s].workers
      /\ recalc[s].punches \subseteq DevicePunch /\ recalc[s].approved \subseteq Asked
  BY CallRecords DEF RecalcWrite, AttInv, WorkingCall
<1>11. PICK day \in WorkDay : day = recalc[s].day
  BY <1>1
<1> DEFINE sh == ShiftOf[<<v, day>>]
           own == {c \in recalc[s].approved : c.worker = v}
           rowOn(d, fix) == evaluateDay(PunchesOf(s, v, ShiftOf[<<v, d>>]), d, ShiftOf[<<v, d>>],
                                        fix, <<v, d>> \in OnLeave)
           row(fix) == rowOn(day, fix)
<1>2. PICK fix \in FixOf(s, v) : summary' = [summary EXCEPT ![<<v, day>>] = row(fix)]
  <2>1. \E fix \in FixOf(s, v) :
           summary' = [summary EXCEPT ![<<v, recalc[s].day>>] = rowOn(recalc[s].day, fix)]
    BY Zenon DEF RecalcWrite
  <2> HIDE DEF rowOn
  <2> QED  BY <1>11, <2>1
<1>3. /\ punch' = punch /\ correction' = correction
      /\ unseen' = IF v \in recalc[s].blind THEN unseen \cup {<<v, day>>} ELSE unseen \ {<<v, day>>}
      /\ recalc' = [recalc EXCEPT ![s] =
                      IF recalc[s].workers = {v} THEN NoRecalc
                      ELSE [recalc[s] EXCEPT !.workers = recalc[s].workers \ {v}]]
  <2>1. /\ punch' = punch /\ correction' = correction
        /\ unseen' = IF v \in recalc[s].blind THEN unseen \cup {<<v, recalc[s].day>>}
                     ELSE unseen \ {<<v, recalc[s].day>>}
    BY Zenon DEF RecalcWrite
  <2>2. recalc' = [recalc EXCEPT ![s] =
                     IF recalc[s].workers = {v} THEN NoRecalc
                     ELSE [recalc[s] EXCEPT !.workers = recalc[s].workers \ {v}]]
    <3>1. recalc' = [recalc EXCEPT ![s] = AfterRow(s, v)]
      BY Zenon DEF RecalcWrite
    <3> QED  BY <3>1 DEF AfterRow
  <2> QED  BY <1>11, <2>1, <2>2
<1>4. /\ summary = [wd \in Worker \X WorkDay |-> summary[wd]]
      /\ recalc \in [RecalcCall -> {NoRecalc} \cup DecidingCall \cup WorkingCall]
      /\ ReadsCurrent(s)
  BY DEF AttInv, AttTypes
<1>5. \A t \in RecalcCall : t # s => recalc'[t] = recalc[t]
  BY <1>3, <1>4
<1>6. /\ recalc[s].workers = {v} => recalc'[s] = NoRecalc
      /\ recalc[s].workers # {v} =>
           /\ recalc'[s] \in WorkingCall /\ recalc'[s].at = "writing"
           /\ recalc'[s].day = day /\ recalc'[s].workers = recalc[s].workers \ {v}
           /\ recalc'[s].approved = recalc[s].approved /\ recalc'[s].blind = recalc[s].blind
  <2>1. PICK new : new = recalc'[s]
    OBVIOUS
  <2>2. PICK old : old = recalc[s]
    OBVIOUS
  <2>3. new = IF old.workers = {v} THEN NoRecalc ELSE [old EXCEPT !.workers = old.workers \ {v}]
    BY <1>3, <1>4, <2>1, <2>2
  <2>4. old.workers # {v} =>
           /\ new \in WorkingCall /\ new.at = old.at
           /\ new.day = old.day /\ new.workers = old.workers \ {v}
           /\ new.approved = old.approved /\ new.blind = old.blind
    <3>1. old \in WorkingCall
      BY <1>1, <2>2
    <3> QED  BY <2>3, <3>1 DEF WorkingCall
  <2> QED  BY <1>1, <1>11, <2>1, <2>2, <2>3, <2>4
<1>7. AttTypes'
  <2>1. recalc' \in [RecalcCall -> {NoRecalc} \cup DecidingCall \cup WorkingCall]
    <3>1. recalc' = [t \in RecalcCall |-> recalc'[t]]
      BY <1>3, <1>4
    <3>2. \A t \in RecalcCall : recalc'[t] \in {NoRecalc} \cup DecidingCall \cup WorkingCall
      BY <1>4, <1>5, <1>6
    <3> QED  BY <3>1, <3>2
  <2>2. summary' = [wd \in Worker \X WorkDay |-> summary'[wd]]
    <3> HIDE DEF row
    <3> QED  BY <1>2, <1>4
  <2>3. unseen' \subseteq Worker \X WorkDay
    BY <1>1, <1>3 DEF AttInv, AttTypes
  <2> QED  BY <1>3, <2>1, <2>2, <2>3 DEF AttInv, AttTypes
<1>8. RowFrom(v, day, fix)'
  <2>1. PunchesOf(s, v, sh) \in SUBSET OwnPunches(v, day)
    BY <1>1, <1>11 DEF PunchesOf, OwnPunches
  <2>2. PICK P : P = PunchesOf(s, v, sh)
    OBVIOUS
  <2>3. summary'[<<v, day>>] = row(fix)
    <3> HIDE DEF row
    <3> QED  BY <1>2, <1>4
  <2> QED  BY <2>1, <2>2, <2>3, RowWritten
<1>9. \/ own = {} /\ fix = NoFix
      \/ \E c \in own : fix = Fix(c)
  BY DEF FixOf, NoFix, Fix
<1>10. \A c \in own : c \in Asked /\ c.worker = v /\ c.day = day /\ correction[c] # "none"
  BY <1>1, <1>4, <1>11 DEF ReadsCurrent
<1>12. RowEvaluated(v, day)'
  <2>1. \A c \in own : c \in AskedFor(v, day)'
    BY <1>3, <1>10, <1>11 DEF AskedFor
  <2> QED  BY <1>8, <1>9, <2>1 DEF RowEvaluated, NoFix, Fix
<1>13. ApprovalSeen(v, day)'
  <2>1. CASE v \in recalc[s].blind
    BY <1>3, <1>11, <2>1 DEF ApprovalSeen
  <2>2. CASE v \notin recalc[s].blind
    <3>2. \A c \in Asked : c.worker = v /\ c.day = day => (c \in own <=> correction[c] = "APPROVED")
      BY <1>1, <1>4, <1>11, <2>2 DEF ReadsCurrent
    <3>3. ApprovedFor(v, day)' = own
      BY <1>3, <1>10, <1>11, <3>2 DEF ApprovedFor, AskedFor
    <3>4. own # {} => \E c \in own : RowFrom(v, day, Fix(c))'
      BY <1>8, <1>9
    <3> HIDE DEF own
    <3> QED  BY <3>3, <3>4 DEF ApprovalSeen, Fix
  <2> QED  BY <2>1, <2>2
<1>14. ASSUME NEW w \in Worker, NEW d \in WorkDay
       PROVE  RowEvaluated(w, d)' /\ ApprovalSeen(w, d)'
  <2>1. CASE w = v /\ d = day
    BY <1>12, <1>13, <2>1
  <2>2. CASE ~ (w = v /\ d = day)
    <3>1. summary'[<<w, d>>] = summary[<<w, d>>]
      <4> HIDE DEF row
      <4> QED  BY <1>2, <1>4, <2>2
    <3>2. Pending(w, d) => Pending(w, d)'
      <4>1. SUFFICES ASSUME NEW t \in RecalcCall, recalc[t].at \in {"punches", "writing"},
                            recalc[t].day = d, w \in recalc[t].workers
                     PROVE  Pending(w, d)'
        BY DEF Pending
      <4>2. recalc'[t].at \in {"punches", "writing"} /\ recalc'[t].day = d /\ w \in recalc'[t].workers
        <5>1. CASE t = s
          <6>1. w # v /\ recalc[s].workers # {v}
            BY <1>11, <2>2, <4>1, <5>1
          <6> QED  BY <1>6, <1>11, <4>1, <5>1, <6>1
        <5>2. CASE t # s
          BY <1>5, <4>1, <5>2
        <5> QED  BY <5>1, <5>2
      <4> QED  BY <4>2 DEF Pending
    <3>3. <<w, d>> \in unseen => <<w, d>> \in unseen'
      BY <1>3, <1>11, <2>2
    <3>4. RowEvaluated(w, d) /\ ApprovalSeen(w, d)
      BY DEF AttInv
    <3>5. RowEvaluated(w, d)'
      BY <1>3, <3>1, <3>4, RowKept
    <3>6. ApprovalSeen(w, d)'
      BY <1>3, <3>1, <3>2, <3>3, <3>4, ApprovalKept
    <3> QED  BY <3>5, <3>6
  <2> QED  BY <2>1, <2>2
<1>15. ASSUME NEW t \in RecalcCall
       PROVE  ReadsCurrent(t)'
  <2>1. CASE t # s
    <3>1. recalc'[t] = recalc[t]
      BY <1>5, <2>1
    <3> QED  BY <1>3, <3>1 DEF AttInv, ReadsCurrent
  <2>2. CASE t = s /\ recalc[s].workers = {v}
    <3>1. recalc'[t].at = "idle"
      BY <1>6, <2>2 DEF NoRecalc
    <3> QED  BY <3>1 DEF ReadsCurrent
  <2>3. CASE t = s /\ recalc[s].workers # {v}
    <3>1. /\ recalc'[t].day = recalc[t].day /\ recalc'[t].workers \subseteq recalc[t].workers
          /\ recalc'[t].approved = recalc[t].approved /\ recalc'[t].blind = recalc[t].blind
      BY <1>6, <1>11, <2>3
    <3>2. recalc[t].at = "writing" /\ ReadsCurrent(t)
      BY <1>1, <1>4, <2>3
    <3> QED  BY <1>3, <3>1, <3>2 DEF ReadsCurrent
  <2> QED  BY <2>1, <2>2, <2>3
<1> QED  BY <1>7, <1>14, <1>15 DEF AttInv

\* A decision is seen by the recalculation it starts, makes blind the calls it passes,
\* or marks the row.
LEMMA ResolveKeepsInv ==
  ASSUME AttInv, NEW s \in RecalcCall, NEW k \in Asked, NEW decision \in {"APPROVED", "REJECTED"},
         ResolveWrite(s, k, decision)
  PROVE  AttInv'
<1>1. /\ punch' = punch /\ summary' = summary
      /\ correction' = [correction EXCEPT ![k] = decision]
      /\ unseen' = unseen \cup Overruled(k, decision)
      /\ recalc' = [BlindTo(k, decision) EXCEPT ![s] =
                      IF decision = "APPROVED" THEN Started(k.day, {k.worker}) ELSE NoRecalc]
      /\ recalc[s].at = "deciding"
  BY DEF ResolveWrite
<1>2. /\ correction \in [Asked -> {"none", "PENDING", "APPROVED", "REJECTED"}]
      /\ recalc \in [RecalcCall -> {NoRecalc} \cup DecidingCall \cup WorkingCall]
      /\ k.worker \in Worker /\ k.day \in WorkDay
  BY AttendanceAssumption DEF AttInv, AttTypes
<1>3. /\ \A c \in Asked : c # k => correction'[c] = correction[c]
      /\ correction'[k] = decision
  BY <1>1, <1>2
<1>4. Started(k.day, {k.worker}) \in {NoRecalc} \cup WorkingCall
  BY <1>2, StartedRecord
<1>5. recalc'[s] = IF decision = "APPROVED" THEN Started(k.day, {k.worker}) ELSE NoRecalc
  BY <1>1 DEF BlindTo
<1>6. \A t \in RecalcCall : t # s => recalc'[t] = BlindTo(k, decision)[t]
  BY <1>1 DEF BlindTo
<1>7. ASSUME NEW t \in RecalcCall, t # s
      PROVE  /\ recalc'[t] \in {NoRecalc} \cup DecidingCall \cup WorkingCall
             /\ recalc'[t].at = recalc[t].at
             /\ recalc[t] \in WorkingCall =>
                  /\ recalc'[t].day = recalc[t].day /\ recalc'[t].workers = recalc[t].workers
                  /\ recalc'[t].approved = recalc[t].approved
                  /\ recalc[t].blind \subseteq recalc'[t].blind
             /\ Changes(k, decision) /\ recalc[t].at = "writing" /\ recalc[t].day = k.day
                  /\ k.worker \in recalc[t].workers => k.worker \in recalc'[t].blind
  <2>1. PICK new : new = recalc'[t]
    OBVIOUS
  <2>2. PICK old : old = recalc[t]
    OBVIOUS
  <2> DEFINE passed == /\ Changes(k, decision) /\ old.at = "writing"
                       /\ old.day = k.day /\ k.worker \in old.workers
  <2>3. new = IF passed THEN [old EXCEPT !.blind = old.blind \cup {k.worker}] ELSE old
    BY <1>6, <1>7, <2>1, <2>2 DEF BlindTo
  <2>4. old \in {NoRecalc} \cup DecidingCall \cup WorkingCall /\ (old.at = "writing" => old \in WorkingCall)
    BY <1>2, <2>2, CallRecords DEF AttInv
  <2>5. CASE passed
    <3>1. old \in WorkingCall /\ new = [old EXCEPT !.blind = old.blind \cup {k.worker}]
      BY <2>3, <2>4, <2>5
    <3>2. /\ new \in WorkingCall /\ new.at = old.at /\ new.day = old.day /\ new.workers = old.workers
          /\ new.approved = old.approved /\ new.blind = old.blind \cup {k.worker}
      BY <1>2, <3>1 DEF WorkingCall
    <3> QED  BY <2>1, <2>2, <3>2
  <2>6. CASE ~passed
    <3>1. new = old
      BY <2>3, <2>6
    <3> QED  BY <2>1, <2>2, <2>4, <2>6, <3>1
  <2> QED  BY <2>5, <2>6
<1>8. AttTypes'
  <2>1. recalc' \in [RecalcCall -> {NoRecalc} \cup DecidingCall \cup WorkingCall]
    <3>1. recalc' = [t \in RecalcCall |-> recalc'[t]]
      BY <1>1 DEF BlindTo
    <3>2. \A t \in RecalcCall : recalc'[t] \in {NoRecalc} \cup DecidingCall \cup WorkingCall
      BY <1>4, <1>5, <1>7
    <3> QED  BY <3>1, <3>2
  <2>2. correction' \in [Asked -> {"none", "PENDING", "APPROVED", "REJECTED"}]
    BY <1>1, <1>2
  <2>3. unseen' \subseteq Worker \X WorkDay
    BY <1>1, <1>2 DEF AttInv, AttTypes, Overruled
  <2> QED  BY <1>1, <2>1, <2>2, <2>3 DEF AttInv, AttTypes
<1>9. ASSUME NEW w \in Worker, NEW d \in WorkDay
      PROVE  RowEvaluated(w, d)' /\ ApprovalSeen(w, d)'
  <2>1. RowEvaluated(w, d)'
    <3>1. \A c \in Asked : correction[c] # "none" => correction'[c] # "none"
      BY <1>3
    <3>2. RowEvaluated(w, d)
      BY DEF AttInv
    <3> QED  BY <1>1, <3>1, <3>2, RowKept
  <2>2. CASE w = k.worker /\ d = k.day /\ Changes(k, decision) /\ decision = "REJECTED"
    <3>1. <<w, d>> \in unseen'
      BY <1>1, <2>2 DEF Overruled
    <3> QED  BY <2>1, <3>1 DEF ApprovalSeen
  <2>3. CASE w = k.worker /\ d = k.day /\ decision = "APPROVED"
    <3>0. CASE w \in Terminated
      BY <2>1, <3>0 DEF ApprovalSeen
    <3>1. ASSUME w \notin Terminated
          PROVE  Pending(w, d)'
      BY <1>5, <2>3, <3>1 DEF Pending, Started
    <3> QED  BY <2>1, <3>0, <3>1 DEF ApprovalSeen
  <2>4. CASE ~ (w = k.worker /\ d = k.day)
             \/ (decision = "REJECTED" /\ ~Changes(k, decision))
    <3>1. \A c \in Asked : c.worker = w /\ c.day = d
             => (correction[c] = "APPROVED" <=> correction'[c] = "APPROVED")
      BY <1>3, <2>4 DEF Changes
    <3>2. Pending(w, d) => Pending(w, d)'
      <4>1. SUFFICES ASSUME NEW t \in RecalcCall, recalc[t].at \in {"punches", "writing"},
                            recalc[t].day = d, w \in recalc[t].workers
                     PROVE  Pending(w, d)'
        BY DEF Pending
      <4>2. t # s /\ recalc[t] \in WorkingCall
        BY <1>1, <4>1, CallRecords DEF AttInv
      <4>3. recalc'[t].at = recalc[t].at /\ recalc'[t].day = d /\ w \in recalc'[t].workers
        BY <1>7, <4>1, <4>2
      <4> QED  BY <4>1, <4>3 DEF Pending
    <3>3. <<w, d>> \in unseen => <<w, d>> \in unseen'
      BY <1>1
    <3>4. ApprovalSeen(w, d)
      BY DEF AttInv
    <3>5. ApprovalSeen(w, d)'
      BY <1>1, <3>1, <3>2, <3>3, <3>4, ApprovalKept
    <3> QED  BY <2>1, <3>5
  <2> QED  BY <2>2, <2>3, <2>4
<1>10. ASSUME NEW t \in RecalcCall
       PROVE  ReadsCurrent(t)'
  <2>1. CASE t = s
    <3>1. recalc'[t].at # "writing"
      BY <1>5, <2>1 DEF Started, NoRecalc
    <3> QED  BY <3>1 DEF ReadsCurrent
  <2>2. CASE t # s /\ recalc[t].at # "writing"
    <3>1. recalc'[t].at # "writing"
      BY <1>7, <2>2
    <3> QED  BY <3>1 DEF ReadsCurrent
  <2>3. CASE t # s /\ recalc[t].at = "writing"
    <3>1. recalc[t] \in WorkingCall /\ recalc[t].approved \subseteq Asked
      BY <2>3, CallRecords DEF AttInv, WorkingCall
    <3>2. /\ recalc'[t].day = recalc[t].day /\ recalc'[t].workers = recalc[t].workers
          /\ recalc'[t].approved = recalc[t].approved
          /\ recalc[t].blind \subseteq recalc'[t].blind
          /\ Changes(k, decision) /\ recalc[t].day = k.day
               /\ k.worker \in recalc[t].workers => k.worker \in recalc'[t].blind
      BY <1>7, <2>3, <3>1
    <3>3. ReadsCurrent(t)
      BY DEF AttInv
    <3>4. \A c \in recalc'[t].approved : c.day = recalc'[t].day /\ correction'[c] # "none"
      BY <1>3, <2>3, <3>1, <3>2, <3>3 DEF ReadsCurrent
    <3>5. ASSUME NEW c \in Asked, c.day = recalc'[t].day,
                 c.worker \in recalc'[t].workers \ recalc'[t].blind
          PROVE  c \in recalc'[t].approved <=> correction'[c] = "APPROVED"
      <4>1. c \in recalc[t].approved <=> correction[c] = "APPROVED"
        BY <2>3, <3>2, <3>3, <3>5 DEF ReadsCurrent
      <4>2. c = k => ~Changes(k, decision)
        BY <3>2, <3>5
      <4>3. correction'[c] = "APPROVED" <=> correction[c] = "APPROVED"
        BY <1>3, <4>2 DEF Changes
      <4> QED  BY <3>2, <4>1, <4>3
    <3> QED  BY <3>4, <3>5 DEF ReadsCurrent
  <2> QED  BY <2>1, <2>2, <2>3
<1> QED  BY <1>8, <1>9, <1>10 DEF AttInv

\* The invariant is kept by every step.
LEMMA AttInvStays == AttInv /\ [AttNext]_attVars => AttInv'
<1> SUFFICES ASSUME AttInv, [AttNext]_attVars
             PROVE  AttInv'
  OBVIOUS
<1>1. CASE UNCHANGED attVars
  <2>1. punch' = punch /\ summary' = summary /\ correction' = correction
        /\ recalc' = recalc /\ unseen' = unseen
    BY <1>1 DEF attVars
  <2>2. AttTypes'
    BY <2>1 DEF AttInv, AttTypes
  <2>3. ASSUME NEW w \in Worker, NEW d \in WorkDay
        PROVE  RowEvaluated(w, d)' /\ ApprovalSeen(w, d)'
    <3>1. Pending(w, d)' <=> Pending(w, d)
      BY <2>1 DEF Pending
    <3> QED  BY <2>1, <3>1, RowKept, ApprovalKept DEF AttInv
  <2>4. ASSUME NEW s \in RecalcCall
        PROVE  ReadsCurrent(s)'
    BY <2>1 DEF AttInv, ReadsCurrent
  <2> QED  BY <2>2, <2>3, <2>4 DEF AttInv
<1>2. CASE AttNext
  BY <1>2, ImportPunchKeepsInv, RequestKeepsInv, StartKeepsInv, CorrectionsKeepInv,
     WriteKeepsInv, DiesKeepsInv, ResolveReadKeepsInv, ResolveKeepsInv DEF AttNext
<1> QED  BY <1>1, <1>2

-----------------------------------------------------------------------------
(* The theorems.                                                             *)

\* Every row was evaluated, recalculations write what is approved now or know that they
\* do not, and no approval is forgotten: the invariant the other theorems follow from.
THEOREM AttInvariant == AttSpec => []AttInv
<1>1. AttInit => AttInv
  BY InitAttInv
<1>2. AttInv /\ [AttNext]_attVars => AttInv'
  BY AttInvStays
<1> QED  BY <1>1, <1>2, PTL DEF AttSpec

\* A row comes from punches or a correction, in both cases as evaluateDay takes it.
LEMMA RowSource ==
  ASSUME AttInv, NEW w \in Worker, NEW d \in WorkDay, NEW fix, RowFrom(w, d, fix),
         fix = NoFix \/ \E c \in AskedFor(w, d) : fix = Fix(c)
  PROVE  /\ fix \in Fixes
         /\ ShiftOf[<<w, d>>] \in DOMAIN DEFAULT_SHIFTS /\ d \in Nat
         /\ \E P \in SUBSET OwnPunches(w, d) :
               summary[<<w, d>>] = evaluateDay(P, d, ShiftOf[<<w, d>>], fix, <<w, d>> \in OnLeave)
<1>1. fix \in Fixes
  <2>1. NoFix \in Fixes
    BY DEF NoFix, Fixes, Time
  <2>2. \A c \in AskedFor(w, d) : Fix(c) \in Fixes
    BY AttendanceAssumption DEF AskedFor, Fix, Fixes, Time
  <2> QED  BY <2>1, <2>2
<1> QED  BY <1>1, AttendanceAssumption DEF RowFrom

\* What RowOfADay says of every row of the table.
LEMMA RowInTable ==
  ASSUME AttInv, NEW w \in Worker, NEW d \in WorkDay, NEW fix, RowFrom(w, d, fix),
         fix = NoFix \/ \E c \in AskedFor(w, d) : fix = Fix(c),
         NEW row, row = summary[<<w, d>>]
  PROVE  /\ row.status \in {"PRESENT", "LATE_IN", "EARLY_OUT", "MISSING_IN", "MISSING_OUT",
                            "ABSENT", "LEAVE"}
         /\ row # NoSummary
         /\ {row.worked, row.late, row.early} \subseteq Nat
         /\ row.over \in Int /\ row.over >= fix.ot
         /\ row.outside <= row.count
         /\ <<w, d>> \notin OnLeave /\ row.firstIn # Absent /\ row.lastOut # Absent
              => row.status \in {"PRESENT", "LATE_IN", "EARLY_OUT"}
         /\ fix.in # Absent => row.firstIn = fix.in
         /\ fix.out # Absent => row.lastOut = fix.out
         /\ fix.in = Absent /\ row.firstIn # Absent
              => \E p \in Linked(OwnPunches(w, d), d, ShiftOf[<<w, d>>]) : row.firstIn = p.at
         /\ fix.out = Absent /\ row.lastOut # Absent
              => \E p \in Linked(OwnPunches(w, d), d, ShiftOf[<<w, d>>]) : row.lastOut = p.at
<1>1. fix \in Fixes /\ ShiftOf[<<w, d>>] \in DOMAIN DEFAULT_SHIFTS /\ d \in Nat
  BY RowSource
<1>2. PICK P \in SUBSET OwnPunches(w, d) :
        summary[<<w, d>>] = evaluateDay(P, d, ShiftOf[<<w, d>>], fix, <<w, d>> \in OnLeave)
  BY RowSource
<1>3. P \subseteq DevicePunch
  BY DEF OwnPunches
<1>4. Linked(P, d, ShiftOf[<<w, d>>]) \subseteq Linked(OwnPunches(w, d), d, ShiftOf[<<w, d>>])
  BY DEF Linked
<1>5. PICK leave \in BOOLEAN : leave = (<<w, d>> \in OnLeave)
  <2>1. (<<w, d>> \in OnLeave) \in BOOLEAN
    OBVIOUS
  <2> WITNESS (<<w, d>> \in OnLeave) \in BOOLEAN
  <2> QED  OBVIOUS
<1>6. row = evaluateDay(P, d, ShiftOf[<<w, d>>], fix, leave)
  BY <1>2, <1>5
<1>7. leave <=> <<w, d>> \in OnLeave
  BY <1>5
<1>8. /\ row.status \in {"PRESENT", "LATE_IN", "EARLY_OUT", "MISSING_IN", "MISSING_OUT",
                          "ABSENT", "LEAVE"}
      /\ row # NoSummary
      /\ {row.worked, row.late, row.early} \subseteq Nat
      /\ row.over \in Int /\ row.over >= fix.ot
      /\ row.outside <= row.count
      /\ ~leave /\ row.firstIn # Absent /\ row.lastOut # Absent
           => row.status \in {"PRESENT", "LATE_IN", "EARLY_OUT"}
      /\ fix.in # Absent => row.firstIn = fix.in
      /\ fix.out # Absent => row.lastOut = fix.out
      /\ fix.in = Absent /\ row.firstIn # Absent
           => \E p \in Linked(P, d, ShiftOf[<<w, d>>]) : row.firstIn = p.at
      /\ fix.out = Absent /\ row.lastOut # Absent
           => \E p \in Linked(P, d, ShiftOf[<<w, d>>]) : row.lastOut = p.at
  <2> HIDE <1>7
  <2> QED  BY <1>1, <1>3, <1>6, RowOfADay
<1> QED  BY <1>4, <1>7, <1>8

\* Every daily row is one evaluateDay can produce, and every correction has a status
\* of its life, whatever was imported, asked for and decided in between.
THEOREM AttendanceTypeCorrect == AttSpec => []AttTypeOK
<1>1. AttInv => AttTypeOK
  <2> SUFFICES ASSUME AttInv
               PROVE  AttTypeOK
    OBVIOUS
  <2>1. ASSUME NEW w \in Worker, NEW d \in WorkDay, summary[<<w, d>>] # NoSummary
        PROVE  /\ summary[<<w, d>>].status \in {"PRESENT", "LATE_IN", "EARLY_OUT", "MISSING_IN",
                                                "MISSING_OUT", "ABSENT", "LEAVE"}
               /\ {summary[<<w, d>>].worked, summary[<<w, d>>].late, summary[<<w, d>>].early}
                     \subseteq Nat
               /\ summary[<<w, d>>].over \in Int
               /\ summary[<<w, d>>].outside <= summary[<<w, d>>].count
    <3>1. PICK fix : /\ RowFrom(w, d, fix)
                     /\ fix = NoFix \/ \E c \in AskedFor(w, d) : fix = Fix(c)
      BY <2>1 DEF AttInv, RowEvaluated
    <3> QED  BY <3>1, RowInTable
  <2>2. \A s \in RecalcCall : recalc[s].at \in {"idle", "deciding", "punches", "writing"}
    BY CallRecords DEF AttInv
  <2>3. AttTypes
    BY DEF AttInv
  <2>4. \A wd \in Worker \X WorkDay : summary[wd] # NoSummary =>
          /\ summary[wd].status \in {"PRESENT", "LATE_IN", "EARLY_OUT", "MISSING_IN",
                                     "MISSING_OUT", "ABSENT", "LEAVE"}
          /\ {summary[wd].worked, summary[wd].late, summary[wd].early} \subseteq Nat
          /\ summary[wd].over \in Int
          /\ summary[wd].outside <= summary[wd].count
    BY <2>1
  <2> QED  BY <2>2, <2>3, <2>4 DEF AttTypes, AttTypeOK
<1> QED  BY <1>1, AttInvariant, PTL

\* The time of one punch is the start or the end of at most one day of an employee who
\* works the same shift every day, for any roster, any punches and any night shift.
THEOREM PunchesCountOnce == AttSpec => []NoPunchCountsTwice
<1>1. ASSUME AttInv, NEW w \in Worker, NEW d \in WorkDay, NEW e \in WorkDay, d < e,
             ShiftOf[<<w, d>>] = ShiftOf[<<w, e>>],
             NEW p \in Linked(OwnPunches(w, d), d, ShiftOf[<<w, d>>]),
             NEW q \in Linked(OwnPunches(w, e), e, ShiftOf[<<w, e>>]),
             p.at = q.at
      PROVE  FALSE
  <2> DEFINE s == ShiftOf[<<w, d>>]
  <2>1. d \in Nat /\ e \in Nat /\ s \in DOMAIN DEFAULT_SHIFTS /\ \A x \in DevicePunch : x.at \in Nat
    BY AttendanceAssumption
  <2>2. /\ p \in DevicePunch /\ AssignedFrom[<<p, d>>] \in {"none", s}
        /\ q \in DevicePunch /\ AssignedFrom[<<q, e>>] \in {"none", s}
        /\ p.at <= shiftTo(d, s) + 6 * Hour /\ q.at >= shiftFrom(e, s) - 6 * Hour
    BY <1>1 DEF Linked, OwnPunches
  <2>3. AssignedFrom[<<p, d>>] = assignShift(p.at, d) /\ AssignedFrom[<<q, e>>] = assignShift(q.at, e)
    BY <2>2 DEF AssignedFrom
  <2>4. PICK t \in Nat : t = p.at
    BY <2>1, <2>2
  <2> HIDE DEF s
  <2> QED  BY <1>1, <2>1, <2>2, <2>3, <2>4, BoundaryPunch
<1>2. ASSUME AttInv, NEW w \in Worker, NEW d \in WorkDay, NEW e \in WorkDay, d # e,
             ShiftOf[<<w, d>>] = ShiftOf[<<w, e>>],
             NEW p \in Linked(OwnPunches(w, d), d, ShiftOf[<<w, d>>]),
             NEW q \in Linked(OwnPunches(w, e), e, ShiftOf[<<w, e>>])
      PROVE  p.at # q.at
  <2>1. d < e \/ e < d
    BY <1>2, AttendanceAssumption
  <2>2. CASE d < e
    BY <1>1, <1>2, <2>2
  <2>3. CASE e < d
    BY <1>1, <1>2, <2>3
  <2> QED  BY <2>1, <2>2, <2>3
<1>3. ASSUME AttInv, NEW w \in Worker, NEW d \in WorkDay, summary[<<w, d>>] # NoSummary,
             ~ \E c \in Asked : c.worker = w /\ c.day = d /\ correction[c] # "none"
      PROVE  /\ summary[<<w, d>>].firstIn # Absent =>
                  \E p \in Linked(OwnPunches(w, d), d, ShiftOf[<<w, d>>]) :
                     summary[<<w, d>>].firstIn = p.at
             /\ summary[<<w, d>>].lastOut # Absent =>
                  \E p \in Linked(OwnPunches(w, d), d, ShiftOf[<<w, d>>]) :
                     summary[<<w, d>>].lastOut = p.at
  <2>1. RowFrom(w, d, NoFix)
    BY <1>3 DEF AttInv, RowEvaluated, AskedFor
  <2>2. NoFix.in = Absent /\ NoFix.out = Absent
    BY DEF NoFix
  <2> QED  BY <1>3, <2>1, <2>2, RowInTable
<1>4. AttInv => NoPunchCountsTwice
  <2> SUFFICES ASSUME AttInv, NEW w \in Worker, NEW d \in WorkDay, NEW e \in WorkDay,
                      d # e, ShiftOf[<<w, d>>] = ShiftOf[<<w, e>>],
                      summary[<<w, d>>] # NoSummary, summary[<<w, e>>] # NoSummary,
                      ~ \E c \in Asked : c.worker = w /\ c.day = d /\ correction[c] # "none",
                      ~ \E c \in Asked : c.worker = w /\ c.day = e /\ correction[c] # "none"
               PROVE  /\ \/ summary[<<w, d>>].firstIn # summary[<<w, e>>].firstIn
                         \/ summary[<<w, d>>].firstIn = Absent
                      /\ \/ summary[<<w, d>>].lastOut # summary[<<w, e>>].lastOut
                         \/ summary[<<w, d>>].lastOut = Absent
    BY DEF NoPunchCountsTwice
  <2>1. /\ summary[<<w, d>>].firstIn # Absent =>
             \E p \in Linked(OwnPunches(w, d), d, ShiftOf[<<w, d>>]) :
                summary[<<w, d>>].firstIn = p.at
        /\ summary[<<w, d>>].lastOut # Absent =>
             \E p \in Linked(OwnPunches(w, d), d, ShiftOf[<<w, d>>]) :
                summary[<<w, d>>].lastOut = p.at
    BY <1>3
  <2>2. /\ summary[<<w, e>>].firstIn # Absent =>
             \E p \in Linked(OwnPunches(w, e), e, ShiftOf[<<w, e>>]) :
                summary[<<w, e>>].firstIn = p.at
        /\ summary[<<w, e>>].lastOut # Absent =>
             \E p \in Linked(OwnPunches(w, e), e, ShiftOf[<<w, e>>]) :
                summary[<<w, e>>].lastOut = p.at
    BY <1>3
  <2> QED  BY <1>2, <2>1, <2>2
<1> QED  BY <1>4, AttInvariant, PTL

\* An approved correction shows in the day's row and in the payroll, but for the rows
\* the property names, for any number of corrections and overlapping recalculations.
THEOREM ApprovalsCount == AttSpec => []CorrectionsCount
<1>1. AttInv => CorrectionsCount
  <2> SUFFICES ASSUME AttInv, \A s \in RecalcCall : recalc[s].at \in {"idle", "deciding"},
                      NEW w \in Worker \ Terminated, NEW d \in WorkDay,
                      ApprovedFor(w, d) # {}, <<w, d>> \notin unseen
               PROVE  /\ summary[<<w, d>>] # NoSummary
                      /\ /\ Absent \notin {summary[<<w, d>>].firstIn, summary[<<w, d>>].lastOut}
                         /\ <<w, d>> \notin OnLeave
                         => d \in payrollExport(w).days \ payrollExport(w).absent
                      /\ \E c \in ApprovedFor(w, d) :
                            /\ c.in \in {Absent, summary[<<w, d>>].firstIn}
                            /\ c.out \in {Absent, summary[<<w, d>>].lastOut}
                            /\ summary[<<w, d>>].over >= c.ot
    <3>1. \A w \in Worker, d \in WorkDay :
             {c \in Asked : c.worker = w /\ c.day = d /\ correction[c] = "APPROVED"}
               = ApprovedFor(w, d)
      BY DEF ApprovedFor, AskedFor
    <3> QED  BY <3>1 DEF CorrectionsCount
  <2>1. ~Pending(w, d)
    BY DEF Pending
  <2>2. PICK c \in ApprovedFor(w, d) : RowFrom(w, d, Fix(c))
    BY <2>1 DEF AttInv, ApprovalSeen
  <2>3. c \in AskedFor(w, d)
    BY DEF ApprovedFor
  <2>4. PICK row : row = summary[<<w, d>>]
    OBVIOUS
  <2>5. /\ row # NoSummary /\ row.over >= Fix(c).ot
        /\ <<w, d>> \notin OnLeave /\ row.firstIn # Absent /\ row.lastOut # Absent
              => row.status \in {"PRESENT", "LATE_IN", "EARLY_OUT"}
        /\ Fix(c).in # Absent => row.firstIn = Fix(c).in
        /\ Fix(c).out # Absent => row.lastOut = Fix(c).out
    BY <2>2, <2>3, <2>4, RowInTable
  <2>6. Fix(c).in = c.in /\ Fix(c).out = c.out /\ Fix(c).ot = c.ot
    BY DEF Fix
  <2>7. <<w, d>> \notin OnLeave /\ row.firstIn # Absent /\ row.lastOut # Absent
          => d \in payrollExport(w).days \ payrollExport(w).absent
    BY <2>4, <2>5 DEF payrollExport
  <2> QED  BY <2>4, <2>5, <2>6, <2>7
<1> QED  BY <1>1, AttInvariant, PTL
=============================================================================
