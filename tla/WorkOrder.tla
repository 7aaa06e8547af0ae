------------------------------ MODULE WorkOrder ------------------------------
(***************************************************************************)
(* Work orders in the office (apps/api/src/workorder/work-order.service.ts *)
(* with the state machine of packages/domain/src/workorder.ts): opening,   *)
(* status transitions under an optimistic lock, the permit a dangerous job *)
(* needs, and labour hours; and what the sync engine writes to the same    *)
(* tables (sync.ts:51-58): devices open orders, edit them, and push rows   *)
(* of their log and of their labour.                                       *)
(*                                                                         *)
(* transition() reads the order, then its permit, and only then writes; in *)
(* between other calls, pushes and the permit's own progress go on.        *)
(* addLabor() inserts its entries and raises the order's total in two      *)
(* transactions.                                                           *)
(*                                                                         *)
(* Left out: numbers and their retries, titles, assets, dates, assignees,  *)
(* lists and service levels, the audit trail, and the hours themselves: no *)
(* property speaks of them (a push of a labour entry raises no total, and  *)
(* one may overwrite the total: engine.spec.ts:104).                       *)
(***************************************************************************)
EXTENDS Naturals

CONSTANTS
  Order,
  WoUser,      \* users, each the set of their permissions
  WoGiven,     \* what requests carry: subsets of the Requirement names
  WoCall,      \* request slots
  MaxWoVersion \* bound: version numbers; no call begins at the last

ASSUME WoAssumption == MaxWoVersion \in Nat

VARIABLES
  order,    \* order[o]: [status, version, permitNeeded]
  woLog,    \* woLog[o]: the [from, to] of the newest row of its log
  permit,   \* permit[o]: [status, valid]
  woCall    \* woCall[c]: the call under way

woVars == <<order, woLog, permit, woCall>>

-----------------------------------------------------------------------------
Move(to, permission, requires) == [to |-> to, permission |-> permission, requires |-> requires]

WO_TRANSITIONS ==
  [DRAFT |-> {Move("SUBMITTED", "maint.wo.create", {}),
              Move("CANCELLED", "maint.wo.cancel", {"reason"})},
   SUBMITTED |-> {Move("APPROVED", "maint.wo.assign", {}),
                  Move("REJECTED", "maint.wo.cancel", {"reason"})},
   APPROVED |-> {Move("ASSIGNED", "maint.wo.assign", {"actualTimes"}),
                 Move("CANCELLED", "maint.wo.cancel", {"reason"})},
   ASSIGNED |-> {Move("IN_PROGRESS", "maint.wo.execute", {"actualTimes"}),
                 Move("ON_HOLD", "maint.wo.execute", {"reason"}),
                 Move("AWAITING_PARTS", "maint.wo.execute", {"reason"})},
   IN_PROGRESS |-> {Move("COMPLETED", "maint.wo.execute", {"labor", "parts"}),
                    Move("ON_HOLD", "maint.wo.execute", {"reason"}),
                    Move("AWAITING_PARTS", "maint.wo.execute", {}),
                    Move("AWAITING_PERMIT", "maint.wo.execute", {})},
   ON_HOLD |-> {Move("IN_PROGRESS", "maint.wo.execute", {})},
   AWAITING_PARTS |-> {Move("IN_PROGRESS", "maint.wo.execute", {})},
   AWAITING_PERMIT |-> {Move("IN_PROGRESS", "maint.permit.approve", {})},
   COMPLETED |-> {Move("CLOSED", "maint.wo.close", {"actualTimes", "rootCause"}),
                  Move("IN_PROGRESS", "maint.wo.execute", {"reason"})},
   CLOSED |-> {Move("IN_PROGRESS", "maint.wo.cancel", {"reason"})},
   CANCELLED |-> {Move("DRAFT", "maint.wo.cancel", {})},
   REJECTED |-> {Move("DRAFT", "maint.wo.create", {})}]

WoState == DOMAIN WO_TRANSITIONS

\* canTransition
CanTransition(from, to, perms) ==
  {t \in WO_TRANSITIONS[from] : t.to = to /\ t.permission \in perms}

\* The requirements transition() checks: the reason always, the times only on
\* the way to IN_PROGRESS, the root cause only on the way to CLOSED.
Missing(t, given) ==
  {r \in t.requires \ given : \/ r = "reason"
                              \/ r = "actualTimes" /\ t.to = "IN_PROGRESS"
                              \/ r = "rootCause" /\ t.to = "CLOSED"}

\* The route asks for one of these before the service runs.
RouteOpen(perms) ==
  perms \cap {"maint.wo.execute", "maint.wo.assign", "maint.wo.close", "maint.wo.cancel"} # {}

PERMIT_TRANSITIONS ==
  [none               |-> {"REQUESTED"},
   REQUESTED          |-> {"AWAITING_ISOLATION", "APPROVED_BY_AREA", "CANCELLED"},
   AWAITING_ISOLATION |-> {"APPROVED_BY_AREA"},
   APPROVED_BY_AREA   |-> {"APPROVED_BY_HSE", "CANCELLED"},
   APPROVED_BY_HSE    |-> {"OPEN"},
   OPEN               |-> {"EXTENDED", "CLOSED"},
   EXTENDED           |-> {"CLOSED"},
   CLOSED             |-> {},
   CANCELLED          |-> {}]

PermitState == DOMAIN PERMIT_TRANSITIONS

\* The permit transition() looks for.
InForce(p) == p.status \in {"OPEN", "EXTENDED", "APPROVED_BY_HSE"} /\ p.valid

-----------------------------------------------------------------------------
NoOrder == [status |-> "none", version |-> 0, permitNeeded |-> FALSE]
NoRow == [from |-> "none", to |-> "none"]
WoIdle == [at |-> "idle"]

WoInit ==
  /\ order = [o \in Order |-> NoOrder]
  /\ woLog = [o \in Order |-> NoRow]
  /\ permit = [o \in Order |-> [status |-> "none", valid |-> FALSE]]
  /\ woCall = [c \in WoCall |-> WoIdle]

Known(o) == order[o].version > 0
WoAt(c, place) == woCall[c].at = place
WoEnd(c) == woCall' = [woCall EXCEPT ![c] = WoIdle]

\* create: EMERGENCY orders are safety critical and need a permit, too.
OpenOrder(o) ==
  /\ ~Known(o)
  /\ \E u \in WoUser, requirePermit, emergency \in BOOLEAN :
       /\ "maint.wo.create" \in u
       /\ requirePermit => "maint.permit.create" \in u
       /\ order' = [order EXCEPT ![o] = [status |-> "DRAFT", version |-> 1,
                                         permitNeeded |-> requirePermit \/ emergency]]
  /\ woLog' = [woLog EXCEPT ![o] = [from |-> "none", to |-> "DRAFT"]]
  /\ UNCHANGED <<permit, woCall>>

-----------------------------------------------------------------------------
\* transition, first statement: the order as it is now decides.
TransitionRead(c, o) ==
  /\ WoAt(c, "idle") /\ Known(o) /\ order[o].version < MaxWoVersion
  /\ \E u \in WoUser, given \in WoGiven, to \in WoState :
       \E t \in CanTransition(order[o].status, to, u) :
         /\ RouteOpen(u)
         /\ Missing(t, given) = {}
         /\ woCall' = [woCall EXCEPT ![c] =
              [at |-> IF to = "IN_PROGRESS" /\ order[o].permitNeeded THEN "permit" ELSE "write",
               order |-> o, from |-> order[o].status, to |-> to, version |-> order[o].version]]
  /\ UNCHANGED <<order, woLog, permit>>

\* Mutant: any permit of the order will do.
PermitReadLoosely(c) ==
  /\ WoAt(c, "permit")
  /\ woCall' = [woCall EXCEPT ![c] = IF permit[woCall[c].order].status # "none"
                                     THEN [@ EXCEPT !.at = "write"] ELSE WoIdle]
  /\ UNCHANGED <<order, woLog, permit>>

\* "No dangerous job starts without a permit in force."
PermitRead(c) ==
  /\ WoAt(c, "permit")
  /\ woCall' = [woCall EXCEPT ![c] = IF InForce(permit[woCall[c].order])
                                     THEN [@ EXCEPT !.at = "write"] ELSE WoIdle]
  /\ UNCHANGED <<order, woLog, permit>>

\* Mutant: the update is by id alone.
SameVersionAlways(c) == WoAt(c, "write")

SameVersion(c) == woCall[c].version = order[woCall[c].order].version

\* The update under the optimistic lock, with its log row; on another version the
\* call ends in a conflict.
TransitionWrite(c) ==
  /\ WoAt(c, "write")
  /\ LET o == woCall[c].order
         to == woCall[c].to
     IN /\ SameVersion(c) => order[o].version < MaxWoVersion
        /\ IF SameVersion(c)
           THEN /\ order' = [order EXCEPT ![o].status = to, ![o].version = @ + 1]
                /\ woLog' = [woLog EXCEPT ![o] = [from |-> woCall[c].from, to |-> to]]
           ELSE UNCHANGED <<order, woLog>>
  /\ WoEnd(c)
  /\ UNCHANGED permit

-----------------------------------------------------------------------------
\* addLabor: the order must not be CLOSED ...
LaborRead(c, o) ==
  /\ WoAt(c, "idle") /\ Known(o) /\ order[o].version < MaxWoVersion
  /\ \E u \in WoUser : "maint.wo.execute" \in u
  /\ order[o].status # "CLOSED"
  /\ woCall' = [woCall EXCEPT ![c] = [at |-> "labor", order |-> o]]
  /\ UNCHANGED <<order, woLog, permit>>

\* ... its entries are inserted in a transaction ...
LaborInsert(c) ==
  /\ WoAt(c, "labor")
  /\ woCall' = [woCall EXCEPT ![c].at = "total"]
  /\ UNCHANGED <<order, woLog, permit>>

\* ... and the total is raised in another; any update raises the version.
LaborTotal(c) ==
  /\ WoAt(c, "total")
  /\ order[woCall[c].order].version < MaxWoVersion
  /\ order' = [order EXCEPT ![woCall[c].order].version = @ + 1]
  /\ WoEnd(c)
  /\ UNCHANGED <<woLog, permit>>

\* The process dies between the two.
LaborDies(c) ==
  /\ WoAt(c, "total")
  /\ WoEnd(c)
  /\ UNCHANGED <<order, woLog, permit>>

-----------------------------------------------------------------------------
(* The sync engine.                                                          *)

\* A device's order arrives: it is SUBMITTED from the start, has no row in the log, and
\* whether it needs a permit is what the form says.
DeviceCreates(o) ==
  /\ ~Known(o)
  /\ \E requirePermit \in BOOLEAN :
       order' = [order EXCEPT ![o] = [status |-> "SUBMITTED", version |-> 1,
                                      permitNeeded |-> requirePermit]]
  /\ UNCHANGED <<woLog, permit, woCall>>

\* A push writes other fields of the order (the status is protected, requirePermit is not).
DeviceWrites(o) ==
  /\ Known(o) /\ order[o].version < MaxWoVersion
  /\ \E needed \in BOOLEAN :
       order' = [order EXCEPT ![o].version = @ + 1, ![o].permitNeeded = needed]
  /\ UNCHANGED <<woLog, permit, woCall>>

\* A push adds a row of its own to the log, a note that names no status.
DeviceLogs(o) ==
  /\ Known(o)
  /\ woLog' = [woLog EXCEPT ![o] = NoRow]
  /\ UNCHANGED <<order, permit, woCall>>

-----------------------------------------------------------------------------
\* Permits are handled outside this service, along the domain's table.
PermitMoves(o) ==
  /\ Known(o)
  /\ \E to \in PERMIT_TRANSITIONS[permit[o].status] :
       permit' = [permit EXCEPT ![o] = [status |-> to, valid |-> to \notin {"CLOSED", "CANCELLED"}]]
  /\ UNCHANGED <<order, woLog, woCall>>

\* validTo passes.
PermitExpires(o) ==
  /\ permit[o].valid
  /\ permit' = [permit EXCEPT ![o].valid = FALSE]
  /\ UNCHANGED <<order, woLog, woCall>>

WoNext ==
  \/ \E o \in Order : \/ OpenOrder(o) \/ PermitMoves(o) \/ PermitExpires(o)
                      \/ DeviceCreates(o) \/ DeviceWrites(o) \/ DeviceLogs(o)
  \/ \E c \in WoCall, o \in Order : TransitionRead(c, o) \/ LaborRead(c, o)
  \/ \E c \in WoCall : \/ PermitRead(c) \/ TransitionWrite(c)
                       \/ LaborInsert(c) \/ LaborTotal(c) \/ LaborDies(c)

WoSpec == WoInit /\ [][WoNext]_woVars

-----------------------------------------------------------------------------
\* Whatever is decided side by side and pushed in between, an order's status changes only
\* along a transition the domain allows from the status it has at that moment, and the log
\* row written with the change names both.
StatusChangesAreLogged ==
  [][\A o \in Order : Known(o) /\ order'[o].status # order[o].status =>
       /\ \E t \in WO_TRANSITIONS[order[o].status] : t.to = order'[o].status
       /\ woLog'[o] = [from |-> order[o].status, to |-> order'[o].status]]_woVars

\* "No dangerous job starts without a permit in force" (work-order.service.ts:226), as far
\* as the code keeps it: an order that needs a permit when work on it starts has one that
\* came as far as HSE's approval, although the permit moves on and pushes change the need
\* during the call.  (The permit may be closed or run out by then: it is read before.)
DangerousWorkHadPermit ==
  [][\A o \in Order :
       order[o].permitNeeded /\ order[o].status # "IN_PROGRESS" /\ order'[o].status = "IN_PROGRESS" =>
         permit[o].status \in {"APPROVED_BY_HSE", "OPEN", "EXTENDED", "CLOSED"}]_woVars

=============================================================================
