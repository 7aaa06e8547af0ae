------------------------------ MODULE ShiftLog ------------------------------
(***************************************************************************)
(* The log of a production shift (apps/api/src/production/                 *)
(* production.module.ts): saved by whoever is on shift, approved, locked   *)
(* and reopened by the head of the shift.  Every handler reads the log and *)
(* writes it in a later step.  That an approved log is edited only after   *)
(* it is reopened (production.module.ts:17) is not so: its preparer's save *)
(* makes it a draft, and so does a save that read it before the approval.  *)
(***************************************************************************)
EXTENDS Naturals

CONSTANTS
    Shift,        \* keys: a unit, a date and a shift code
    Writer,       \* users with prod.log.create or prod.log.update
    LogCall       \* slots for the requests in progress

VARIABLES
    log,          \* [Shift -> NoLog or [status, by, approved]]
    logCall       \* [LogCall -> [at, shift, action, user, seen]]

logVars == <<log, logCall>>

NoLog == [status |-> "none"]
NoLogCall == [at |-> "idle"]
StatusAfter == [APPROVE |-> "APPROVED", LOCK |-> "LOCKED", REOPEN |-> "DRAFT"]

LogInit ==
    /\ log = [s \in Shift |-> NoLog]
    /\ logCall = [k \in LogCall |-> NoLogCall]

\* Only who prepared a log may save it once it is no longer a draft.
MaySave(seen, u) == seen.status \notin {"none", "DRAFT"} => seen.by = u

\* upsertShiftLog reads the log of the shift ...
UpsertRead(k, s, u) ==
    /\ logCall[k].at = "idle"
    /\ MaySave(log[s], u)
    /\ logCall' = [logCall EXCEPT ![k] =
                     [at |-> "saving", shift |-> s, action |-> "SAVE", user |-> u, seen |-> log[s]]]
    /\ UNCHANGED log

\* Mutant: one upsert writes the preparer it has worked out, whether the log is there by
\* now or not.
UpsertOutright(k) ==
    /\ logCall[k].at = "saving"
    /\ LET seen == logCall[k].seen
       IN  log' = [log EXCEPT ![logCall[k].shift] =
                    [status |-> "DRAFT", approved |-> FALSE,
                     by |-> IF seen = NoLog THEN logCall[k].user ELSE seen.by]]
    /\ logCall' = [logCall EXCEPT ![k] = NoLogCall]

\* ... and creates it, which fails when another request did so first, or updates it:
\* a draft again, with its preparer and its approver kept.
UpsertWrite(k) ==
    /\ logCall[k].at = "saving"
    /\ LET s == logCall[k].shift
           seen == logCall[k].seen
       IN  log' = IF seen = NoLog
                  THEN IF log[s] = NoLog
                       THEN [log EXCEPT ![s] = [status |-> "DRAFT", by |-> logCall[k].user,
                                                approved |-> FALSE]]
                       ELSE log
                  ELSE [log EXCEPT ![s].status = "DRAFT", ![s].by = seen.by]
    /\ logCall' = [logCall EXCEPT ![k] = NoLogCall]

\* approveShiftLog only asks that the log exists ...
DecideRead(k, s, action) ==
    /\ logCall[k].at = "idle"
    /\ log[s] # NoLog
    /\ logCall' = [logCall EXCEPT ![k] =
                     [at |-> "deciding", shift |-> s, action |-> action, user |-> "head", seen |-> log[s]]]
    /\ UNCHANGED log

\* ... and writes the status, whatever it is by then.
DecideWrite(k) ==
    /\ logCall[k].at = "deciding"
    /\ log' = [log EXCEPT ![logCall[k].shift].status = StatusAfter[logCall[k].action],
                          ![logCall[k].shift].approved = logCall[k].action # "REOPEN"]
    /\ logCall' = [logCall EXCEPT ![k] = NoLogCall]

\* The sync engine inserts a log a device pushes, stamped with who sent it, if the push
\* names the unit's row (the apps name it by its code only, and their insert fails) and
\* the shift has no log; of a log already there a push changes nothing that is kept here.
DeviceSubmits(s, u) ==
    /\ log[s] = NoLog
    /\ log' = [log EXCEPT ![s] = [status |-> "DRAFT", by |-> u, approved |-> FALSE]]
    /\ UNCHANGED logCall

LogNext ==
    \/ \E s \in Shift, u \in Writer : DeviceSubmits(s, u)
    \/ \E k \in LogCall :
        \/ \E s \in Shift, u \in Writer : UpsertRead(k, s, u)
        \/ \E s \in Shift, action \in DOMAIN StatusAfter : DecideRead(k, s, action)
        \/ UpsertWrite(k)
        \/ DecideWrite(k)

LogSpec == LogInit /\ [][LogNext]_logVars

\* Who prepared a log is settled by the save or the push that created it and never changes,
\* however many of them found no log and go on to write one: whoever saves an approved
\* log is judged by it.
PreparerStands ==
    [][\A s \in Shift : log[s] # NoLog => log'[s] # NoLog /\ log'[s].by = log[s].by]_logVars
=============================================================================
