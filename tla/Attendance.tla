----------------------------- MODULE Attendance -----------------------------
(***************************************************************************)
(* Fingerprint attendance (apps/api/src/time/attendance.module.ts over     *)
(* packages/domain/src/attendance.ts): punches are imported, a day is      *)
(* recalculated from what the tables hold at that moment, corrections are  *)
(* asked for and decided.  A time is a minute of the site's clock, counted *)
(* from midnight of day 0; a punch is a record of a biometric device.      *)
(***************************************************************************)
EXTENDS Integers, FiniteSets

CONSTANTS
    Worker, WorkDay,    \* employees, and work dates as numbers of days
    ShiftOf,            \* [Worker \X WorkDay -> DOMAIN DEFAULT_SHIFTS]: the roster
    Terminated,         \* the employees with a termination date
    OnLeave,            \* the <<worker, day>> pairs with an approved leave
    DevicePunch,        \* what the devices hold: [worker, at, type] records
    Asked,              \* the corrections that may be asked for: [worker, day, in, out, ot]
    RecalcCall          \* slots for the recalculations in progress

VARIABLES
    punch,        \* the imported punches
    summary,      \* [Worker \X WorkDay -> NoSummary or the daily row]
    correction,   \* [Asked -> {"none", "PENDING", "APPROVED", "REJECTED"}]
    recalc,       \* [RecalcCall -> [at, day, workers, punches, approved, blind]]
    unseen        \* history: the <<worker, day>> pairs whose row may miss a decision

attVars == <<punch, summary, correction, recalc, unseen>>

Absent == -1        \* no time: firstIn or lastOut is null
NoSummary == [status |-> "none"]
NoRecalc == [at |-> "idle"]

----------------------------------------------------------------------------
(* The rules of packages/domain/src/attendance.ts *)

Hour == 60
DEFAULT_SHIFTS ==
    [A |-> [start |-> 8 * Hour,  end |-> 20 * Hour, grace |-> 15, lateAfter |-> 30],
     B |-> [start |-> 20 * Hour, end |-> 32 * Hour, grace |-> 15, lateAfter |-> 30],
     C |-> [start |-> 8 * Hour,  end |-> 16 * Hour, grace |-> 20, lateAfter |-> 45],
     D |-> [start |-> 9 * Hour,  end |-> 17 * Hour, grace |-> 20, lateAfter |-> 45]]

ShiftRank == [A |-> 1, B |-> 2, C |-> 3, D |-> 4]
OtMinMinutes == Hour

\* A roster names shifts that exist; times and dates are counted from day 0 on, and the
\* devices hold finitely many records.  A correction leaves out the times it does not
\* change, and nothing checks the overtime minutes it asks for.
ASSUME AttendanceAssumption ==
    /\ WorkDay \subseteq Nat /\ Terminated \subseteq Worker
    /\ ShiftOf \in [Worker \X WorkDay -> DOMAIN DEFAULT_SHIFTS]
    /\ IsFiniteSet(DevicePunch) /\ \A p \in DevicePunch : p.at \in Nat
    /\ \A c \in Asked : /\ c.worker \in Worker /\ c.day \in WorkDay
                         /\ {c.in, c.out} \subseteq Nat \cup {Absent} /\ c.ot \in Int

shiftFrom(d, s) == d * 24 * Hour + DEFAULT_SHIFTS[s].start
shiftTo(d, s)   == d * 24 * Hour + DEFAULT_SHIFTS[s].end

Least(a, b) == IF a < b THEN a ELSE b
Dist(a, b) == IF a < b THEN b - a ELSE a - b

\* The shift a punch at t falls to when it is looked at from work date d: a window
\* around t beats one that is only within four hours, then the nearer, then by code.
Candidate(t, d) ==
    {c \in [shift : DOMAIN DEFAULT_SHIFTS, day : {d, d - 1}] :
        /\ t >= shiftFrom(c.day, c.shift) - 4 * Hour
        /\ t <= shiftTo(c.day, c.shift) + 4 * Hour}

Gap(t, c) ==
    IF t >= shiftFrom(c.day, c.shift) /\ t <= shiftTo(c.day, c.shift) THEN 0
    ELSE Least(Dist(t, shiftFrom(c.day, c.shift)), Dist(t, shiftTo(c.day, c.shift)))

assignShift(t, d) ==
    IF Candidate(t, d) = {} THEN "none"
    ELSE LET nearest == {c \in Candidate(t, d) : \A e \in Candidate(t, d) : Gap(t, c) <= Gap(t, e)}
         IN  (CHOOSE c \in nearest :
                 \A e \in nearest : ShiftRank[c.shift] <= ShiftRank[e.shift]).shift

\* Mutant: the punches of a day reach into the next shift of the same worker.
LinkedFar(P, d, s) ==
    {p \in P : p.at >= shiftFrom(d, s) - 18 * Hour /\ p.at <= shiftTo(d, s) + 18 * Hour}

\* The punches of a day reach six hours beyond the shift.
Linked(P, d, s) ==
    {p \in P : p.at >= shiftFrom(d, s) - 6 * Hour /\ p.at <= shiftTo(d, s) + 6 * Hour}

EarliestOf(P) == IF P = {} THEN Absent ELSE (CHOOSE p \in P : \A q \in P : p.at <= q.at).at
LatestOf(P)   == IF P = {} THEN Absent ELSE (CHOOSE p \in P : \A q \in P : p.at >= q.at).at

\* Mutant: a leaving time before the arrival is not cut off at zero.
MinutesUnclamped(firstIn, lastOut) == lastOut - firstIn

Minutes(firstIn, lastOut) == IF lastOut < firstIn THEN 0 ELSE lastOut - firstIn

DayStatus(firstIn, lastOut, late, early, s, leave) ==
    CASE leave                                -> "LEAVE"
      [] firstIn = Absent /\ lastOut = Absent -> "ABSENT"
      [] firstIn = Absent                     -> "MISSING_IN"
      [] lastOut = Absent                     -> "MISSING_OUT"
      [] late > DEFAULT_SHIFTS[s].lateAfter   -> "LATE_IN"
      [] early > DEFAULT_SHIFTS[s].lateAfter  -> "EARLY_OUT"
      [] OTHER                                -> "PRESENT"

\* evaluateDay: the punches given, the shift, an approved correction if there is one.
\* A day still open is left at zero minutes: the code measures it to the present.
evaluateDay(P, d, s, fix, leave) ==
    LET link    == Linked(P, d, s)
        firstIn == IF fix.in # Absent THEN fix.in
                   ELSE EarliestOf({p \in link : p.type = "IN"})
        lastOut == IF fix.out # Absent THEN fix.out
                   ELSE LatestOf({p \in link : p.type = "OUT"})
        worked  == IF Absent \in {firstIn, lastOut} THEN 0 ELSE Minutes(firstIn, lastOut)
        over    == worked - (shiftTo(d, s) - shiftFrom(d, s))
        late0   == IF firstIn = Absent THEN 0 ELSE firstIn - shiftFrom(d, s)
        early0  == IF lastOut = Absent THEN 0 ELSE shiftTo(d, s) - lastOut
        late    == IF late0 > DEFAULT_SHIFTS[s].grace THEN late0 ELSE 0
        early   == IF early0 > DEFAULT_SHIFTS[s].grace THEN early0 ELSE 0
    IN  [status  |-> DayStatus(firstIn, lastOut, late, early, s, leave),
         shift   |-> s, firstIn |-> firstIn, lastOut |-> lastOut,
         worked  |-> worked, late |-> late, early |-> early,
         over    |-> fix.ot + IF over >= OtMinMinutes THEN over ELSE 0,
         count   |-> Cardinality(link),
         outside |-> Cardinality({p \in link : p.at < shiftFrom(d, s) - 15
                                               \/ p.at > shiftTo(d, s) + 15})]

----------------------------------------------------------------------------
(* The service *)

\* Every daily row is one evaluateDay can produce, and every correction has a
\* status of its life; the minutes worked, late or missed in a row are never negative.
AttTypeOK ==
    /\ punch \subseteq DevicePunch
    /\ \A wd \in Worker \X WorkDay : summary[wd] # NoSummary =>
          /\ summary[wd].status \in {"PRESENT", "LATE_IN", "EARLY_OUT", "MISSING_IN",
                                    "MISSING_OUT", "ABSENT", "LEAVE"}
          /\ {summary[wd].worked, summary[wd].late, summary[wd].early} \subseteq Nat
          /\ summary[wd].over \in Int
          /\ summary[wd].outside <= summary[wd].count
    /\ correction \in [Asked -> {"none", "PENDING", "APPROVED", "REJECTED"}]
    /\ \A s \in RecalcCall : recalc[s].at \in {"idle", "deciding", "punches", "writing"}
    /\ unseen \subseteq Worker \X WorkDay

AttInit ==
    /\ punch = {}
    /\ summary = [wd \in Worker \X WorkDay |-> NoSummary]
    /\ correction = [c \in Asked |-> "none"]
    /\ recalc = [s \in RecalcCall |-> NoRecalc]
    /\ unseen = {}

\* importPunches, one record of a batch: a record already there is a duplicate, and
\* each record commits on its own, so a failed batch can be sent again.
ImportPunch(p) ==
    /\ p \notin punch
    /\ punch' = punch \cup {p}
    /\ UNCHANGED <<summary, correction, recalc, unseen>>

\* recalculateDay reads the punches of two UTC days (the site is three hours ahead) ...
Fetched(d) ==
    {p \in punch : /\ p.at >= d * 24 * Hour + 3 * Hour
                   /\ p.at < (d + 2) * 24 * Hour + 3 * Hour}

\* ... of the employees who have not left; when there is none the call is over.
Started(d, W) ==
    IF W \subseteq Terminated THEN NoRecalc
    ELSE [at |-> "punches", day |-> d, workers |-> W \ Terminated, punches |-> Fetched(d),
          approved |-> {}, blind |-> {}]

RecalcStart(s, d) ==
    /\ recalc[s].at = "idle"
    /\ recalc' = [recalc EXCEPT ![s] = Started(d, Worker)]
    /\ UNCHANGED <<punch, summary, correction, unseen>>

\* ... then the approved corrections of the day ...
RecalcCorrections(s) ==
    /\ recalc[s].at = "punches"
    /\ recalc' = [recalc EXCEPT ![s].at = "writing",
                    ![s].approved = {c \in Asked : c.day = recalc[s].day /\ correction[c] = "APPROVED"}]
    /\ UNCHANGED <<punch, summary, correction, unseen>>

\* ... and writes one employee after the other.  Of several approved corrections of
\* one employee the last row of the query wins, and the query has no order.
FixOf(s, w) ==
    LET own == {c \in recalc[s].approved : c.worker = w}
    IN  IF own = {} THEN {[in |-> Absent, out |-> Absent, ot |-> 0]}
        ELSE {[in |-> c.in, out |-> c.out, ot |-> c.ot] : c \in own}

\* The shift of every punch from every day, tabulated: it depends on no state.
AssignedFrom == [pd \in DevicePunch \X WorkDay |-> assignShift(pd[1].at, pd[2])]

\* Only the punches that assignShift gives to the employee's own shift, or to none.
PunchesOf(s, w, sh) ==
    {p \in recalc[s].punches :
        p.worker = w /\ AssignedFrom[<<p, recalc[s].day>>] \in {"none", sh}}

\* The call is over after the last employee.
AfterRow(s, w) ==
    IF recalc[s].workers = {w} THEN NoRecalc ELSE [recalc[s] EXCEPT !.workers = @ \ {w}]

RecalcWrite(s, w) ==
    /\ recalc[s].at = "writing" /\ w \in recalc[s].workers
    /\ LET d  == recalc[s].day
           sh == ShiftOf[<<w, d>>]
       IN  /\ \E fix \in FixOf(s, w) :
                 summary' = [summary EXCEPT ![<<w, d>>] =
                    evaluateDay(PunchesOf(s, w, sh), d, sh, fix, <<w, d>> \in OnLeave)]
           /\ unseen' = IF w \in recalc[s].blind THEN unseen \cup {<<w, d>>}
                        ELSE unseen \ {<<w, d>>}
    /\ recalc' = [recalc EXCEPT ![s] = AfterRow(s, w)]
    /\ UNCHANGED <<punch, correction>>

\* The rows are not one transaction: a call that dies leaves the employees it had
\* not come to with the rows they had.
RecalcDies(s) ==
    /\ recalc[s].at \in {"punches", "writing"}
    /\ unseen' = unseen \cup {<<w, recalc[s].day>> : w \in recalc[s].workers}
    /\ recalc' = [recalc EXCEPT ![s] = NoRecalc]
    /\ UNCHANGED <<punch, summary, correction>>

requestCorrection(c) ==
    /\ correction[c] = "none"
    /\ correction' = [correction EXCEPT ![c] = "PENDING"]
    /\ UNCHANGED <<punch, summary, recalc, unseen>>

\* resolveCorrection reads the request and refuses one already decided ...
ResolveRead(s, c) ==
    /\ recalc[s].at = "idle"
    /\ correction[c] = "PENDING"
    /\ recalc' = [recalc EXCEPT ![s] = [at |-> "deciding", asked |-> c]]
    /\ UNCHANGED <<punch, summary, correction, unseen>>

\* A decision that changes which corrections are approved leaves behind the calls
\* that have read theirs and will write the row of that employee and day ...
Changes(c, decision) == correction[c] # decision /\ "APPROVED" \in {correction[c], decision}

BlindTo(c, decision) ==
    [s \in RecalcCall |->
        IF /\ Changes(c, decision) /\ recalc[s].at = "writing"
           /\ recalc[s].day = c.day /\ c.worker \in recalc[s].workers
        THEN [recalc[s] EXCEPT !.blind = @ \cup {c.worker}]
        ELSE recalc[s]]

\* ... and the row itself, when what it shows is no longer approved.
Overruled(c, decision) ==
    IF Changes(c, decision) /\ decision = "REJECTED" THEN {<<c.worker, c.day>>} ELSE {}

\* Mutant: the approval leaves the row to the next recalculation.
ResolveWithoutRecalc(s, c, decision) ==
    /\ recalc[s].at = "deciding" /\ recalc[s].asked = c
    /\ correction' = [correction EXCEPT ![c] = decision]
    /\ recalc' = [BlindTo(c, decision) EXCEPT ![s] = NoRecalc]
    /\ unseen' = unseen \cup Overruled(c, decision)
    /\ UNCHANGED <<punch, summary>>

\* ... then updates it whatever has become of it, and recalculates the day of that
\* employee when it approved.
ResolveWrite(s, c, decision) ==
    /\ recalc[s].at = "deciding" /\ recalc[s].asked = c
    /\ correction' = [correction EXCEPT ![c] = decision]
    /\ recalc' = [BlindTo(c, decision) EXCEPT ![s] =
                    IF decision = "APPROVED" THEN Started(c.day, {c.worker}) ELSE NoRecalc]
    /\ unseen' = unseen \cup Overruled(c, decision)
    /\ UNCHANGED <<punch, summary>>

\* payrollExport counts the days of an employee from the rows as they stand: a day with
\* one time missing counts neither as worked nor as absent.
payrollExport(w) ==
    LET daysWith(status) == {d \in WorkDay : summary[<<w, d>>].status \in status}
    IN  [days |-> daysWith({"PRESENT", "LATE_IN", "EARLY_OUT"}), absent |-> daysWith({"ABSENT"})]

AttNext ==
    \/ \E p \in DevicePunch : ImportPunch(p)
    \/ \E c \in Asked : requestCorrection(c)
    \/ \E s \in RecalcCall :
          \/ \E d \in WorkDay : RecalcStart(s, d)
          \/ RecalcCorrections(s)
          \/ \E w \in Worker : RecalcWrite(s, w)
          \/ RecalcDies(s)
          \/ \E c \in Asked :
                \/ ResolveRead(s, c)
                \/ \E decision \in {"APPROVED", "REJECTED"} : ResolveWrite(s, c, decision)

AttSpec == AttInit /\ [][AttNext]_attVars

----------------------------------------------------------------------------
(* Properties *)

\* The time of one punch is the start or the end of at most one day of an employee
\* who works the same shift every day: no hour is paid twice, though every punch is
\* read by the recalculation of two days.  A correction may set any time it likes.
NoPunchCountsTwice ==
    \A w \in Worker : \A d, e \in WorkDay :
        LET row(day) == summary[<<w, day>>]
            fixed(day) == \E c \in Asked : c.worker = w /\ c.day = day /\ correction[c] # "none"
        IN  (/\ d # e /\ ShiftOf[<<w, d>>] = ShiftOf[<<w, e>>]
             /\ NoSummary \notin {row(d), row(e)} /\ ~fixed(d) /\ ~fixed(e))
            => /\ row(d).firstIn # row(e).firstIn \/ row(d).firstIn = Absent
               /\ row(d).lastOut # row(e).lastOut \/ row(d).lastOut = Absent

\* When nothing is being recalculated, a day with an approved correction shows it
\* (or shows another approved correction of that day), and the payroll counts it as
\* worked when both its times are known.  The exceptions are the days of an employee
\* with a termination date, which an approval does not recalculate, a row
\* written last by a call that had read the corrections before a decision, a row
\* whose recalculation died, and a row whose correction was approved and then rejected
\* by a second, late decision: the next recalculation of the day repairs the last three.
CorrectionsCount ==
    (\A s \in RecalcCall : recalc[s].at \in {"idle", "deciding"}) =>
        \A w \in Worker \ Terminated, d \in WorkDay :
            LET approved == {c \in Asked : c.worker = w /\ c.day = d /\ correction[c] = "APPROVED"}
                row == summary[<<w, d>>]
            IN  (approved # {} /\ <<w, d>> \notin unseen) =>
                    /\ row # NoSummary
                    /\ Absent \notin {row.firstIn, row.lastOut} /\ <<w, d>> \notin OnLeave =>
                          d \in payrollExport(w).days \ payrollExport(w).absent
                    /\ \E c \in approved : /\ c.in \in {Absent, row.firstIn}
                                            /\ c.out \in {Absent, row.lastOut}
                                            /\ row.over >= c.ot
=============================================================================
