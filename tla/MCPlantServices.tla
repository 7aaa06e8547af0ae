--------------------------- MODULE MCPlantServices ---------------------------
(* A small instance of the services beside the sync engine. *)
EXTENDS PlantServices, MCLaboratory

\* Work orders: who plans and who executes, each with the permissions of the role.
MCWoUser ==
    {{"maint.wo.create", "maint.wo.assign", "maint.wo.cancel", "maint.permit.create"},
     {"maint.wo.execute", "maint.wo.close", "maint.permit.approve"}}
MCWoGiven == {{"reason", "actualTimes", "rootCause"}}

\* Attendance: one night-shift worker and one who has left, two days, and two corrections of
\* one day: the first typed wrong, its arrival is after the leaving time.
MCShiftOf == [wd \in Worker \X WorkDay |-> "B"]
MCDevicePunch ==
    {[worker |-> "b", at |-> 56 * Hour, type |-> "OUT"],
     [worker |-> "b", at |-> 68 * Hour + 5, type |-> "IN"]}
MCAsked == {[worker |-> "b", day |-> 1, in |-> 56 * Hour + 5, out |-> Absent, ot |-> 0],
           [worker |-> "b", day |-> 1, in |-> 43 * Hour, out |-> Absent, ot |-> 90]}

\* Access: a technician, an analyst and a manager; the user's subdivision widens the
\* first, denies the second a permission, and has no row for the third, who sees cases
\* of samples and does not manage them.
MCRoleCodes ==
    LET labReads == {"lab.sample.view", "lab.result.view"}
        oos == {"lab.oos.view", "lab.oos.manage"}
    IN  [technician |-> {"doc.view", "maint.wo.view", "lab.sample.view"},
         analyst |-> {"doc.view"} \cup labReads \cup oos,
         manager |-> {"maint.wo.view", "doc.view", "lab.oos.view"} \cup labReads]
MCSubGrant ==
    {[role |-> "technician", own |-> TRUE, scope |-> "SUBDEPT", deny |-> {},
      extra |-> {"lab.oos.view"}],
     [role |-> "analyst", own |-> TRUE, scope |-> "DEPT", deny |-> {"doc.view"}, extra |-> {}],
     [role |-> "manager", own |-> FALSE, scope |-> "ALL", deny |-> {"maint.wo.view"}, extra |-> {}]}

\* The slots of requests are alike, and the services, of which one is at work, have
\* the same two.
Symmetry == Permutations(LabCall) \cup Permutations(Device)
=============================================================================
