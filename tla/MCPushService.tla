--------------------------- MODULE MCPushService ---------------------------
(***************************************************************************)
(* Instances of PushService: a work order, a shift log, a punch and a      *)
(* permit that two handlers and the office write at once, for users who    *)
(* may push them and users who may not.                                    *)
(***************************************************************************)
EXTENDS PushService, TLC

HandlerSymmetry == Permutations(Handler)

wo     == [entity |-> "workOrder", id |-> 1]
shift  == [entity |-> "shiftLog", id |-> 1]
punch  == [entity |-> "attendancePunch", id |-> 1]
permit == [entity |-> "permit", id |-> 1]

RaceRecords == {wo, shift, punch, permit}

RaceField == {"status", "approverId", "title", "description", "verifyMode"}
MCValue == {"APPROVED", "a", "b"}

MkOp(o, r, k, d) == [opId |-> o, rec |-> r, kind |-> k, data |-> d, at |-> 0]

CreateWo == MkOp("o1", wo, "UPSERT", [title |-> {"a"}, description |-> {"a"}])
EditWo   == MkOp("o2", wo, "PATCH", [title |-> {"b"}, description |-> {"b"}, status |-> {"a"}])
DeleteWo == MkOp("o3", wo, "DELETE", NoData)
AddNote  == MkOp("o4", wo, "PATCH", [description |-> {"a"}])
NewPermit  == MkOp("o5", permit, "UPSERT", [status |-> {"a"}])
DeleteLog == MkOp("o7", shift, "DELETE", NoData)
AddPunch  == MkOp("o4", punch, "UPSERT", [verifyMode |-> {"a"}])

Technician == [can |-> {"sync.push", "maint.wo.cancel", "maint.permit.create",
                        "prod.log.create", "hr.att.import"},
               facilityWide |-> FALSE, scope |-> Record]
Visitor    == [Technician EXCEPT !.can = {"sync.push", "prod.log.create"}, !.scope = {}]

JustTechnician == {Technician}
Staff          == {Technician, Visitor}

RaceRequests   == {<<CreateWo>>, <<EditWo>>, <<DeleteWo>>, <<NewPermit>>,
                   <<DeleteLog>>, <<AddPunch>>}
DeleteRequests == {<<DeleteWo>>}
NoteRequests   == {<<EditWo>>, <<AddNote>>}

Edit(r, f, v) == [rec |-> r, field |-> f, value |-> v]
RaceEdits   == {Edit(wo, "status", {"APPROVED"}), Edit(shift, "status", {"APPROVED"}),
                Edit(punch, "verifyMode", {"b"})}
Approvals   == {Edit(wo, "status", {"APPROVED"}), Edit(wo, "approverId", {"b"})}
Opening     == {Edit(wo, "title", {"a"})}
=============================================================================
