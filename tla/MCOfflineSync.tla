--------------------------- MODULE MCOfflineSync ---------------------------
(***************************************************************************)
(* Instances of OfflineSync: one device with two handlers (so that a       *)
(* handler it gave up on can still be running) and the office.             *)
(***************************************************************************)
EXTENDS OfflineSync, TLC

wo    == [entity |-> "workOrder", id |-> 1]
shift == [entity |-> "shiftLog", id |-> 1]

JustWorkOrder == {wo}
JustShiftLog  == [d \in Device |-> {shift}]
WithShiftLog  == {wo, shift}

MCField == {"status", "title", "description"}
MCValue == {"a", "b", "c"}

MCOpId == Device \X (1..2 * MaxEdits)
Everything == [d \in Device |-> Record]

User == [can |-> {"sync.push", "prod.log.create"}, facilityWide |-> FALSE, scope |-> Record]
JustUser == {User}
Users    == {User, [User EXCEPT !.can = {"sync.push"}]}

LocalEdit(r, k, d) == [rec |-> r, kind |-> k, data |-> d]
EditsOf(r) == {LocalEdit(r, "UPSERT", [title |-> {"a"}]),
               LocalEdit(r, "PATCH", [title |-> {"b"}, status |-> {"b"}]),
               LocalEdit(r, "DELETE", NoData)}
WorkOrderEdits == EditsOf(wo)
NoDeletes      == {edit \in EditsOf(wo) : edit.kind # "DELETE"}
ShiftLogEdits  == {edit \in EditsOf(shift) : edit.kind # "DELETE"}

HandlerSymmetry == Permutations(Handler)

RestEdit(r, f, v) == [rec |-> r, field |-> f, value |-> v]
OfficeStatus  == {RestEdit(wo, "status", {"c"})}
OfficeOnShift == {RestEdit(shift, "status", {"c"})}
OfficeTitles  == {RestEdit(wo, "title", {v}) : v \in {"a", "b"}}
=============================================================================
