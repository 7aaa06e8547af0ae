----------------------------- MODULE MCLaboratory -----------------------------
(* A small instance of the laboratory. *)
EXTENDS Laboratory, TLC

\* One sample with one parameter, under two specifications; an entry inside and one outside
\* their limits; a technician and an analyst.
MCLabUser ==
    LET user(id, sub, grants) ==
            [id |-> id, sub |-> sub, dept |-> "prod", wide |-> FALSE,
             grants |-> [g \in grants |-> "SUBDEPT"]]
    IN  {user("tech", "urea", {"lab.sample.create", "lab.report.export"}),
         user("analyst", "lab", {"lab.result.enter", "lab.result.verify", "lab.oos.manage"})}
MCDeptOf == [d \in {"urea", "lab"} |-> "prod"]
MCLabSpec ==
    {[param |-> "p1", product |-> "UREA", from |-> 1, min |-> 100, max |-> 200],
     [param |-> "p1", product |-> "COMMON", from |-> 2, min |-> 10, max |-> Open]}
MCSampleOf == [s \in Sample |-> [unit |-> "UREA", at |-> 3]]
MCLabEntry == {"p1" :> 5, "p1" :> 12}
MCPushedResult == {[value |-> 5, oos |-> FALSE]}
MCCaseDecision ==
    {[to |-> "INVESTIGATING", cause |-> FALSE, capa |-> FALSE],
     [to |-> "CAPA_DEFINED", cause |-> FALSE, capa |-> TRUE],
     [to |-> "EFFECTIVENESS_CHECK", cause |-> FALSE, capa |-> FALSE],
     [to |-> "CAPA_DEFINED", cause |-> FALSE, capa |-> FALSE],
     [to |-> "CLOSED", cause |-> TRUE, capa |-> FALSE],
     [to |-> "REJECTED", cause |-> FALSE, capa |-> FALSE]}

\* The slots of requests are alike.
LabSymmetry == Permutations(LabCall)
=============================================================================
