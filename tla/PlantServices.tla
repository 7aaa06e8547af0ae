---------------------------- MODULE PlantServices ----------------------------
(***************************************************************************)
(* The parts of the system beside the sync engine and its client: in the   *)
(* API the laboratory, work orders, attendance, sessions, shift logs and   *)
(* access; on a device its stores and its scheduler.  None of them reads   *)
(* or changes what another's properties speak of: the services share a     *)
(* database but no table, and the stores and the scheduler are modelled    *)
(* each with the other's calls as its input.  Their product would multiply *)
(* the states and show nothing new: a behaviour here is a behaviour of one *)
(* part, the others at rest.                                               *)
(***************************************************************************)
EXTENDS Laboratory, WorkOrder, Attendance, AuthSession, ShiftLog, AccessReads,
        DeviceStores, DeviceScheduler

VARIABLE desk     \* the part the behaviour is about

Desk == {"lab", "maintenance", "time", "session", "production", "access", "stores", "timers"}

PlantInit ==
    /\ desk \in Desk
    /\ LabInit /\ WoInit /\ AttInit /\ AuthInit /\ LogInit
    /\ AccessInit /\ StoreInit /\ SchedInit
    \* One initial state of a part at rest is enough.
    /\ desk # "access" => ~atLab
    /\ desk # "timers" => platform = "desktop"

serviceVars == <<labVars, woVars, attVars, authVars, logVars>>
sideVars == <<accessVars, storeVars, schedVars>>

LabAtWork == LabNext /\ UNCHANGED <<woVars, attVars, authVars, logVars, sideVars>>
MaintenanceAtWork == WoNext /\ UNCHANGED <<labVars, attVars, authVars, logVars, sideVars>>
TimeAtWork == AttNext /\ UNCHANGED <<labVars, woVars, authVars, logVars, sideVars>>
SessionAtWork == AuthNext /\ UNCHANGED <<labVars, woVars, attVars, logVars, sideVars>>
ProductionAtWork == LogNext /\ UNCHANGED <<labVars, woVars, attVars, authVars, sideVars>>
AccessAtWork == AccessNext /\ UNCHANGED <<serviceVars, storeVars, schedVars>>
StoresAtWork == StoreNext /\ UNCHANGED <<serviceVars, accessVars, schedVars>>
TimersAtWork == SchedNext /\ UNCHANGED <<serviceVars, accessVars, storeVars>>

PlantNext ==
    /\ UNCHANGED desk
    /\ \/ desk = "lab" /\ LabAtWork
       \/ desk = "maintenance" /\ MaintenanceAtWork
       \/ desk = "time" /\ TimeAtWork
       \/ desk = "session" /\ SessionAtWork
       \/ desk = "production" /\ ProductionAtWork
       \/ desk = "access" /\ AccessAtWork
       \/ desk = "stores" /\ StoresAtWork
       \/ desk = "timers" /\ TimersAtWork

plantVars == <<desk, serviceVars, sideVars>>

PlantSpec == PlantInit /\ [][PlantNext]_plantVars
=============================================================================
