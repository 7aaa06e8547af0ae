------------------------- MODULE PushServiceProofs -------------------------
(***************************************************************************)
(* Theorems of PushService for every set of records, fields, values,       *)
(* operations, batches, handlers, access contexts and office edits, and    *)
(* for every choice of faults.  The facts about single steps are in        *)
(* SyncServerProofs; here they become facts about behaviours.              *)
(***************************************************************************)
EXTENDS PushService, SyncServerProofs

\* Every step of the service is a step of the server or leaves it alone.
LEMMA NextIsServerStep ==
  ASSUME [Next]_vars
  PROVE  ServerStep \/ UNCHANGED serverVars
<1>1. ASSUME NEW h \in Handler, Receive(h)
      PROVE  ServerStep
  BY <1>1, RequestsAssumption DEF Receive, ServerStep
<1>2. ASSUME NEW h \in Handler, Handle(h)
      PROVE  ServerStep
  BY <1>2 DEF Handle, ServerStep, Serve
<1>3. ASSUME OfficeEdit
      PROVE  ServerStep
  BY <1>3, RestEditsAssumption DEF OfficeEdit, ServerStep, OfficeStep
<1>4. ASSUME NEW r \in Record, OfficeEnd(r)
      PROVE  ServerStep
  BY <1>4 DEF OfficeEnd, ServerStep, OfficeStep
<1>5. Crash => ServerStep
  BY DEF Crash, ServerStep
<1>6. UNCHANGED vars => UNCHANGED serverVars
  BY DEF vars
<1> QED BY <1>1, <1>2, <1>3, <1>4, <1>5, <1>6 DEF Next

\* Type correctness: every reachable state is well typed.
THEOREM TypeCorrect == Spec => []TypeOK
<1>1. Init => TypeOK
  BY MaxPushAssumption, TypeInit DEF Init, TypeOK
<1>2. ASSUME TypeOK, [Next]_vars
      PROVE  TypeOK'
  <2>1. ServerTypeOK'
    BY <1>2, NextIsServerStep, TypeStep DEF TypeOK
  <2>2. received' \in 0..MaxPush
    BY <1>2, MaxPushAssumption
    DEF TypeOK, Next, Receive, Handle, OfficeEnd, Crash, OfficeEdit, vars
  <2> QED BY <2>1, <2>2 DEF TypeOK
<1> QED BY <1>1, <1>2, PTL DEF Spec

\* An operation recorded in sync_idempotency, or about to be reported as a
\* success, has been taken by the database: nothing acknowledged is lost, with
\* any number of handlers, crashes and failed statements.
THEOREM NothingAcknowledgedIsLost == Spec => []AckedOpTookEffect
<1>1. Init => AckInv
  BY AckInit DEF Init
<1>2. ASSUME TypeOK, AckInv, [Next]_vars
      PROVE  AckInv'
  BY <1>2, NextIsServerStep, AckStep DEF TypeOK
<1>3. AckInv => AckedOpTookEffect
  BY DEF AckInv
<1> QED BY <1>1, <1>2, <1>3, TypeCorrect, PTL DEF Spec

\* The change feed always replays to the database: devices that apply it in
\* order, and apply all of it, end with the rows.
THEOREM FeedIsComplete == Spec => []FeedReplaysRows
<1>1. Init => FeedInv
  BY FeedInit DEF Init
<1>2. ASSUME TypeOK, FeedInv, [Next]_vars
      PROVE  FeedInv'
  BY <1>2, NextIsServerStep, FeedStep DEF TypeOK
<1>3. FeedInv => FeedReplaysRows
  BY DEF FeedInv
<1> QED BY <1>1, <1>2, <1>3, TypeCorrect, PTL DEF Spec

\* No push touches what the policy keeps from clients: a plan stays within the
\* policy between the read it was decided from and the write.
THEOREM PushKeepsPolicy == Spec => PushRespectsPolicy
<1>1. Init => PlanInv
  BY PlanInit DEF Init
<1>2. ASSUME TypeOK, PlanInv, [Next]_vars
      PROVE  PlanInv'
  BY <1>2, NextIsServerStep, PlanStep DEF TypeOK
<1>3. ASSUME TypeOK, PlanInv, [Next]_vars
      PROVE  [PolicyAction]_serverVars
  BY <1>3, NextIsServerStep, PolicyStep DEF TypeOK
<1>4. PushRespectsPolicy <=> [][PolicyAction]_serverVars
  BY PTL DEF PushRespectsPolicy, PolicyAction
<1> QED BY <1>1, <1>2, <1>3, <1>4, TypeCorrect, PTL DEF Spec

=============================================================================
