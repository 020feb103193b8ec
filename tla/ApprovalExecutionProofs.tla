---------------------- MODULE ApprovalExecutionProofs ----------------------
(***************************************************************************)
(* Proofs about ApprovalExecution, for any number of requests, workers,    *)
(* failures, edits and suspensions.                                        *)
(***************************************************************************)
EXTENDS ApprovalExecution, TLAPS

USE DEF requestVars, jobVars, workerVars, resourceVars, effectVars, boundVars

(* The protocol's part of the inductive invariant *)
Protocol ==
  /\ PathOK
  /\ ClaimIsExclusive
  /\ RowLockIsHeld
  /\ EffectsAreRecorded
  /\ ResultsAreReal

(* Types are preserved: one step per action.  Which part of the handler a
   delivery is in matters to one of them: only a destructive request has a
   target. *)
LEMMA TypeStep == TypeOK /\ PathOK /\ [Next]_vars => TypeOK'
<1> SUFFICES ASSUME TypeOK, PathOK, [Next]_vars PROVE TypeOK'
  OBVIOUS
<1> USE ConstantsAssumption
<1>1. ASSUME NEW r \in Requests, ResolveMcpInvocation(r) PROVE TypeOK'
  BY <1>1 DEF TypeOK, ResolveMcpInvocation, Statuses
<1>2. ASSUME NEW r \in Requests, CreatePendingMcpRequest(r) PROVE TypeOK'
  BY <1>2 DEF TypeOK, CreatePendingMcpRequest, Statuses
<1>3. ASSUME NEW r \in Requests, PreflightDestructiveApproval(r) PROVE TypeOK'
  BY <1>3 DEF TypeOK, PreflightDestructiveApproval, Statuses, Destructive
<1>4. ASSUME NEW r \in Requests, NEW u \in Users,
             NEW d \in {"approved", "rejected"}, Decide(r, u, d)
      PROVE TypeOK'
  BY <1>4 DEF TypeOK, Decide, Statuses, ExecutionStatuses
<1>5. ASSUME NEW w \in Workers, NEW r \in Requests, TakeJob(w, r) PROVE TypeOK'
  BY <1>5 DEF TypeOK, TakeJob, Pcs, Goto, Runnable
<1>6. ASSUME NEW w \in Workers, CompleteJob(w) PROVE TypeOK'
  BY <1>6 DEF TypeOK, CompleteJob, Pcs, Finish
<1>7. ASSUME NEW w \in Workers, FailJob(w) PROVE TypeOK'
  <2>1. cur[w] \in Requests
    BY <1>7 DEF TypeOK, FailJob
  <2>2. /\ lockedBy' \in [Requests -> Workers \cup {NoWorker}]
        /\ wait' \in [Requests -> Nat]
    BY <1>7, <2>1 DEF TypeOK, FailJob, Backoff
  <2>3. /\ pc' = [pc EXCEPT ![w] = "idle"] /\ cur' = [cur EXCEPT ![w] = NoRequest]
        /\ UNCHANGED <<err, requestVars, queued, attempts, rowLock, resourceVars,
                       effectVars, boundVars>>
    BY <1>7 DEF FailJob, Finish
  <2> QED
    BY <2>2, <2>3 DEF TypeOK, Pcs
<1>8. ASSUME NEW w \in Workers, ClaimExecution(w) PROVE TypeOK'
  <2>1. claimed' \in [Requests -> BOOLEAN]
    BY <1>8 DEF TypeOK, ClaimExecution
  <2>2. age' \in [Requests -> Nat]
    BY <1>8 DEF TypeOK, ClaimExecution
  <2>3. /\ pc' \in [Workers -> Pcs]
        /\ \A v \in Workers : pc'[v] # "idle" => cur[v] \in Requests
    BY <1>8 DEF TypeOK, ClaimExecution, Pcs, Goto
  <2>4. UNCHANGED <<status, exec, snapshot, jobVars, cur, err, rowLock,
                    resourceVars, effectVars, boundVars>>
    BY <1>8 DEF ClaimExecution
  <2> QED
    BY <2>1, <2>2, <2>3, <2>4 DEF TypeOK
<1>9. ASSUME NEW w \in Workers, SettleStaleClaim(w) PROVE TypeOK'
  BY <1>9 DEF TypeOK, SettleStaleClaim, Pcs, Goto, ExecutionStatuses
<1>10. ASSUME NEW w \in Workers, SettlementVerdict(w) PROVE TypeOK'
  BY <1>10 DEF TypeOK, SettlementVerdict, Pcs, Goto
<1>11. ASSUME NEW w \in Workers, ResolveGrantedMcpTool(w) PROVE TypeOK'
  BY <1>11 DEF TypeOK, ResolveGrantedMcpTool, Pcs, Goto
<1>12. ASSUME NEW w \in Workers, ExecuteMcpInvocation(w) PROVE TypeOK'
  BY <1>12 DEF TypeOK, ExecuteMcpInvocation, Pcs, Goto
<1>13. ASSUME NEW w \in Workers, RecordOutcome(w) PROVE TypeOK'
  BY <1>13 DEF TypeOK, RecordOutcome, Pcs, Goto, ExecutionStatuses
<1>14. ASSUME NEW w \in Workers, LockRequestRow(w) PROVE TypeOK'
  BY <1>14 DEF TypeOK, LockRequestRow, Pcs, Goto
<1>15. ASSUME NEW w \in Workers, RevalidateResource(w) PROVE TypeOK'
  BY ZenonT(60), <1>15 DEF TypeOK, RevalidateResource, Pcs, Goto, ExecutionStatuses
<1>16. ASSUME NEW w \in Workers, ExecuteDestructive(w) PROVE TypeOK'
  <2>1. Target[cur[w]] \in Resources
    BY <1>16 DEF TypeOK, PathOK, ReplayLabels, Destructive, ExecuteDestructive
  <2> QED
    BY <1>16, <2>1 DEF TypeOK, ExecuteDestructive, Pcs, Goto, ExecutionStatuses,
                       ResourceStates
<1>17. ASSUME NEW w \in Workers, InfrastructureError(w) PROVE TypeOK'
  BY <1>17 DEF TypeOK, InfrastructureError, Pcs, Goto, ReleaseRowLocks
<1>18. ASSUME NEW w \in Workers, Crash(w) PROVE TypeOK'
  BY <1>18 DEF TypeOK, Crash, Pcs, Finish, ReleaseRowLocks
<1>19. ASSUME NEW r \in Requests, OrphanLockExpires(r) \/ LockOutlived(r)
       PROVE TypeOK'
  BY <1>19 DEF TypeOK, OrphanLockExpires, LockOutlived
<1>20. CASE Tick
  BY <1>20 DEF TypeOK, Tick
<1>21. ASSUME NEW o \in Resources, NEW s \in ResourceStates, ChangeResource(o, s)
       PROVE TypeOK'
  BY <1>21 DEF TypeOK, ChangeResource
<1>22. ASSUME NEW r \in Requests, ToggleGrant(r) PROVE TypeOK'
  BY <1>22 DEF TypeOK, ToggleGrant
<1>23. CASE SuspendTenant \/ ReactivateTenant
  <2>1. tenantActive' \in BOOLEAN
    BY <1>23 DEF SuspendTenant, ReactivateTenant
  <2>2. suspensions' \in Nat
    BY <1>23 DEF TypeOK, SuspendTenant, ReactivateTenant
  <2>3. UNCHANGED <<requestVars, jobVars, workerVars, rowLock, resState, version,
                    granted, effectVars, failures, edits>>
    BY <1>23 DEF SuspendTenant, ReactivateTenant
  <2> QED
    BY <2>1, <2>2, <2>3 DEF TypeOK
<1>24. CASE UNCHANGED vars
  BY <1>24 DEF TypeOK, vars
<1> QED
  BY <1>1, <1>2, <1>3, <1>4, <1>5, <1>6, <1>7, <1>8, <1>9, <1>10, <1>11, <1>12,
     <1>13, <1>14, <1>15, <1>16, <1>17, <1>18, <1>19, <1>20, <1>21, <1>22,
     <1>23, <1>24
     DEF Next, RequestStep, WorkerStep, Environment

(* The protocol's invariant is preserved.  The claim is exclusive because its
   UPDATE matches an unclaimed row only, the row lock because FOR UPDATE waits,
   and an effect is recorded by the transaction or claim that precedes it. *)
LEMMA ProtocolStep == IndInv /\ [Next]_vars => Protocol'
<1> SUFFICES ASSUME IndInv, [Next]_vars PROVE Protocol'
  OBVIOUS
<1> USE ConstantsAssumption
    DEF Protocol, IndInv, TypeOK, PathOK, ClaimIsExclusive, RowLockIsHeld,
        EffectsAreRecorded, ResultsAreReal, ClaimHolder, Destructive,
        ClaimLabels, ReplayLabels, Terminal
<1>1. ASSUME NEW r \in Requests, RequestStep(r)
      PROVE Protocol'
  <2>1. UNCHANGED <<claimed, workerVars, rowLock, effectVars>>
    BY <1>1 DEF RequestStep, ResolveMcpInvocation, CreatePendingMcpRequest,
                PreflightDestructiveApproval, Decide
  <2>2. CASE UNCHANGED exec
    BY <1>1, <2>1, <2>2
       DEF RequestStep, ResolveMcpInvocation, CreatePendingMcpRequest,
           PreflightDestructiveApproval, Decide
  <2>3. CASE ~UNCHANGED exec
    BY <1>1, <2>1, <2>3
       DEF RequestStep, ResolveMcpInvocation, CreatePendingMcpRequest,
           PreflightDestructiveApproval, Decide
  <2> QED
    BY <2>2, <2>3
<1>2. ASSUME NEW w \in Workers, NEW r \in Requests, TakeJob(w, r)
      PROVE Protocol'
  BY <1>2 DEF TakeJob, Goto, Runnable
<1>3. ASSUME NEW w \in Workers, CompleteJob(w) \/ FailJob(w)
      PROVE Protocol'
  <2>1. CASE CompleteJob(w)
    BY <2>1 DEF CompleteJob, Finish
  <2>2. CASE FailJob(w)
    BY <2>2 DEF FailJob, Finish
  <2> QED
    BY <1>3, <2>1, <2>2
<1>4. ASSUME NEW w \in Workers, ClaimExecution(w)
      PROVE Protocol'
  <2>1. CASE Claimable(cur[w])
    <3>1. ClaimIsExclusive'
      BY <1>4, <2>1 DEF ClaimExecution, Goto, Claimable
    <3>2. (PathOK /\ RowLockIsHeld /\ ResultsAreReal)'
      BY <1>4, <2>1 DEF ClaimExecution, Goto
    <3>3. EffectsAreRecorded'
      BY <1>4, <2>1 DEF ClaimExecution, Claimable
    <3> QED
      BY <3>1, <3>2, <3>3
  <2>2. CASE ~Claimable(cur[w])
    <3>1. /\ pc' = [pc EXCEPT ![w] = "settle"]
          /\ UNCHANGED <<status, exec, claimed, cur, err, rowLock, effectVars>>
      BY <1>4, <2>2 DEF ClaimExecution, Goto
    <3>2. pc[w] = "claim"
      BY <1>4 DEF ClaimExecution
    <3> QED
      BY <3>1, <3>2
  <2> QED
    BY <2>1, <2>2
<1>5. ASSUME NEW w \in Workers, SettleStaleClaim(w)
      PROVE Protocol'
  BY <1>5 DEF SettleStaleClaim, StaleClaim, Goto
<1>6. ASSUME NEW w \in Workers, SettlementVerdict(w) \/ ResolveGrantedMcpTool(w)
      PROVE Protocol'
  <2>1. CASE SettlementVerdict(w)
    <3>1. (PathOK /\ ClaimIsExclusive /\ RowLockIsHeld)'
      BY <2>1 DEF SettlementVerdict, Goto
    <3>2. (EffectsAreRecorded /\ ResultsAreReal)'
      BY <2>1 DEF SettlementVerdict, Goto
    <3> QED
      BY <3>1, <3>2
  <2>2. CASE ResolveGrantedMcpTool(w)
    <3>1. (PathOK /\ ClaimIsExclusive /\ RowLockIsHeld)'
      BY <2>2 DEF ResolveGrantedMcpTool, Goto
    <3>2. (EffectsAreRecorded /\ ResultsAreReal)'
      BY <2>2 DEF ResolveGrantedMcpTool, Goto
    <3> QED
      BY <3>1, <3>2
  <2> QED
    BY <1>6, <2>1, <2>2
<1>7. ASSUME NEW w \in Workers, ExecuteMcpInvocation(w)
      PROVE Protocol'
  <2>1. (PathOK /\ RowLockIsHeld)'
    BY <1>7 DEF ExecuteMcpInvocation, Goto
  <2>2. ClaimIsExclusive'
    BY <1>7 DEF ExecuteMcpInvocation, Goto
  <2>3. EffectsAreRecorded'
    BY <1>7 DEF ExecuteMcpInvocation
  <2>4. ResultsAreReal'
    BY <1>7 DEF ExecuteMcpInvocation, Goto
  <2> QED
    BY <2>1, <2>2, <2>3, <2>4
<1>8. ASSUME NEW w \in Workers, RecordOutcome(w)
      PROVE Protocol'
  BY <1>8 DEF RecordOutcome, Goto
<1>9. ASSUME NEW w \in Workers, LockRequestRow(w)
      PROVE Protocol'
  BY <1>9 DEF LockRequestRow, Goto
<1>10. ASSUME NEW w \in Workers, RevalidateResource(w)
      PROVE Protocol'
  <2>1. CASE Revalidates(cur[w])
    BY <1>10, <2>1 DEF RevalidateResource, Goto
  <2>2. CASE ~Revalidates(cur[w])
    <3>1. (PathOK /\ ClaimIsExclusive /\ ResultsAreReal)'
      <4>1. PathOK'
        BY <1>10, <2>2 DEF RevalidateResource, Goto
      <4>2. ClaimIsExclusive'
        <5>1. \A v \in Workers : ClaimHolder(v)' => ClaimHolder(v)
          BY <1>10, <2>2 DEF RevalidateResource, Goto
        <5>2. /\ cur' = cur /\ calls' = calls
              /\ \A q \in Requests : claimed[q] => claimed'[q]
          BY <1>10, <2>2 DEF RevalidateResource
        <5>3. \A v \in Workers : ClaimHolder(v) => cur[v] \in Requests
          OBVIOUS
        <5> HIDE DEF ClaimHolder, TypeOK, PathOK, RowLockIsHeld, EffectsAreRecorded,
                     ResultsAreReal
        <5> QED
          BY <5>1, <5>2, <5>3
      <4>3. ResultsAreReal'
        BY <1>10, <2>2 DEF RevalidateResource, Goto
      <4> QED
        BY <4>1, <4>2, <4>3
    <3>2. RowLockIsHeld'
      BY <1>10, <2>2 DEF RevalidateResource, Goto
    <3>3. EffectsAreRecorded'
      BY <1>10, <2>2 DEF RevalidateResource
    <3> QED
      BY <3>1, <3>2, <3>3
  <2> QED
    BY <2>1, <2>2
<1>11. ASSUME NEW w \in Workers, ExecuteDestructive(w)
      PROVE Protocol'
  <2>1. (PathOK /\ ClaimIsExclusive /\ ResultsAreReal)'
    BY <1>11 DEF ExecuteDestructive, Goto
  <2>2. RowLockIsHeld'
    BY <1>11 DEF ExecuteDestructive, Goto
  <2>3. EffectsAreRecorded'
    BY <1>11 DEF ExecuteDestructive
  <2> QED
    BY <2>1, <2>2, <2>3
<1>12. ASSUME NEW w \in Workers, InfrastructureError(w) \/ Crash(w)
      PROVE Protocol'
  <2>1. CASE InfrastructureError(w)
    <3>1. PathOK'
      BY <2>1 DEF InfrastructureError, Goto, ReleaseRowLocks
    <3>2. ClaimIsExclusive'
      BY <2>1 DEF InfrastructureError, Goto, ReleaseRowLocks
    <3>3. RowLockIsHeld'
      BY <2>1 DEF InfrastructureError, Goto, ReleaseRowLocks
    <3>4. (EffectsAreRecorded /\ ResultsAreReal)'
      BY <2>1 DEF InfrastructureError, Goto, ReleaseRowLocks
    <3> QED
      BY <3>1, <3>2, <3>3, <3>4
  <2>2. CASE Crash(w)
    <3>1. PathOK'
      BY <2>2 DEF Crash, Finish, ReleaseRowLocks
    <3>2. ClaimIsExclusive'
      BY <2>2 DEF Crash, Finish, ReleaseRowLocks
    <3>3. RowLockIsHeld'
      BY <2>2 DEF Crash, Finish, ReleaseRowLocks
    <3>4. (EffectsAreRecorded /\ ResultsAreReal)'
      BY <2>2 DEF Crash, Finish, ReleaseRowLocks
    <3> QED
      BY <3>1, <3>2, <3>3, <3>4
  <2> QED
    BY <1>12, <2>1, <2>2
<1>13. ASSUME UNCHANGED <<status, exec, claimed, workerVars, rowLock, calls,
                         mutations>>
       PROVE Protocol'
  BY <1>13
<1>14. ASSUME \/ \E r \in Requests :
                  OrphanLockExpires(r) \/ LockOutlived(r) \/ ToggleGrant(r)
              \/ \E o \in Resources, s \in ResourceStates : ChangeResource(o, s)
              \/ Tick \/ SuspendTenant \/ ReactivateTenant \/ UNCHANGED vars
       PROVE UNCHANGED <<status, exec, claimed, workerVars, rowLock, calls,
                         mutations>>
  BY <1>14 DEF OrphanLockExpires, LockOutlived, ToggleGrant, ChangeResource, Tick,
               SuspendTenant, ReactivateTenant, vars
<1> QED
  BY <1>1, <1>2, <1>3, <1>4, <1>5, <1>6, <1>7, <1>8, <1>9, <1>10, <1>11, <1>12,
     <1>13, <1>14
     DEF Next, WorkerStep, Environment

(* The inductive invariant holds in every behaviour. *)
THEOREM Invariance == Spec => []IndInv
<1>1. Init => IndInv
  BY ConstantsAssumption
     DEF Init, IndInv, TypeOK, Statuses, ExecutionStatuses, Pcs, ResourceStates,
         PathOK, ClaimIsExclusive, RowLockIsHeld, EffectsAreRecorded,
         ResultsAreReal, ClaimHolder, ClaimLabels, ReplayLabels
<1>2. IndInv /\ [Next]_vars => IndInv'
  BY TypeStep, ProtocolStep DEF IndInv, Protocol
<1> QED
  BY <1>1, <1>2, PTL DEF Spec

(* The variables of the row, the job and the workers keep their types. *)
THEOREM TypeCorrect == Spec => []TypeOK
<1>1. IndInv => TypeOK
  BY DEF IndInv
<1> QED
  BY <1>1, Invariance, PTL

(* approvalExecute brings an approved effect about at most once, and no effect
   without an approval, however often its job is delivered and wherever a
   delivery fails. *)
THEOREM ExecutesAtMostOnce == Spec => []AtMostOnce
<1>1. IndInv => AtMostOnce
  <2> SUFFICES ASSUME IndInv, NEW r \in Requests
               PROVE /\ calls[r] + mutations[r] <= 1
                     /\ calls[r] + mutations[r] = 1 => status[r] = "approved"
    BY DEF AtMostOnce
  <2>1. calls[r] \in {0, 1} /\ mutations[r] \in {0, 1}
    BY DEF IndInv, TypeOK, EffectsAreRecorded
  <2>2. calls[r] = 0 \/ mutations[r] = 0
    BY <2>1 DEF IndInv, EffectsAreRecorded
  <2>3. calls[r] = 1 \/ mutations[r] = 1 => status[r] = "approved"
    BY DEF IndInv, EffectsAreRecorded, Terminal
  <2> QED
    BY <2>1, <2>2, <2>3
<1> QED
  BY <1>1, Invariance, PTL

(* Only the replay of a destructive operation applies a mutation. *)
LEMMA MutationsKept ==
  ASSUME [Next]_vars, ~\E w \in Workers : ExecuteDestructive(w)
  PROVE  UNCHANGED mutations
  BY DEF Next, RequestStep, WorkerStep, Environment, ResolveMcpInvocation,
         CreatePendingMcpRequest, PreflightDestructiveApproval, Decide, OrphanLockExpires,
         TakeJob, CompleteJob, FailJob, ClaimExecution, SettleStaleClaim, SettlementVerdict,
         ResolveGrantedMcpTool, ExecuteMcpInvocation, RecordOutcome, LockRequestRow,
         RevalidateResource, Tick, InfrastructureError, Crash, LockOutlived, ToggleGrant,
         ChangeResource, SuspendTenant, ReactivateTenant, vars

(* A deleted resource stays deleted: no writer and no replay changes it. *)
LEMMA DeletedStays ==
  ASSUME IndInv, [Next]_vars, NEW q \in Resources, resState[q] = "deleted"
  PROVE  resState'[q] = "deleted"
<1>1. CASE \E w \in Workers : ExecuteDestructive(w)
  BY <1>1 DEF ExecuteDestructive, IndInv, TypeOK
<1>2. CASE \E o \in Resources, s \in ResourceStates : ChangeResource(o, s)
  BY <1>2 DEF ChangeResource, IndInv, TypeOK
<1>3. CASE UNCHANGED resState
  BY <1>3
<1> QED
  BY <1>1, <1>2, <1>3 DEF Next, RequestStep, WorkerStep, Environment, ResolveMcpInvocation,
         CreatePendingMcpRequest, PreflightDestructiveApproval, Decide, OrphanLockExpires,
         TakeJob, CompleteJob, FailJob, ClaimExecution, SettleStaleClaim, SettlementVerdict,
         ResolveGrantedMcpTool, ExecuteMcpInvocation, RecordOutcome, LockRequestRow,
         RevalidateResource, Tick, InfrastructureError, Crash, LockOutlived, ToggleGrant,
         SuspendTenant, ReactivateTenant, vars

(* A destructive request succeeds by the replay of its own operation. *)
LEMMA SucceedsByReplay ==
  ASSUME IndInv, [Next]_vars, NEW r \in Requests, Destructive(r),
         exec[r] # "succeeded", exec'[r] = "succeeded"
  PROVE  \E w \in Workers : ExecuteDestructive(w) /\ cur[w] = r
<1>1. ASSUME NEW w \in Workers, RecordOutcome(w) PROVE FALSE
  BY <1>1 DEF RecordOutcome, IndInv, TypeOK, PathOK, ClaimLabels
<1>2. ASSUME NEW w \in Workers, ExecuteDestructive(w) PROVE cur[w] = r
  BY <1>2 DEF ExecuteDestructive, IndInv, TypeOK
<1>3. ASSUME NEW w \in Workers, SettleStaleClaim(w) \/ RevalidateResource(w) PROVE FALSE
  BY <1>3 DEF SettleStaleClaim, RevalidateResource, IndInv, TypeOK
<1>4. ASSUME NEW q \in Requests, RequestStep(q) PROVE FALSE
  BY <1>4 DEF RequestStep, ResolveMcpInvocation, CreatePendingMcpRequest,
              PreflightDestructiveApproval, Decide, IndInv, TypeOK
<1>5. CASE UNCHANGED exec
  BY <1>5
<1> QED
  BY <1>1, <1>2, <1>3, <1>4, <1>5 DEF Next, WorkerStep, Environment, OrphanLockExpires,
         TakeJob, CompleteJob, FailJob, ClaimExecution, SettlementVerdict,
         ResolveGrantedMcpTool, ExecuteMcpInvocation, LockRequestRow,
         Tick, InfrastructureError, Crash, LockOutlived, ToggleGrant,
         ChangeResource, SuspendTenant, ReactivateTenant, vars

(* What a settled row says survives every later step: a call stays counted,
   a mutation stays counted, and nobody brings a deleted item back. *)
LEMMA OutcomeStep == IndInv /\ OutcomeIsTrue /\ [Next]_vars => OutcomeIsTrue'
<1> SUFFICES ASSUME IndInv, OutcomeIsTrue, [Next]_vars, NEW r \in Requests,
                    exec'[r] = "succeeded"
             PROVE  \/ calls'[r] + mutations'[r] = 1
                    \/ Kind[r] = "item.delete" /\ resState'[Target[r]] = "deleted"
  BY DEF OutcomeIsTrue
<1> USE ConstantsAssumption
<1>1. IndInv'
  BY TypeStep, ProtocolStep DEF IndInv, Protocol
<1>2. calls'[r] \in Nat /\ mutations'[r] \in Nat
  BY <1>1 DEF IndInv, TypeOK
<1>3. CASE ~Destructive(r)
  <2>1. calls'[r] = 1 /\ mutations'[r] = 0
    BY <1>1, <1>3 DEF IndInv, EffectsAreRecorded, Destructive
  <2> QED
    BY <2>1
<1>4. CASE Destructive(r) /\ exec[r] = "succeeded"
  <2>1. calls[r] = 0 /\ calls'[r] = 0
    BY <1>1, <1>4 DEF IndInv, EffectsAreRecorded, Destructive
  <2>2. \/ mutations[r] = 1
        \/ Kind[r] = "item.delete" /\ resState[Target[r]] = "deleted"
    <3>1. \/ calls[r] + mutations[r] = 1
          \/ Kind[r] = "item.delete" /\ resState[Target[r]] = "deleted"
      BY <1>4 DEF OutcomeIsTrue
    <3>2. mutations[r] \in Nat
      BY DEF IndInv, TypeOK
    <3> QED
      BY <2>1, <3>1, <3>2
  <2>3. mutations[r] = 1 => mutations'[r] = 1
    <3>1. CASE \E w \in Workers : ExecuteDestructive(w)
      <4>1. PICK w \in Workers : ExecuteDestructive(w)
        BY <3>1
      <4>2. cur[w] # r
        BY <1>4, <4>1 DEF ExecuteDestructive, IndInv, RowLockIsHeld
      <4> QED
        BY <4>1, <4>2 DEF ExecuteDestructive, IndInv, TypeOK
    <3>2. CASE ~\E w \in Workers : ExecuteDestructive(w)
      BY <3>2, MutationsKept
    <3> QED
      BY <3>1, <3>2
  <2>4. Target[r] \in Resources
    BY <1>4 DEF Destructive
  <2>5. resState[Target[r]] = "deleted" => resState'[Target[r]] = "deleted"
    BY <2>4, DeletedStays
  <2> QED
    BY <2>1, <2>2, <2>3, <2>5, <1>2
<1>5. CASE Destructive(r) /\ exec[r] # "succeeded"
  <2>1. PICK w \in Workers : ExecuteDestructive(w) /\ cur[w] = r
    BY <1>5, SucceedsByReplay
  <2>2. calls'[r] = 0 /\ mutations[r] = 0
    BY <1>1, <1>5, <2>1 DEF IndInv, EffectsAreRecorded, Destructive, ExecuteDestructive,
                            RowLockIsHeld, Terminal
  <2>3. Target[r] \in Resources
    BY <1>5 DEF Destructive
  <2>4. \/ resState[Target[r]] = "live"
        \/ Kind[r] = "item.delete" /\ resState[Target[r]] = "deleted"
    BY <2>1, <1>5 DEF ExecuteDestructive, IndInv, TypeOK
  <2>5. CASE resState[Target[r]] = "live"
    <3>1. mutations'[r] = mutations[r] + 1
      BY <2>1, <2>5 DEF ExecuteDestructive, IndInv, TypeOK
    <3> QED
      BY <2>2, <3>1
  <2>6. CASE Kind[r] = "item.delete" /\ resState[Target[r]] = "deleted"
    BY <2>3, <2>6, DeletedStays
  <2> QED
    BY <2>4, <2>5, <2>6
<1> QED
  BY <1>3, <1>4, <1>5

(* The row of a tool call or a deletion tells the truth: one that says succeeded
   has its call or its mutation behind it, or names an item that is gone. *)
THEOREM SettledRowsAreTrue == Spec => []OutcomeIsTrue
<1>1. Init => OutcomeIsTrue
  BY DEF Init, OutcomeIsTrue
<1> QED
  BY <1>1, OutcomeStep, Invariance, PTL DEF Spec

(* How the columns and counters map to the contract's variables *)
LEMMA DecisionKept == UNCHANGED status => UNCHANGED decisionOf
  BY DEF decisionOf

(* Untouched counters are untouched effects. *)
LEMMA EffectsKept == UNCHANGED <<calls, mutations>> => UNCHANGED effectsOf
  BY DEF effectsOf

(* An untouched execution status is an untouched outcome. *)
LEMMA OutcomeKept == UNCHANGED exec => UNCHANGED outcomeOf
  BY DEF outcomeOf

(* A decision written to the row is the contract's decision. *)
LEMMA DecisionMade ==
  ASSUME TypeOK, NEW r \in Requests, NEW d \in {"approved", "rejected"},
         status' = [status EXCEPT ![r] = d]
  PROVE decisionOf' = [decisionOf EXCEPT ![r] = d]
  BY DEF TypeOK, decisionOf

(* A terminal execution status is the contract's outcome. *)
LEMMA OutcomeMade ==
  ASSUME TypeOK, NEW r \in Requests, NEW o \in Terminal,
         exec' = [exec EXCEPT ![r] = o]
  PROVE outcomeOf' = [outcomeOf EXCEPT ![r] = o]
  BY DEF TypeOK, outcomeOf

(* The first increment of a counter is the contract's effect. *)
LEMMA EffectMade ==
  ASSUME TypeOK, NEW r \in Requests, calls[r] + mutations[r] = 0,
         \/ calls' = [calls EXCEPT ![r] = @ + 1] /\ UNCHANGED mutations
         \/ mutations' = [mutations EXCEPT ![r] = @ + 1] /\ UNCHANGED calls
  PROVE effectsOf[r] = 0 /\ effectsOf' = [effectsOf EXCEPT ![r] = 1]
<1> USE DEF TypeOK
<1>1. calls[r] = 0 /\ mutations[r] = 0
  OBVIOUS
<1>2. \A q \in Requests : calls'[q] + mutations'[q] =
                            IF q = r THEN 1 ELSE calls[q] + mutations[q]
  BY <1>1
<1> QED
  BY <1>1, <1>2 DEF effectsOf

(* Every step of a delivery is a step of the contract, or none. *)
LEMMA ContractStep == IndInv /\ [Next]_vars => [Contract!Next]_(Contract!vars)
<1> SUFFICES ASSUME IndInv, [Next]_vars PROVE [Contract!Next]_(Contract!vars)
  OBVIOUS
<1> USE ConstantsAssumption DEF IndInv
<1>1. ASSUME NEW r \in Requests, NEW u \in Users,
             NEW d \in {"approved", "rejected"}, Decide(r, u, d)
      PROVE Contract!Decide(r)
  <2>1. status[r] = "pending" /\ decisionOf[r] = "none"
    BY <1>1 DEF Decide, decisionOf
  <2>2. outcomeOf' = outcomeOf
    BY <1>1 DEF Decide, outcomeOf, Terminal, EffectsAreRecorded, TypeOK
  <2> QED
    BY <1>1, <2>1, <2>2, DecisionMade, EffectsKept DEF Decide, Contract!Decide
<1>2. ASSUME NEW w \in Workers, ExecuteMcpInvocation(w)
      PROVE Contract!Effect(cur[w]) \/ UNCHANGED Contract!vars
  <2>1. /\ cur[w] \in Requests
        /\ ~Destructive(cur[w])
        /\ claimed[cur[w]]
        /\ calls[cur[w]] = 0
    BY <1>2 DEF ExecuteMcpInvocation, TypeOK, PathOK, ClaimLabels, ClaimIsExclusive, ClaimHolder
  <2>2. /\ mutations[cur[w]] = 0
        /\ decisionOf[cur[w]] = "approved"
        /\ outcomeOf[cur[w]] # "succeeded"
    BY <2>1 DEF EffectsAreRecorded, decisionOf, outcomeOf
  <2>3. UNCHANGED <<decisionOf, outcomeOf>>
    BY <1>2, DecisionKept, OutcomeKept DEF ExecuteMcpInvocation
  <2>4. CASE UNCHANGED calls
    BY <1>2, <2>3, <2>4, EffectsKept DEF ExecuteMcpInvocation, Contract!vars
  <2>5. CASE calls' = [calls EXCEPT ![cur[w]] = @ + 1]
    <3>1. effectsOf[cur[w]] = 0 /\ effectsOf' = [effectsOf EXCEPT ![cur[w]] = 1]
      <4>1. UNCHANGED mutations
        BY <1>2 DEF ExecuteMcpInvocation
      <4>2. calls[cur[w]] + mutations[cur[w]] = 0
        BY <2>1, <2>2
      <4> QED
        BY <2>1, <2>5, <4>1, <4>2, EffectMade
    <3> QED
      BY <2>2, <2>3, <3>1 DEF Contract!Effect
  <2>6. calls' = [calls EXCEPT ![cur[w]] = @ + 1] \/ calls' = calls
    <3>1. PICK ran \in BOOLEAN :
            calls' = [calls EXCEPT ![cur[w]] = IF ran THEN @ + 1 ELSE @]
      BY <1>2 DEF ExecuteMcpInvocation
    <3>2. CASE ran
      BY <3>1, <3>2
    <3>3. CASE ~ran
      BY <3>1, <3>3 DEF TypeOK
    <3> QED
      BY <3>2, <3>3
  <2> QED
    BY <2>4, <2>5, <2>6
<1>3. ASSUME NEW w \in Workers, SettleStaleClaim(w)
      PROVE Contract!Settle(cur[w]) \/ UNCHANGED Contract!vars
  <2>1. UNCHANGED <<decisionOf, effectsOf>>
    BY <1>3, DecisionKept, EffectsKept DEF SettleStaleClaim
  <2>2. CASE StaleClaim(cur[w])
    <3>1. cur[w] \in Requests
      BY <1>3 DEF SettleStaleClaim, TypeOK
    <3>2. decisionOf[cur[w]] = "approved" /\ outcomeOf[cur[w]] = "open"
      BY <2>2, <3>1 DEF StaleClaim, decisionOf, outcomeOf, Terminal
    <3>3. outcomeOf' = [outcomeOf EXCEPT ![cur[w]] = "conflict"]
      BY <1>3, <2>2, <3>1, OutcomeMade DEF SettleStaleClaim, Terminal
    <3> QED
      BY <2>1, <3>2, <3>3 DEF Contract!Settle
  <2>3. CASE ~StaleClaim(cur[w])
    BY <1>3, <2>1, <2>3, OutcomeKept DEF SettleStaleClaim, Contract!vars
  <2> QED
    BY <2>2, <2>3
<1>4. ASSUME NEW w \in Workers, RecordOutcome(w)
      PROVE Contract!Settle(cur[w]) \/ UNCHANGED Contract!vars
  <2>1. UNCHANGED <<decisionOf, effectsOf>>
    BY <1>4, DecisionKept, EffectsKept DEF RecordOutcome
  <2>2. CASE exec[cur[w]] = "queued"
    <3>1. cur[w] \in Requests
      BY <1>4 DEF RecordOutcome, TypeOK
    <3>2. decisionOf[cur[w]] = "approved" /\ outcomeOf[cur[w]] = "open"
      BY <2>2, <3>1 DEF EffectsAreRecorded, decisionOf, outcomeOf, Terminal
    <3>3. PICK o \in Terminal : exec' = [exec EXCEPT ![cur[w]] = o]
      BY <1>4, <2>2 DEF RecordOutcome, Terminal
    <3>4. outcomeOf' = [outcomeOf EXCEPT ![cur[w]] = o]
      BY <3>1, <3>3, OutcomeMade
    <3> QED
      BY <2>1, <3>2, <3>4 DEF Contract!Settle, Terminal
  <2>3. CASE exec[cur[w]] # "queued"
    BY <1>4, <2>1, <2>3, OutcomeKept DEF RecordOutcome, Contract!vars
  <2> QED
    BY <2>2, <2>3
<1>5. ASSUME NEW w \in Workers, RevalidateResource(w) \/ ExecuteDestructive(w)
      PROVE Contract!Settle(cur[w]) \/ UNCHANGED Contract!vars
  <2>1. /\ cur[w] \in Requests
        /\ exec[cur[w]] = "queued"
        /\ status[cur[w]] = "approved"
        /\ calls[cur[w]] + mutations[cur[w]] = 0
    BY <1>5 DEF RevalidateResource, ExecuteDestructive, TypeOK, RowLockIsHeld,
                EffectsAreRecorded, PathOK, ReplayLabels, Terminal
  <2>2. decisionOf[cur[w]] = "approved" /\ outcomeOf[cur[w]] = "open"
    BY <2>1 DEF decisionOf, outcomeOf, Terminal
  <2>3. UNCHANGED decisionOf
    BY <1>5, DecisionKept DEF RevalidateResource, ExecuteDestructive
  <2>4. \/ UNCHANGED effectsOf
        \/ effectsOf[cur[w]] = 0 /\ effectsOf' = [effectsOf EXCEPT ![cur[w]] = 1]
    BY <1>5, <2>1, EffectsKept, EffectMade DEF RevalidateResource, ExecuteDestructive
  <2>5. CASE UNCHANGED exec
    BY <1>5, <2>1, <2>3, <2>5, EffectsKept, OutcomeKept
       DEF RevalidateResource, ExecuteDestructive, TypeOK, Contract!vars
  <2>6. CASE \E o \in Terminal : exec' = [exec EXCEPT ![cur[w]] = o]
    <3>1. PICK o \in Terminal : exec' = [exec EXCEPT ![cur[w]] = o]
      BY <2>6
    <3>2. outcomeOf' = [outcomeOf EXCEPT ![cur[w]] = o]
      BY <2>1, <3>1, OutcomeMade
    <3> QED
      BY <2>2, <2>3, <2>4, <3>2 DEF Contract!Settle, Terminal
  <2>7. UNCHANGED exec \/ \E o \in Terminal : exec' = [exec EXCEPT ![cur[w]] = o]
    BY <1>5 DEF RevalidateResource, ExecuteDestructive, Terminal
  <2> QED
    BY <2>5, <2>6, <2>7
<1>6. ASSUME NEW r \in Requests,
             \/ ResolveMcpInvocation(r)
             \/ CreatePendingMcpRequest(r)
             \/ PreflightDestructiveApproval(r)
      PROVE UNCHANGED Contract!vars
  <2>1. UNCHANGED decisionOf
    BY <1>6 DEF ResolveMcpInvocation, CreatePendingMcpRequest,
                PreflightDestructiveApproval, decisionOf, TypeOK
  <2> QED
    BY <1>6, <2>1, EffectsKept, OutcomeKept
       DEF ResolveMcpInvocation, CreatePendingMcpRequest,
           PreflightDestructiveApproval, Contract!vars
<1>7. ASSUME UNCHANGED <<status, exec, calls, mutations>>
      PROVE UNCHANGED Contract!vars
  BY <1>7, DecisionKept, EffectsKept, OutcomeKept DEF Contract!vars
<1>8. ASSUME NEW w \in Workers,
             \/ CompleteJob(w) \/ FailJob(w) \/ ClaimExecution(w)
             \/ SettlementVerdict(w) \/ ResolveGrantedMcpTool(w) \/ LockRequestRow(w)
             \/ InfrastructureError(w) \/ Crash(w)
             \/ \E r \in Requests : TakeJob(w, r)
      PROVE UNCHANGED <<status, exec, calls, mutations>>
  BY <1>8 DEF CompleteJob, FailJob, ClaimExecution, SettlementVerdict,
              ResolveGrantedMcpTool, LockRequestRow, InfrastructureError, Crash,
              TakeJob
<1>9. ASSUME \/ \E r \in Requests : OrphanLockExpires(r) \/ LockOutlived(r) \/ ToggleGrant(r)
             \/ \E o \in Resources, s \in ResourceStates : ChangeResource(o, s)
             \/ Tick \/ SuspendTenant \/ ReactivateTenant \/ UNCHANGED vars
      PROVE UNCHANGED <<status, exec, calls, mutations>>
  BY <1>9 DEF OrphanLockExpires, LockOutlived, ToggleGrant, ChangeResource, Tick,
              SuspendTenant, ReactivateTenant, vars
<1>10. \A w \in Workers : pc[w] # "idle" => cur[w] \in Requests
  BY DEF TypeOK
<1>11. ASSUME NEW w \in Workers,
              \/ ExecuteMcpInvocation(w) \/ SettleStaleClaim(w) \/ RecordOutcome(w)
              \/ RevalidateResource(w) \/ ExecuteDestructive(w)
       PROVE Contract!Next \/ UNCHANGED Contract!vars
  <2>1. cur[w] \in Requests
    BY <1>10, <1>11 DEF ExecuteMcpInvocation, SettleStaleClaim, RecordOutcome,
                        RevalidateResource, ExecuteDestructive
  <2> QED
    BY <1>2, <1>3, <1>4, <1>5, <1>11, <2>1 DEF Contract!Next
<1>12. ASSUME NEW r \in Requests, RequestStep(r)
       PROVE Contract!Next \/ UNCHANGED Contract!vars
  BY <1>1, <1>6, <1>12 DEF RequestStep, Contract!Next
<1> QED
  BY <1>7, <1>8, <1>9, <1>11, <1>12 DEF Next, WorkerStep, Environment

(* The claim-and-record protocol of mcpInvoke and the lock-and-replay protocol of
   the destructive operations both implement the contract of the queue. *)
THEOREM Refinement == Spec => ImplementsContract
<1>1. Init => Contract!Init
  BY DEF Init, Contract!Init, decisionOf, effectsOf, outcomeOf, Terminal
<1> QED
  BY <1>1, ContractStep, Invariance, PTL
     DEF Spec, ImplementsContract, Contract!Spec
=============================================================================
