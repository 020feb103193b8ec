--------------------------- MODULE PlatformProofs ---------------------------
(* Proofs for the platform, for any number of users, requests, runs, operators,
   items and module files: that the row locks of the account operations keep an
   active administrator, sessions only of active tenants, and push registrations
   only of live sessions; that the limiter counts exactly, within its map; what
   an erasure and an export leave; that alerts are counted, seeds whole, data
   migrations complete and the module registry unambiguous; and, of all of
   these together, that the platform is safe. *)
EXTENDS MCPlatform, WellFoundedInduction, FunctionTheorems, FiniteSetTheorems,
        SequenceTheorems, TLAPS

USE AccountsAssumption

AnOp(op) == op \in {"none", "push"} \cup BindingOps \cup AdminOps

LEMMA FinishEffect ==
  ASSUME AccountsShape, NEW r \in AcctRequests, Finish(r)
  PROVE  /\ areq' \in [AcctRequests -> Requests] /\ areq'[r].pc = "done"
         /\ \A q \in AcctRequests \ {r} : areq'[q] = areq[q]
BY DEF AccountsShape, Finish, IdleRequest, Requests, Pcs

LEMMA AcctAtEffect ==
  ASSUME AccountsShape, NEW r \in AcctRequests, NEW rec \in Requests, AcctAt(r, rec)
  PROVE  /\ areq' \in [AcctRequests -> Requests] /\ areq'[r] = rec
         /\ \A q \in AcctRequests \ {r} : areq'[q] = areq[q]
BY DEF AccountsShape, AcctAt

(* What a request's step does to the requests: it moves its own, which had *)
(* not ended; it locks, or it ends or prepares without a lock.             *)
Stirs(r) ==
  /\ areq' \in [AcctRequests -> Requests]
  /\ areq[r].pc # "done"
  /\ \A q \in AcctRequests \ {r} : areq'[q] = areq[q]
  /\ areq'[r].pc \in {"verified", "locked", "push"} => areq'[r].user \in Users

Unlocked(r) == Stirs(r) /\ areq'[r].pc # "locked"
AtRest(r) == Unlocked(r) /\ areq'[r].pc = "done"

LEMMA VerifyEffect ==
  ASSUME AccountsShape, NEW r \in AcctRequests, NEW op \in {"login", "deleteOwn"}, NEW u \in Users,
         Verify(r, op, u)
  PROVE  Unlocked(r) /\ areq'[r].pc = "verified"
<1> DEFINE rec == [pc |-> "verified", op |-> op, user |-> u, pw |-> password[u], seen |-> 0]
<1>1. rec \in Requests
  BY DEF AccountsShape, Requests, Pcs, BindingOps, AdminOps
<1>2. AcctAt(r, rec) /\ areq[r].pc = "idle"
  BY DEF Verify
<1>3. rec.pc = "verified" /\ rec.user = u
  OBVIOUS
<1> HIDE DEF rec
<1> QED
  BY <1>1, <1>2, <1>3, AcctAtEffect DEF Unlocked, Stirs

LEMMA AuthenticatePushEffect ==
  ASSUME AccountsShape, NEW r \in AcctRequests, NEW s \in live, AuthenticatePush(r, s)
  PROVE  /\ Unlocked(r) /\ areq'[r].pc = "push"
         /\ areq'[r].user = s.user /\ areq'[r].seen = s.id
<1> DEFINE rec == [pc |-> "push", op |-> "push", user |-> s.user, pw |-> 0, seen |-> s.id]
<1>1. rec \in Requests /\ s.user \in Users
  BY DEF AccountsShape, Requests, Pcs
<1>2. AcctAt(r, rec) /\ areq[r].pc = "idle"
  BY DEF AuthenticatePush
<1>3. rec.pc = "push" /\ rec.user = s.user /\ rec.seen = s.id
  OBVIOUS
<1> HIDE DEF rec
<1> QED
  BY <1>1, <1>2, <1>3, AcctAtEffect DEF Unlocked, Stirs

LEMMA LockBindingEffect ==
  ASSUME AccountsShape, NEW r \in AcctRequests, NEW op \in BindingOps, NEW u \in Users,
         LockBinding(r, op, u)
  PROVE  \/ AtRest(r)
         \/ /\ Stirs(r) /\ areq'[r].pc = "locked" /\ areq'[r].op = op /\ areq'[r].user = u
            /\ tenantStatus[u] = "active" /\ ~TargetLocked(u)
<1> DEFINE rec == [pc |-> "locked", op |-> op, user |-> u, pw |-> areq[r].pw, seen |-> issued[u]]
<1>1. rec \in Requests
  BY DEF AccountsShape, Requests, Pcs
<1>2. areq[r].pc # "done"
  BY DEF LockBinding
<1>3. rec.pc = "locked" /\ rec.user = u /\ rec.op = op
  OBVIOUS
<1>4. CASE tenantStatus[u] = "active"
  <2>1. AcctAt(r, rec) /\ ~TargetLocked(u)
    BY <1>4 DEF LockBinding
  <2> HIDE DEF rec
  <2> QED
    BY <1>1, <1>2, <1>3, <1>4, <2>1, AcctAtEffect DEF Stirs
<1>5. CASE tenantStatus[u] # "active"
  <2>1. Finish(r)
    BY <1>5 DEF LockBinding
  <2> QED
    BY <1>2, <2>1, FinishEffect DEF AtRest, Unlocked, Stirs
<1> QED
  BY <1>4, <1>5

LEMMA LockTargetEffect ==
  ASSUME AccountsShape, NEW r \in AcctRequests, NEW op \in AdminOps, NEW u \in Users,
         LockTarget(r, op, u)
  PROVE  \/ AtRest(r)
         \/ /\ Stirs(r) /\ areq'[r].pc = "locked" /\ areq'[r].op = op /\ areq'[r].user = u
            /\ ~MembershipLocked /\ ~ShareLocked(u)
            /\ GuardsLastAdmin(op, u) => AnotherActiveAdmin(u)
            /\ op = "deleteOwn" => areq'[r].pw = password[u]
<1> DEFINE rec == [areq[r] EXCEPT !.pc = "locked", !.op = op, !.user = u]
           refused == \/ GuardsLastAdmin(op, u) /\ ~AnotherActiveAdmin(u)
                      \/ op = "deleteOwn" /\ areq[r].pw # password[u]
<1>0. areq[r] \in Requests
  BY DEF AccountsShape
<1>1. rec \in Requests /\ rec.pc = "locked" /\ rec.user = u /\ rec.op = op /\ rec.pw = areq[r].pw
  BY <1>0 DEF Requests, Pcs
<1>2. areq[r].pc # "done" /\ ~MembershipLocked /\ ~ShareLocked(u)
  BY DEF LockTarget
<1>4. CASE ~refused
  <2>1. AcctAt(r, rec)
    BY <1>4 DEF LockTarget
  <2> HIDE DEF rec
  <2> QED
    BY <1>1, <1>2, <1>4, <2>1, AcctAtEffect DEF Stirs
<1>5. CASE refused
  <2>1. Finish(r)
    BY <1>5 DEF LockTarget
  <2> QED
    BY <1>2, <2>1, FinishEffect DEF AtRest, Unlocked, Stirs
<1> QED
  BY <1>4, <1>5

\* The steps that end a request.
EndsRequest(r) ==
  \/ CreateSession(r) \/ CreatePasswordResetToken(r) \/ ResetPassword(r) \/ SuspendAccount(r)
  \/ ReactivateAccount(r) \/ ChangeAccountRole(r) \/ BeginTenantDeletion(r) \/ RollBack(r)
  \/ \E e \in Endpoints : RegisterPush(r, e)

LEMMA EndsEffect ==
  ASSUME AccountsShape, NEW r \in AcctRequests, EndsRequest(r)
  PROVE  AtRest(r)
<1>1. Finish(r) /\ areq[r].pc # "done"
  BY DEF EndsRequest, CreateSession, CreatePasswordResetToken, ResetPassword, SuspendAccount,
    ReactivateAccount, ChangeAccountRole, BeginTenantDeletion, RollBack, RegisterPush, Locked
<1> QED
  BY <1>1, FinishEffect DEF AtRest, Unlocked, Stirs

-----------------------------------------------------------------------------
(* The shape of the state. *)

LEMMA MovesShape ==
  ASSUME AccountsShape, NEW r \in AcctRequests, Stirs(r)
  PROVE  /\ areq' \in [AcctRequests -> Requests]
         /\ \A q \in AcctRequests : areq'[q].pc \in {"verified", "locked", "push"} => areq'[q].user \in Users
BY DEF AccountsShape, Stirs

LEMMA RevokedShape ==
  ASSUME AccountsShape, NEW u \in Users, push' = push \/ push' = RevokePushOf(u)
  PROVE  push' \in [Endpoints -> {NoEntry} \cup [id : SessionIds, user : Users, late : BOOLEAN]]
BY DEF AccountsShape, RevokePushOf

LEMMA EndsShape ==
  ASSUME AccountsShape, IdsAreUsed, NEW r \in AcctRequests, EndsRequest(r)
  PROVE  AccountsShape'
<1>0. Stirs(r)
  BY EndsEffect DEF AtRest, Unlocked
<1>a. areq[r] \in Requests /\ (areq[r].pc \in {"locked", "push"} => areq[r].user \in Users)
  BY DEF AccountsShape
<1>1. CASE CreateSession(r)
  <2> DEFINE s == [id |-> r, user |-> areq[r].user, pw |-> areq[r].pw,
                   overtaken |-> areq[r].pw # password[areq[r].user]]
  <2>1. /\ live' = live \cup {s} /\ areq[r].user \in Users
        /\ UNCHANGED <<tenantStatus, role, password, push, issued>>
    BY <1>1, <1>a DEF CreateSession, Locked
  <2>2. s \in [id : SessionIds, user : Users, pw : 0 .. MaxPassword, overtaken : BOOLEAN]
    BY <1>a, <2>1 DEF SessionIds, Requests
  <2> HIDE DEF s
  <2> QED
    BY <1>0, <2>1, <2>2, MovesShape DEF AccountsShape
<1>2. CASE CreatePasswordResetToken(r)
  <2>1. areq[r].user \in Users /\ UNCHANGED <<tenantStatus, role, password, live, push>>
    BY <1>2, <1>a DEF CreatePasswordResetToken, Locked
  <2>2. issued' \in [Users -> Nat]
    BY <1>2, <2>1 DEF CreatePasswordResetToken, AccountsShape
  <2> QED
    BY <1>0, <2>1, <2>2, MovesShape DEF AccountsShape
<1>3. CASE ResetPassword(r)
  <2>1. /\ areq[r].user \in Users /\ live' \subseteq live /\ push' = RevokePushOf(areq[r].user)
        /\ UNCHANGED <<tenantStatus, role, issued>>
    BY <1>3, <1>a DEF ResetPassword, Locked
  <2>2. password' \in [Users -> 0 .. MaxPassword]
    BY <1>3, <2>1 DEF ResetPassword, AccountsShape
  <2> QED
    BY <1>0, <2>1, <2>2, MovesShape, RevokedShape DEF AccountsShape
<1>4. CASE SuspendAccount(r) \/ BeginTenantDeletion(r)
  <2>1. /\ areq[r].user \in Users /\ live' \subseteq live
        /\ push' = push \/ push' = RevokePushOf(areq[r].user)
        /\ UNCHANGED <<role, password, issued>>
    BY <1>4, <1>a DEF SuspendAccount, BeginTenantDeletion, Locked
  <2>2. tenantStatus' \in [Users -> {"active", "suspended", "deleting", "gone"}]
    BY <1>4, <2>1 DEF SuspendAccount, BeginTenantDeletion, AccountsShape
  <2> QED
    BY <1>0, <2>1, <2>2, MovesShape, RevokedShape DEF AccountsShape
<1>5. CASE ReactivateAccount(r) \/ ChangeAccountRole(r) \/ RollBack(r)
  <2>1. areq[r].user \in Users /\ UNCHANGED <<password, live, push, issued>>
    BY <1>5, <1>a DEF ReactivateAccount, ChangeAccountRole, RollBack, Locked
  <2>2. tenantStatus' \in [Users -> {"active", "suspended", "deleting", "gone"}]
    BY <1>5, <2>1 DEF ReactivateAccount, ChangeAccountRole, RollBack, AccountsShape
  <2>3. role' \in [Users -> {"admin", "member"}]
    BY <1>5, <2>1 DEF ReactivateAccount, ChangeAccountRole, RollBack, AccountsShape
  <2> QED
    BY <1>0, <2>1, <2>2, <2>3, MovesShape DEF AccountsShape
<1>6. ASSUME NEW e \in Endpoints, RegisterPush(r, e) PROVE AccountsShape'
  <2>1. /\ areq[r].pc = "push" /\ areq[r].user \in Users
        /\ UNCHANGED <<tenantStatus, role, password, live, issued>>
    BY <1>6, <1>a DEF RegisterPush
  <2>2. areq[r].seen \in SessionIds
    BY <2>1 DEF IdsAreUsed, Used, SessionIds
  <2>3. push' \in [Endpoints -> {NoEntry} \cup [id : SessionIds, user : Users, late : BOOLEAN]]
    BY <1>6, <2>1, <2>2 DEF RegisterPush, AccountsShape
  <2> QED
    BY <1>0, <2>1, <2>3, MovesShape DEF AccountsShape
<1> QED
  BY <1>1, <1>2, <1>3, <1>4, <1>5, <1>6 DEF EndsRequest

(* The ways a step can go: a request prepares, locks or ends, or something *)
(* happens that is no request's.                                           *)
Prepares(r) ==
  \/ \E op \in {"login", "deleteOwn"}, u \in Users : Verify(r, op, u)
  \/ \E s \in live : AuthenticatePush(r, s)
TakesLock(r) ==
  \/ \E op \in BindingOps, u \in Users : LockBinding(r, op, u)
  \/ \E op \in AdminOps, u \in Users : LockTarget(r, op, u)
Aside == (\E u \in Users : EraseIdentity(u)) \/ (\E s \in live : Logout(s) \/ SessionExpires(s))

LEMMA StepKinds ==
  ASSUME [AcctNext]_acctVars
  PROVE  \/ \E r \in AcctRequests : Prepares(r) \/ TakesLock(r) \/ EndsRequest(r)
         \/ Aside
         \/ UNCHANGED acctVars
BY DEF AcctNext, Prepares, TakesLock, EndsRequest, Aside

\* Preparing and locking change nothing but the request (and a token).
LEMMA PreparesEffect ==
  ASSUME AccountsShape, NEW r \in AcctRequests, Prepares(r)
  PROVE  /\ Unlocked(r)
         /\ UNCHANGED <<tenantStatus, role, password, live, expired, push, issued, confirmed>>
<1>1. Unlocked(r)
  BY VerifyEffect, AuthenticatePushEffect DEF Prepares
<1>2. UNCHANGED <<tenantStatus, role, password, live, expired, push, issued, confirmed>>
  BY DEF Prepares, Verify, AuthenticatePush
<1> QED
  BY <1>1, <1>2

LEMMA TakesLockEffect ==
  ASSUME AccountsShape, NEW r \in AcctRequests, TakesLock(r)
  PROVE  /\ Stirs(r)
         /\ UNCHANGED <<tenantStatus, role, password, live, expired, push, issued, confirmed>>
         /\ \/ areq'[r].pc = "done"
            \/ /\ Locked(r)' /\ areq'[r].user \in Users
               /\ LET u == areq'[r].user
                      op == areq'[r].op
                  IN \/ op \in BindingOps /\ tenantStatus[u] = "active" /\ ~TargetLocked(u)
                     \/ /\ op \in AdminOps /\ ~MembershipLocked /\ ~ShareLocked(u)
                        /\ GuardsLastAdmin(op, u) => AnotherActiveAdmin(u)
                        /\ op = "deleteOwn" => areq'[r].pw = password[u]
<1>1. UNCHANGED <<tenantStatus, role, password, live, expired, push, issued, confirmed>>
  BY DEF TakesLock, LockBinding, LockTarget
<1>2. ASSUME NEW op \in BindingOps, NEW u \in Users, LockBinding(r, op, u)
      PROVE  /\ Stirs(r)
             /\ \/ areq'[r].pc = "done"
                \/ /\ Locked(r)' /\ areq'[r].user = u /\ areq'[r].op = op
                   /\ tenantStatus[u] = "active" /\ ~TargetLocked(u)
  BY <1>2, LockBindingEffect DEF AtRest, Unlocked, Locked
<1>3. ASSUME NEW op \in AdminOps, NEW u \in Users, LockTarget(r, op, u)
      PROVE  /\ Stirs(r)
             /\ \/ areq'[r].pc = "done"
                \/ /\ Locked(r)' /\ areq'[r].user = u /\ areq'[r].op = op
                   /\ ~MembershipLocked /\ ~ShareLocked(u)
                   /\ GuardsLastAdmin(op, u) => AnotherActiveAdmin(u)
                   /\ op = "deleteOwn" => areq'[r].pw = password[u]
  BY <1>3, LockTargetEffect DEF AtRest, Unlocked, Locked
<1>4. CASE \E op \in BindingOps, u \in Users : LockBinding(r, op, u)
  BY <1>1, <1>2, <1>4
<1>5. CASE \E op \in AdminOps, u \in Users : LockTarget(r, op, u)
  BY <1>1, <1>3, <1>5
<1> QED
  BY <1>4, <1>5 DEF TakesLock

LEMMA AsideEffect ==
  ASSUME AccountsShape, Aside
  PROVE  /\ UNCHANGED <<areq, role, password, issued, confirmed>> /\ live' \subseteq live
         /\ tenantStatus' \in [Users -> {"active", "suspended", "deleting", "gone"}]
         /\ push' \in [Endpoints -> {NoEntry} \cup [id : SessionIds, user : Users, late : BOOLEAN]]
         /\ \A u \in Users : (tenantStatus'[u] = "active") <=> (tenantStatus[u] = "active")
         /\ \A e \in Endpoints : push'[e] \in {push[e], NoEntry}
<1>1. ASSUME NEW u \in Users, EraseIdentity(u)
      PROVE  /\ tenantStatus' \in [Users -> {"active", "suspended", "deleting", "gone"}]
             /\ \A v \in Users : (tenantStatus'[v] = "active") <=> (tenantStatus[v] = "active")
             /\ push' = RevokePushOf(u) /\ live' \subseteq live
             /\ UNCHANGED <<areq, role, password, issued, confirmed>>
  BY <1>1 DEF EraseIdentity, AccountsShape
<1>2. ASSUME NEW s \in live, Logout(s) \/ SessionExpires(s)
      PROVE  /\ UNCHANGED <<areq, role, password, issued, confirmed, tenantStatus>> /\ live' \subseteq live
             /\ push' \in [Endpoints -> {NoEntry} \cup [id : SessionIds, user : Users, late : BOOLEAN]]
             /\ \A e \in Endpoints : push'[e] \in {push[e], NoEntry}
  BY <1>2 DEF Logout, SessionExpires, AccountsShape
<1>3. CASE \E u \in Users : EraseIdentity(u)
  BY <1>1, <1>3, RevokedShape DEF RevokePushOf
<1>4. CASE \E s \in live : Logout(s) \/ SessionExpires(s)
  BY <1>2, <1>4 DEF AccountsShape
<1> QED
  BY <1>3, <1>4 DEF Aside

LEMMA ShapeStep ==
  ASSUME AccountsShape, IdsAreUsed, [AcctNext]_acctVars
  PROVE  AccountsShape'
<1>1. ASSUME NEW r \in AcctRequests, Prepares(r) \/ TakesLock(r) PROVE AccountsShape'
  BY <1>1, PreparesEffect, TakesLockEffect, MovesShape DEF Unlocked, AccountsShape
<1>2. CASE Aside
  BY <1>2, AsideEffect DEF AccountsShape
<1>3. CASE UNCHANGED acctVars
  BY <1>3 DEF acctVars, AccountsShape
<1> QED
  BY <1>1, <1>2, <1>3, EndsShape, StepKinds

-----------------------------------------------------------------------------
(* The locks, and what is checked under them. *)

\* A step that leaves its request without a lock takes no lock.
LEMMA LocksStep ==
  ASSUME AccountsShape, LocksExclude, [AcctNext]_acctVars
  PROVE  LocksExclude'
<1>1. ASSUME NEW r \in AcctRequests, Unlocked(r) PROVE LocksExclude'
  <2>1. \A q \in AcctRequests : Locked(q)' => Locked(q) /\ areq'[q] = areq[q]
    BY <1>1 DEF Unlocked, Stirs, Locked
  <2> QED
    BY <2>1 DEF LocksExclude, Locked
<1>2. ASSUME NEW r \in AcctRequests, TakesLock(r) PROVE LocksExclude'
  <2>1. \A q \in AcctRequests \ {r} : areq'[q] = areq[q]
    BY <1>2, TakesLockEffect DEF Stirs
  <2>2. CASE areq'[r].pc = "done"
    <3>1. Unlocked(r)
      BY <1>2, <2>2, TakesLockEffect DEF Unlocked
    <3> QED
      BY <1>1, <3>1
  <2>3. CASE areq'[r].pc # "done"
    <3>1. \/ areq'[r].op \in BindingOps /\ ~TargetLocked(areq'[r].user)
          \/ areq'[r].op \in AdminOps /\ ~MembershipLocked /\ ~ShareLocked(areq'[r].user)
      BY <1>2, <2>3, TakesLockEffect
    <3>2. BindingOps \cap AdminOps = {}
      BY DEF BindingOps, AdminOps
    <3>3. SUFFICES ASSUME NEW a \in AcctRequests, NEW b \in AcctRequests,
                          Locked(a)', Locked(b)', areq'[a].op \in AdminOps
                   PROVE  /\ areq'[b].op \in AdminOps => a = b
                          /\ areq'[b].user = areq'[a].user => areq'[b].op \notin BindingOps
      BY DEF LocksExclude, Locked
    <3>4. CASE a # r /\ b # r
      BY <2>1, <3>3, <3>4 DEF LocksExclude, Locked
    <3>5. CASE a = r /\ b # r
      BY <2>1, <3>1, <3>2, <3>3, <3>5 DEF MembershipLocked, ShareLocked, Locked
    <3>6. CASE a # r /\ b = r
      BY <2>1, <3>1, <3>2, <3>3, <3>6 DEF MembershipLocked, TargetLocked, Locked
    <3>7. CASE a = r /\ b = r
      BY <3>2, <3>3, <3>7
    <3> QED
      BY <3>4, <3>5, <3>6, <3>7
  <2> QED
    BY <2>2, <2>3
<1>3. ASSUME areq' = areq PROVE LocksExclude'
  BY <1>3 DEF LocksExclude, Locked
<1> QED
  BY <1>1, <1>2, <1>3, StepKinds, PreparesEffect, EndsEffect, AsideEffect DEF AtRest, acctVars

(* What the end of a request changes of the accounts: status and role of   *)
(* the target of an admin's request, the password of a reset's user.       *)
LEMMA EndsChanges ==
  ASSUME AccountsShape, NEW r \in AcctRequests, EndsRequest(r)
  PROVE  /\ \/ UNCHANGED <<tenantStatus, role>>
            \/ /\ Locked(r) /\ areq[r].op \in AdminOps
               /\ \A v \in Users \ {areq[r].user} : tenantStatus'[v] = tenantStatus[v] /\ role'[v] = role[v]
               /\ LET u == areq[r].user
                  IN  areq[r].op \in {"reactivate", "promote"} =>
                        /\ tenantStatus[u] = "active" => tenantStatus'[u] = "active"
                        /\ role[u] = "admin" => role'[u] = "admin"
         /\ \/ UNCHANGED password
            \/ /\ Locked(r) /\ areq[r].op = "reset"
               /\ \A v \in Users \ {areq[r].user} : password'[v] = password[v]
<1>1. CASE \/ CreateSession(r) \/ CreatePasswordResetToken(r) \/ RollBack(r)
           \/ \E e \in Endpoints : RegisterPush(r, e)
  BY <1>1 DEF CreateSession, CreatePasswordResetToken, RollBack, RegisterPush
<1>2. CASE ResetPassword(r)
  BY <1>2 DEF ResetPassword, AccountsShape
<1>3. CASE SuspendAccount(r)
  BY <1>3 DEF SuspendAccount, AccountsShape, AdminOps
<1>4. CASE ReactivateAccount(r)
  BY <1>4 DEF ReactivateAccount, AccountsShape, AdminOps
<1>5. CASE ChangeAccountRole(r)
  BY <1>5 DEF ChangeAccountRole, AccountsShape, AdminOps
<1>6. CASE BeginTenantDeletion(r)
  BY <1>6 DEF BeginTenantDeletion, AccountsShape, AdminOps
<1> QED
  BY <1>1, <1>2, <1>3, <1>4, <1>5, <1>6 DEF EndsRequest

LEMMA CheckedStep ==
  ASSUME AccountsShape, LocksExclude, CheckedStillHolds, [AcctNext]_acctVars
  PROVE  CheckedStillHolds'
<1> USE DEF Locked
<1>1. ASSUME NEW r \in AcctRequests, EndsRequest(r) PROVE CheckedStillHolds'
  <2>0. /\ areq'[r].pc # "locked"
        /\ \A q \in AcctRequests \ {r} : areq'[q] = areq[q]
    BY <1>1, EndsEffect DEF AtRest, Unlocked, Stirs
  <2>1. SUFFICES ASSUME NEW q \in AcctRequests, q # r, Locked(q)
                 PROVE  /\ areq[q].op \in BindingOps => tenantStatus'[areq[q].user] = "active"
                        /\ areq[q].op \in AdminOps /\ GuardsLastAdmin(areq[q].op, areq[q].user)'
                             => AnotherActiveAdmin(areq[q].user)'
                        /\ areq[q].op = "deleteOwn" => areq[q].pw = password'[areq[q].user]
    BY <2>0 DEF CheckedStillHolds, GuardsLastAdmin, AnotherActiveAdmin
  <2>2. areq[q].user \in Users
    BY <2>1 DEF AccountsShape
  <2>3. /\ areq[q].op \in BindingOps => tenantStatus[areq[q].user] = "active"
        /\ areq[q].op \in AdminOps /\ GuardsLastAdmin(areq[q].op, areq[q].user)
             => AnotherActiveAdmin(areq[q].user)
        /\ areq[q].op = "deleteOwn" => areq[q].pw = password[areq[q].user]
    BY <2>1 DEF CheckedStillHolds
  <2>4. areq[q].op \in BindingOps => tenantStatus'[areq[q].user] = "active"
    BY <1>1, <2>1, <2>2, <2>3, EndsChanges DEF LocksExclude
  <2>5. areq[q].op \in AdminOps /\ GuardsLastAdmin(areq[q].op, areq[q].user)'
          => AnotherActiveAdmin(areq[q].user)'
    <3>1. areq[q].op \in AdminOps => UNCHANGED <<tenantStatus, role>>
      BY <1>1, <2>1, EndsChanges DEF LocksExclude
    <3> QED
      BY <2>0, <2>1, <2>3, <3>1 DEF GuardsLastAdmin, AnotherActiveAdmin
  <2>6. areq[q].op = "deleteOwn" => areq[q].pw = password'[areq[q].user]
    BY <1>1, <2>1, <2>2, <2>3, EndsChanges DEF LocksExclude, AdminOps, BindingOps
  <2> QED
    BY <2>4, <2>5, <2>6
<1>2. ASSUME NEW r \in AcctRequests, Prepares(r) \/ TakesLock(r) PROVE CheckedStillHolds'
  <2>1. /\ UNCHANGED <<tenantStatus, role, password>>
        /\ \A q \in AcctRequests \ {r} : areq'[q] = areq[q]
    BY <1>2, PreparesEffect, TakesLockEffect DEF Unlocked, Stirs
  <2>2. ASSUME areq'[r].pc = "locked"
        PROVE  LET u == areq'[r].user
                   op == areq'[r].op
               IN /\ op \in BindingOps => tenantStatus[u] = "active"
                  /\ op \in AdminOps /\ GuardsLastAdmin(op, u) => AnotherActiveAdmin(u)
                  /\ op = "deleteOwn" => areq'[r].pw = password[u]
    <3>1. TakesLock(r)
      BY <1>2, <2>2, PreparesEffect DEF Unlocked
    <3> QED
      BY <2>2, <3>1, TakesLockEffect DEF BindingOps, AdminOps
  <2> QED
    BY <2>1, <2>2 DEF CheckedStillHolds, GuardsLastAdmin, AnotherActiveAdmin
<1>3. CASE Aside
  <2>1. UNCHANGED <<areq, role, password>>
    BY <1>3, AsideEffect
  <2>2. \A u \in Users : (tenantStatus'[u] = "active") <=> (tenantStatus[u] = "active")
    BY <1>3, AsideEffect
  <2>3. \A r \in AcctRequests : Locked(r) => areq[r].user \in Users
    BY DEF AccountsShape
  <2>4. \A op \in AdminOps, u \in Users :
          /\ GuardsLastAdmin(op, u)' => GuardsLastAdmin(op, u)
          /\ AnotherActiveAdmin(u) => AnotherActiveAdmin(u)'
    BY <2>1, <2>2 DEF GuardsLastAdmin, AnotherActiveAdmin
  <2> QED
    BY <2>1, <2>2, <2>3, <2>4 DEF CheckedStillHolds
<1>4. CASE UNCHANGED acctVars
  BY <1>4 DEF acctVars, CheckedStillHolds, GuardsLastAdmin, AnotherActiveAdmin
<1> QED
  BY <1>1, <1>2, <1>3, <1>4, StepKinds

LEMMA AdminStep ==
  ASSUME AccountsShape, CheckedStillHolds, AnActiveAdminRemains, [AcctNext]_acctVars
  PROVE  AnActiveAdminRemains'
<1>1. ASSUME UNCHANGED <<tenantStatus, role>> PROVE AnActiveAdminRemains'
  BY <1>1 DEF AnActiveAdminRemains
<1>2. ASSUME NEW r \in AcctRequests, EndsRequest(r) PROVE AnActiveAdminRemains'
  <2>1. CASE UNCHANGED <<tenantStatus, role>>
    BY <1>1, <2>1
  <2>2. CASE ~UNCHANGED <<tenantStatus, role>>
    <3> DEFINE u == areq[r].user
    <3>1. /\ Locked(r) /\ areq[r].op \in AdminOps
          /\ \A v \in Users \ {u} : tenantStatus'[v] = tenantStatus[v] /\ role'[v] = role[v]
          /\ areq[r].op \in {"reactivate", "promote"} =>
                        /\ tenantStatus[u] = "active" => tenantStatus'[u] = "active"
                        /\ role[u] = "admin" => role'[u] = "admin"
      BY <1>2, <2>2, EndsChanges
    <3>2. GuardsLastAdmin(areq[r].op, u) => AnotherActiveAdmin(u)
      BY <3>1 DEF CheckedStillHolds
    <3> QED
      BY <3>1, <3>2 DEF AnActiveAdminRemains, GuardsLastAdmin, AnotherActiveAdmin
  <2> QED
    BY <2>1, <2>2
<1>3. CASE Aside
  BY <1>3, AsideEffect DEF AnActiveAdminRemains
<1> QED
  BY <1>1, <1>2, <1>3, StepKinds, PreparesEffect, TakesLockEffect DEF acctVars

-----------------------------------------------------------------------------
(* Ids of sessions: which are in use, and whose they are. *)

\* What a step does to the sessions: all but one are old, and the new one is
\* of a login whose user is active.
LEMMA LiveEffect ==
  ASSUME AccountsShape, [AcctNext]_acctVars
  PROVE  \A s \in live' : \/ s \in live
                          \/ \E r \in AcctRequests : CreateSession(r) /\ s.id = r /\ s.user = areq[r].user
<1>1. ASSUME NEW r \in AcctRequests, EndsRequest(r), ~CreateSession(r) PROVE live' \subseteq live
  BY <1>1 DEF EndsRequest, CreatePasswordResetToken, ResetPassword, SuspendAccount,
    ReactivateAccount, ChangeAccountRole, BeginTenantDeletion, RollBack, RegisterPush
<1>2. ASSUME NEW r \in AcctRequests, CreateSession(r)
      PROVE  \A s \in live' : s \in live \/ (s.id = r /\ s.user = areq[r].user)
  BY <1>2 DEF CreateSession
<1> QED
  BY <1>1, <1>2, StepKinds, PreparesEffect, TakesLockEffect, AsideEffect DEF acctVars

\* What a step does to the registrations: all but one are old, and the new one
\* is of a request that was authenticated before.
LEMMA PushEffect ==
  ASSUME AccountsShape, [AcctNext]_acctVars
  PROVE  \A e \in Endpoints : push'[e] # NoEntry =>
           \/ push'[e] = push[e]
           \/ \E r \in AcctRequests :
                /\ areq[r].pc = "push" /\ UNCHANGED live
                /\ push'[e].id = areq[r].seen /\ push'[e].user = areq[r].user
                /\ push'[e].late \/ \E s \in live : s.id = areq[r].seen
<1>1. ASSUME NEW r \in AcctRequests, EndsRequest(r), ~\E e \in Endpoints : RegisterPush(r, e)
      PROVE  \A e \in Endpoints : push'[e] # NoEntry => push'[e] = push[e]
  BY <1>1 DEF EndsRequest, CreateSession, CreatePasswordResetToken, ResetPassword, SuspendAccount,
    ReactivateAccount, ChangeAccountRole, BeginTenantDeletion, RollBack, RevokePushOf
<1>2. ASSUME NEW r \in AcctRequests, NEW d \in Endpoints, RegisterPush(r, d)
      PROVE  /\ areq[r].pc = "push" /\ UNCHANGED live
             /\ \A e \in Endpoints :
                  \/ push'[e] = push[e]
                  \/ /\ push'[e].id = areq[r].seen /\ push'[e].user = areq[r].user
                     /\ push'[e].late \/ \E s \in live : s.id = areq[r].seen
  BY <1>2 DEF RegisterPush, AccountsShape
<1> QED
  BY <1>1, <1>2, StepKinds, PreparesEffect, TakesLockEffect, AsideEffect DEF acctVars

\* What a step does to the requests between authentication and registration.
LEMMA PushingEffect ==
  ASSUME AccountsShape, [AcctNext]_acctVars
  PROVE  /\ \A q \in AcctRequests : areq[q].pc = "done" => areq'[q].pc = "done"
         /\ \A q \in AcctRequests : areq'[q].pc = "push" =>
              \/ areq[q].pc = "push" /\ areq'[q] = areq[q]
              \/ \E s \in live : areq'[q].user = s.user /\ areq'[q].seen = s.id /\ UNCHANGED live
<1>1. ASSUME NEW r \in AcctRequests, Prepares(r)
      PROVE  /\ Stirs(r)
             /\ areq'[r].pc = "push" =>
                  \E s \in live : areq'[r].user = s.user /\ areq'[r].seen = s.id /\ UNCHANGED live
  BY <1>1, PreparesEffect, VerifyEffect, AuthenticatePushEffect DEF Prepares, Unlocked
<1>2. ASSUME NEW r \in AcctRequests, TakesLock(r) \/ EndsRequest(r)
      PROVE  Stirs(r) /\ areq'[r].pc # "push"
  BY <1>2, TakesLockEffect, EndsEffect DEF AtRest, Unlocked, Locked
<1> QED
  BY <1>1, <1>2, StepKinds, AsideEffect DEF Stirs, acctVars

LEMMA UsedStep ==
  ASSUME AccountsShape, IdsAreUsed, [AcctNext]_acctVars
  PROVE  IdsAreUsed'
<1> DEFINE Stays(i) == i \in Users \/ (i \in AcctRequests /\ areq'[i].pc = "done")
<1>1. ASSUME NEW i, Used(i) PROVE Stays(i)
  BY <1>1, PushingEffect DEF Used
<1> HIDE DEF Stays
<1>2. ASSUME NEW s \in live' PROVE Stays(s.id)
  <2>1. CASE s \in live
    BY <1>1, <2>1 DEF IdsAreUsed
  <2>2. ASSUME NEW r \in AcctRequests, CreateSession(r), s.id = r PROVE Stays(s.id)
    <3>1. areq'[r].pc = "done"
      BY <2>2, EndsEffect DEF EndsRequest, AtRest
    <3> QED
      BY <2>2, <3>1 DEF Stays
  <2> QED
    BY <2>1, <2>2, LiveEffect
<1>3. ASSUME NEW e \in Endpoints, push'[e] # NoEntry PROVE Stays(push'[e].id)
  <2>1. CASE push'[e] = push[e]
    BY <1>1, <1>3, <2>1 DEF IdsAreUsed
  <2>2. ASSUME NEW r \in AcctRequests, areq[r].pc = "push", push'[e].id = areq[r].seen
        PROVE  Stays(push'[e].id)
    BY <1>1, <2>2 DEF IdsAreUsed
  <2> QED
    BY <1>3, <2>1, <2>2, PushEffect
<1>4. ASSUME NEW q \in AcctRequests, areq'[q].pc = "push" PROVE Stays(areq'[q].seen)
  BY <1>1, <1>4, PushingEffect DEF IdsAreUsed
<1> QED
  BY <1>2, <1>3, <1>4 DEF IdsAreUsed, Used, Stays

\* Ids keep their user: where a session is new, its id is not in use.
LEMMA OneUserStep ==
  ASSUME AccountsShape, IdsAreUsed, IdsHaveOneUser, [AcctNext]_acctVars
  PROVE  IdsHaveOneUser'
<1>0. ASSUME NEW r \in AcctRequests, CreateSession(r) PROVE ~Used(r)
  BY <1>0 DEF CreateSession, Locked, Used
<1>1. ASSUME NEW r \in AcctRequests, CreateSession(r) PROVE push' = push
  BY <1>1 DEF CreateSession
<1>2. ASSUME NEW s \in live', NEW t \in live', t.id = s.id PROVE t.user = s.user
  <2>1. CASE s \in live /\ t \in live
    BY <1>2, <2>1 DEF IdsHaveOneUser
  <2>2. CASE ~(s \in live /\ t \in live)
    <3>1. PICK r \in AcctRequests : CreateSession(r) /\ s.id = r
      BY <1>2, <2>2, LiveEffect
    <3>2. \A x \in live' : x.id = r => x \notin live
      BY <1>0, <3>1 DEF IdsAreUsed
    <3> QED
      BY <1>2, <3>1, <3>2, LiveEffect
  <2> QED
    BY <2>1, <2>2
<1>3. ASSUME NEW s \in live', NEW e \in Endpoints, push'[e] # NoEntry, push'[e].id = s.id
      PROVE  push'[e].user = s.user
  <2>1. CASE s \in live
    BY <1>3, <2>1, PushEffect DEF IdsHaveOneUser
  <2>2. CASE s \notin live
    <3>1. PICK r \in AcctRequests : CreateSession(r) /\ s.id = r
      BY <1>3, <2>2, LiveEffect
    <3> QED
      BY <1>0, <1>1, <1>3, <3>1 DEF IdsAreUsed
  <2> QED
    BY <2>1, <2>2
<1>4. ASSUME NEW s \in live', NEW q \in AcctRequests, areq'[q].pc = "push", areq'[q].seen = s.id
      PROVE  areq'[q].user = s.user
  <2>1. CASE s \in live
    BY <1>4, <2>1, PushingEffect DEF IdsHaveOneUser
  <2>2. CASE s \notin live
    <3>1. PICK r \in AcctRequests : CreateSession(r) /\ s.id = r
      BY <1>4, <2>2, LiveEffect
    <3>2. areq[q].pc = "push" /\ areq'[q] = areq[q]
      BY <1>4, <2>2, PushingEffect
    <3> QED
      BY <1>0, <1>4, <3>1, <3>2 DEF IdsAreUsed
  <2> QED
    BY <2>1, <2>2
<1> QED
  BY <1>2, <1>3, <1>4 DEF IdsHaveOneUser

-----------------------------------------------------------------------------
(* Sessions, registrations, and the invariant. *)

(* Where a request ends and revokes, which sessions and registrations stay. *)
Revokes(u) == live' = live \ SessionsOf(u) /\ push' = RevokePushOf(u)

LEMMA SuspensionStep ==
  ASSUME AccountsShape, CheckedStillHolds, NoSessionOutlivesSuspension, [AcctNext]_acctVars
  PROVE  NoSessionOutlivesSuspension'
<1>0. \A s \in live : s.user \in Users
  BY DEF AccountsShape
<1>1. ASSUME live' \subseteq live, \A s \in live' : tenantStatus[s.user] = "active" => tenantStatus'[s.user] = "active"
      PROVE  NoSessionOutlivesSuspension'
  BY <1>1 DEF NoSessionOutlivesSuspension
<1>2. ASSUME NEW r \in AcctRequests, EndsRequest(r) PROVE NoSessionOutlivesSuspension'
  <2>1. CASE CreateSession(r)
    <3>1. tenantStatus[areq[r].user] = "active" /\ UNCHANGED tenantStatus
      BY <2>1 DEF CreateSession, CheckedStillHolds, BindingOps
    <3>2. \A s \in live' : s \in live \/ s.user = areq[r].user
      BY <2>1 DEF CreateSession
    <3> QED
      BY <3>1, <3>2 DEF NoSessionOutlivesSuspension
  <2>2. CASE \/ CreatePasswordResetToken(r) \/ ResetPassword(r) \/ ChangeAccountRole(r)
             \/ RollBack(r) \/ \E e \in Endpoints : RegisterPush(r, e)
    <3>1. live' \subseteq live /\ UNCHANGED tenantStatus
      BY <2>2 DEF CreatePasswordResetToken, ResetPassword, ChangeAccountRole, RollBack, RegisterPush
    <3> QED
      BY <1>1, <3>1
  <2>3. CASE SuspendAccount(r) \/ BeginTenantDeletion(r)
    <3>1. \/ UNCHANGED <<tenantStatus, live>>
          \/ /\ live' = live \ SessionsOf(areq[r].user)
             /\ \A u \in Users \ {areq[r].user} : tenantStatus'[u] = tenantStatus[u]
      BY <2>3 DEF SuspendAccount, BeginTenantDeletion, AccountsShape
    <3> QED
      BY <1>0, <1>1, <3>1 DEF SessionsOf
  <2>4. CASE ReactivateAccount(r)
    <3>1. live' = live /\ \A u \in Users : tenantStatus[u] = "active" => tenantStatus'[u] = "active"
      BY <2>4 DEF ReactivateAccount, AccountsShape
    <3> QED
      BY <1>0, <1>1, <3>1
  <2> QED
    BY <1>2, <2>1, <2>2, <2>3, <2>4 DEF EndsRequest
<1>3. CASE Aside
  BY <1>0, <1>1, <1>3, AsideEffect
<1> QED
  BY <1>1, <1>2, <1>3, StepKinds, PreparesEffect, TakesLockEffect DEF acctVars

LEMMA ResetStep ==
  ASSUME AccountsShape, ResetEndsSessions, [AcctNext]_acctVars
  PROVE  ResetEndsSessions'
<1>0. \A s \in live : s.user \in Users
  BY DEF AccountsShape
<1>1. ASSUME live' \subseteq live, \A s \in live' : password'[s.user] = password[s.user]
      PROVE  ResetEndsSessions'
  BY <1>1 DEF ResetEndsSessions
<1>2. ASSUME NEW r \in AcctRequests, EndsRequest(r) PROVE ResetEndsSessions'
  <2>1. CASE CreateSession(r)
    <3> DEFINE n == [id |-> r, user |-> areq[r].user, pw |-> areq[r].pw,
                     overtaken |-> areq[r].pw # password[areq[r].user]]
    <3>1. live' = live \cup {n} /\ password' = password
      BY <2>1 DEF CreateSession
    <3>2. n.pw = password[n.user] \/ n.overtaken
      OBVIOUS
    <3> HIDE DEF n
    <3> QED
      BY <3>1, <3>2 DEF ResetEndsSessions
  <2>2. CASE ResetPassword(r)
    <3>1. /\ live' = live \ SessionsOf(areq[r].user)
          /\ \A u \in Users \ {areq[r].user} : password'[u] = password[u]
      BY <2>2 DEF ResetPassword, AccountsShape
    <3> QED
      BY <1>0, <1>1, <3>1 DEF SessionsOf
  <2>3. CASE ~CreateSession(r) /\ ~ResetPassword(r)
    <3>1. live' \subseteq live /\ UNCHANGED password
      BY <1>2, <2>3 DEF EndsRequest, CreatePasswordResetToken, SuspendAccount, ReactivateAccount,
        ChangeAccountRole, BeginTenantDeletion, RollBack, RegisterPush
    <3> QED
      BY <1>1, <3>1
  <2> QED
    BY <2>1, <2>2, <2>3
<1> QED
  BY <1>1, <1>2, StepKinds, PreparesEffect, TakesLockEffect, AsideEffect DEF acctVars

LEMMA ConfirmedStep ==
  ASSUME AccountsShape, CheckedStillHolds, DeletionIsConfirmed, [AcctNext]_acctVars
  PROVE  DeletionIsConfirmed'
<1>1. ASSUME NEW r \in AcctRequests, EndsRequest(r) PROVE DeletionIsConfirmed'
  <2>1. CASE BeginTenantDeletion(r)
    <3>1. areq[r].op = "deleteOwn" => areq[r].pw = password[areq[r].user]
      BY <2>1 DEF BeginTenantDeletion, CheckedStillHolds
    <3>2. confirmed' = confirmed \/ confirmed' = (confirmed /\ (areq[r].op = "deleteOwn" => areq[r].pw = password[areq[r].user]))
      BY <2>1 DEF BeginTenantDeletion
    <3> QED
      BY <3>1, <3>2 DEF DeletionIsConfirmed
  <2>2. CASE ~BeginTenantDeletion(r)
    <3>1. confirmed' = confirmed
      BY <1>1, <2>2 DEF EndsRequest, CreateSession, CreatePasswordResetToken, ResetPassword, SuspendAccount,
        ReactivateAccount, ChangeAccountRole, RollBack, RegisterPush
    <3> QED
      BY <3>1 DEF DeletionIsConfirmed
  <2> QED
    BY <2>1, <2>2
<1> QED
  BY <1>1, StepKinds, PreparesEffect, TakesLockEffect, AsideEffect DEF DeletionIsConfirmed, acctVars

\* A registration is backed by its session, is late, or outlasts expiry.
Backed(p) == p.late \/ p.id \in expired \/ \E s \in live : s.id = p.id

LEMMA PushStep ==
  ASSUME AccountsShape, IdsHaveOneUser, PushEndsWithRevocation, [AcctNext]_acctVars
  PROVE  PushEndsWithRevocation'
<1> DEFINE BackedNext(p) == p.late \/ p.id \in expired' \/ \E s \in live' : s.id = p.id
<1>0. /\ \A e \in Endpoints : push[e] # NoEntry => Backed(push[e])
      /\ (\A e \in Endpoints : push'[e] # NoEntry => BackedNext(push'[e])) => PushEndsWithRevocation'
  BY DEF PushEndsWithRevocation, Backed
<1>1. ASSUME live \subseteq live', expired \subseteq expired' PROVE PushEndsWithRevocation'
  <2>1. ASSUME NEW e \in Endpoints, push'[e] # NoEntry PROVE BackedNext(push'[e])
    BY <1>0, <1>1, <2>1, PushEffect DEF Backed
  <2> QED
    BY <1>0, <2>1
<1>2. ASSUME NEW u \in Users, Revokes(u), expired' = expired PROVE PushEndsWithRevocation'
  <2>1. ASSUME NEW e \in Endpoints, push'[e] # NoEntry PROVE BackedNext(push'[e])
    <3>1. push'[e] = push[e] /\ push[e].user # u
      BY <1>2, <2>1 DEF Revokes, RevokePushOf
    <3>2. Backed(push[e]) /\ push[e] # NoEntry
      BY <1>0, <2>1, <3>1
    <3>3. ASSUME NEW s \in live, s.id = push[e].id PROVE s \in live'
      BY <1>2, <3>1, <3>2, <3>3 DEF Revokes, SessionsOf, IdsHaveOneUser
    <3> QED
      BY <1>2, <3>1, <3>2, <3>3 DEF Backed
  <2> QED
    BY <1>0, <2>1
<1>3. ASSUME NEW s \in live, Logout(s) PROVE PushEndsWithRevocation'
  <2>1. ASSUME NEW e \in Endpoints, push'[e] # NoEntry PROVE BackedNext(push'[e])
    BY <1>0, <1>3, <2>1 DEF Logout, Backed
  <2> QED
    BY <1>0, <2>1
<1>4. ASSUME NEW s \in live, SessionExpires(s) PROVE PushEndsWithRevocation'
  <2>1. ASSUME NEW e \in Endpoints, push'[e] # NoEntry PROVE BackedNext(push'[e])
    BY <1>0, <1>4, <2>1 DEF SessionExpires, Backed
  <2> QED
    BY <1>0, <2>1
<1>5. ASSUME NEW r \in AcctRequests, EndsRequest(r) PROVE PushEndsWithRevocation'
  <2>1. CASE ResetPassword(r) \/ SuspendAccount(r) \/ BeginTenantDeletion(r)
    <3>1. /\ areq[r].user \in Users /\ expired' = expired
          /\ Revokes(areq[r].user) \/ live' = live
      BY <2>1 DEF ResetPassword, SuspendAccount, BeginTenantDeletion, Revokes, Locked, AccountsShape
    <3> QED
      BY <1>1, <1>2, <3>1
  <2>2. CASE ~ResetPassword(r) /\ ~SuspendAccount(r) /\ ~BeginTenantDeletion(r)
    <3>1. live \subseteq live' /\ expired' = expired
      BY <1>5, <2>2 DEF EndsRequest, CreateSession, CreatePasswordResetToken, ReactivateAccount,
        ChangeAccountRole, RollBack, RegisterPush
    <3> QED
      BY <1>1, <3>1
  <2> QED
    BY <2>1, <2>2
<1>6. ASSUME NEW u \in Users, EraseIdentity(u) PROVE PushEndsWithRevocation'
  BY <1>2, <1>6 DEF EraseIdentity, Revokes
<1> QED
  BY <1>1, <1>3, <1>4, <1>5, <1>6, StepKinds, PreparesEffect, TakesLockEffect DEF Aside, acctVars

LEMMA AcctInitially == AcctInit => AcctInv
<1> SUFFICES ASSUME AcctInit PROVE AcctInv
  OBVIOUS
<1>0. /\ areq = [r \in AcctRequests |-> IdleRequest] /\ push = [e \in Endpoints |-> NoEntry]
      /\ live = {[id |-> u, user |-> u, pw |-> 0, overtaken |-> FALSE] : u \in Users}
      /\ tenantStatus = [u \in Users |-> "active"] /\ password = [u \in Users |-> 0]
      /\ role \in [Users -> {"admin", "member"}] /\ (\E u \in Users : role[u] = "admin") /\ confirmed
      /\ tokens \in [Users -> 0 .. 1] /\ issued \in [Users -> 0 .. 1]
  BY DEF AcctInit
<1>1. \A s \in live : /\ s \in [id : SessionIds, user : Users, pw : 0 .. MaxPassword, overtaken : BOOLEAN]
                      /\ s.id = s.user /\ s.user \in Users /\ s.pw = 0
  <2>1. TAKE s \in live
  <2>2. PICK u \in Users : s = [id |-> u, user |-> u, pw |-> 0, overtaken |-> FALSE]
    BY <1>0
  <2>3. u \in SessionIds /\ 0 \in 0 .. MaxPassword
    BY DEF SessionIds
  <2> QED
    BY <2>2, <2>3
<1>2. IdleRequest \in Requests /\ IdleRequest.pc = "idle"
  BY DEF IdleRequest, Requests, Pcs
<1>a. \A r \in AcctRequests : areq[r] \in Requests /\ areq[r].pc = "idle"
  BY <1>0, <1>2
<1>b. \A e \in Endpoints : push[e] = NoEntry
  BY <1>0
<1>3. AccountsShape
  BY <1>0, <1>1, <1>a DEF AccountsShape
<1>4. LocksExclude /\ CheckedStillHolds
  BY <1>a DEF LocksExclude, CheckedStillHolds, Locked
<1>5. IdsAreUsed /\ IdsHaveOneUser /\ PushEndsWithRevocation
  BY <1>a, <1>b, <1>1 DEF IdsAreUsed, IdsHaveOneUser, PushEndsWithRevocation, Used
<1>6. AnActiveAdminRemains /\ NoSessionOutlivesSuspension /\ ResetEndsSessions /\ DeletionIsConfirmed
  BY <1>0, <1>1 DEF AnActiveAdminRemains, NoSessionOutlivesSuspension, ResetEndsSessions, DeletionIsConfirmed
<1> QED
  BY <1>3, <1>4, <1>5, <1>6 DEF AcctInv

LEMMA AccountsKept == AcctInv /\ [AcctNext]_acctVars => AcctInv'
BY ShapeStep, LocksStep, CheckedStep, UsedStep, OneUserStep, AdminStep, SuspensionStep,
  ResetStep, ConfirmedStep, PushStep DEF AcctInv

\* Requests to log in, to reset a password, to register a device and to
\* suspend, promote, demote or delete accounts keep the account invariant.
THEOREM AccountsInvariance == AcctSpec => []AcctInv
<1> QED
  BY AcctInitially, AccountsKept, PTL DEF AcctSpec

\* However suspendAccount, changeAccountRole and the two account deletions
\* interleave, assertAnotherActiveAdminRemains keeps an active administrator.
THEOREM AdminRemains == AcctSpec => []AnActiveAdminRemains
<1>1. AcctInv => AnActiveAdminRemains
  BY DEF AcctInv
<1> QED
  BY <1>1, AccountsInvariance, PTL

\* lockUserTenantBinding makes login and suspension exclude each other, so
\* that a suspended or deleted tenant has no session.
THEOREM SuspensionEndsSessions == AcctSpec => []NoSessionOutlivesSuspension
<1>1. AcctInv => NoSessionOutlivesSuspension
  BY DEF AcctInv
<1> QED
  BY <1>1, AccountsInvariance, PTL

\* A password reset leaves no session of an earlier password but that of a
\* login which had verified it before.
THEOREM ResetsEndSessions == AcctSpec => []ResetEndsSessions
<1>1. AcctInv => ResetEndsSessions
  BY DEF AcctInv
<1> QED
  BY <1>1, AccountsInvariance, PTL

\* deleteOwnAccount deletes only on the password of that moment, though it
\* verified the password before it took its locks.
THEOREM DeletionsAreConfirmed == AcctSpec => []DeletionIsConfirmed
<1>1. AcctInv => DeletionIsConfirmed
  BY DEF AcctInv
<1> QED
  BY <1>1, AccountsInvariance, PTL

\* A revocation ends the push registrations of the sessions it ends; those
\* that remain were upserted after it or are of expired sessions.
THEOREM RegistrationsEnd == AcctSpec => []PushEndsWithRevocation
<1>1. AcctInv => PushEndsWithRevocation
  BY DEF AcctInv
<1> QED
  BY <1>1, AccountsInvariance, PTL

-----------------------------------------------------------------------------
(* The map of the limiter. *)

MapInv == IsFiniteSet(DOMAIN windows) /\ KeysAreBounded

LEMMA RoomIsMade ==
  ASSUME NEW kept, IsFiniteSet(kept), Cardinality(kept) <= MaxKeys, NEW gone \in SUBSET kept, MakesRoom(kept, gone)
  PROVE  Cardinality(kept \ gone) < MaxKeys
<1>1. /\ Cardinality(kept) \in Nat /\ MaxKeys \in Nat
      /\ IsFiniteSet(kept \ Expired(kept)) /\ Cardinality(kept \ Expired(kept)) \in Nat
      /\ Cardinality(kept \ Expired(kept)) <= Cardinality(kept)
  BY ThrottleAssumption, FS_Subset, FS_CardinalityType
<1>2. CASE Cardinality(kept) < MaxKeys
  <2>1. gone = {} /\ kept \ gone = kept
    BY <1>2 DEF MakesRoom
  <2> QED
    BY <1>2, <2>1
<1>3. CASE ~(Cardinality(kept) < MaxKeys) /\ Cardinality(kept \ Expired(kept)) < MaxKeys
  BY <1>3 DEF MakesRoom
<1>4. CASE ~(Cardinality(kept) < MaxKeys) /\ ~(Cardinality(kept \ Expired(kept)) < MaxKeys)
  <2>1. PICK s \in kept \ Expired(kept) : gone = Expired(kept) \cup {s}
    BY <1>4 DEF MakesRoom
  <2>2. kept \ gone = (kept \ Expired(kept)) \ {s}
    BY <2>1
  <2>3. Cardinality((kept \ Expired(kept)) \ {s}) = Cardinality(kept \ Expired(kept)) - 1
    BY <1>1, FS_RemoveElement
  <2> QED
    BY <1>1, <2>2, <2>3
<1> QED
  BY <1>2, <1>3, <1>4

LEMMA AcquireKeepsMap ==
  ASSUME MapInv, NEW r \in AuthRequests, NEW s \in Slots, TryAcquire(r, s)
  PROVE  MapInv'
<1> DEFINE recent == Pruned(s)
           kept == IF recent = <<>> THEN DOMAIN windows \ {s} ELSE DOMAIN windows
<1>0. /\ IsFiniteSet(DOMAIN windows) /\ keyCount = Cardinality(DOMAIN windows)
      /\ Cardinality(DOMAIN windows) \in Nat /\ Cardinality(DOMAIN windows) <= MaxKeys /\ MaxKeys \in Nat
  BY ThrottleAssumption, FS_CardinalityType DEF MapInv, KeysAreBounded
<1>1. CASE Len(recent) >= MaxEvents
  <2>1. windows' = [windows EXCEPT ![s].at = recent] /\ UNCHANGED keyCount
    BY <1>1 DEF TryAcquire
  <2>2. DOMAIN windows' = DOMAIN windows
    BY <2>1
  <2> QED
    BY <2>1, <2>2 DEF MapInv, KeysAreBounded
<1>2. CASE ~(Len(recent) >= MaxEvents)
  <2>1. PICK gone \in SUBSET kept :
          /\ IF recent = <<>> THEN MakesRoom(kept, gone) ELSE gone = {}
          /\ DOMAIN windows' = DOMAIN Without(gone \cup (IF recent = <<>> THEN {s} ELSE {})) \cup {s}
          /\ keyCount' = Cardinality(DOMAIN Without(gone \cup (IF recent = <<>> THEN {s} ELSE {})) \cup {s})
    BY <1>2 DEF TryAcquire
  <2>2. CASE recent = <<>>
    <3>1. DOMAIN Without(gone \cup {s}) = kept \ gone /\ s \notin kept \ gone
      BY <2>1, <2>2 DEF Without
    <3>2. IsFiniteSet(kept) /\ Cardinality(kept) <= MaxKeys /\ kept \ gone \in SUBSET kept
      <4>1. IsFiniteSet(kept) /\ Cardinality(kept) <= Cardinality(DOMAIN windows) /\ Cardinality(kept) \in Nat
        BY <1>0, <2>2, FS_Subset, FS_CardinalityType
      <4> QED
        BY <1>0, <4>1
    <3> HIDE DEF recent, kept
    <3>3. Cardinality(kept \ gone) < MaxKeys /\ IsFiniteSet(kept \ gone) /\ Cardinality(kept \ gone) \in Nat
      BY <2>1, <2>2, <3>2, RoomIsMade, FS_Subset, FS_CardinalityType
    <3>4. /\ IsFiniteSet((kept \ gone) \cup {s})
          /\ Cardinality((kept \ gone) \cup {s}) = Cardinality(kept \ gone) + 1
      BY <3>1, <3>3, FS_AddElement
    <3>5. DOMAIN windows' = (kept \ gone) \cup {s} /\ keyCount' = Cardinality((kept \ gone) \cup {s})
      BY <2>1, <2>2, <3>1
    <3> QED
      BY <1>0, <3>3, <3>4, <3>5 DEF MapInv, KeysAreBounded
  <2>3. CASE recent # <<>>
    <3>1. s \in DOMAIN windows
      BY <2>3 DEF Pruned
    <3>2. DOMAIN Without({}) = DOMAIN windows
      BY DEF Without
    <3>3. DOMAIN windows' = DOMAIN windows /\ keyCount' = Cardinality(DOMAIN windows)
      BY <2>1, <2>3, <3>1, <3>2
    <3> QED
      BY <1>0, <3>3 DEF MapInv, KeysAreBounded
  <2> QED
    BY <2>2, <2>3
<1> QED
  BY <1>1, <1>2

LEMMA ReleaseKeepsMap ==
  ASSUME MapInv, NEW r \in AuthRequests, Release(r)
  PROVE  MapInv'
<1> DEFINE s == asked[r].slot
<1>1. \/ s \in DOMAIN windows /\ windows' = Without({s}) /\ keyCount' = keyCount - 1
      \/ DOMAIN windows' = DOMAIN windows /\ keyCount' = keyCount
  BY DEF Release
<1>2. CASE DOMAIN windows' = DOMAIN windows /\ keyCount' = keyCount
  BY <1>2 DEF MapInv, KeysAreBounded
<1>3. CASE s \in DOMAIN windows /\ windows' = Without({s}) /\ keyCount' = keyCount - 1
  <2>1. DOMAIN windows' = DOMAIN windows \ {s}
    BY <1>3 DEF Without
  <2> HIDE DEF s
  <2>2. /\ IsFiniteSet(DOMAIN windows \ {s}) /\ Cardinality(DOMAIN windows) \in Nat /\ MaxKeys \in Nat
        /\ Cardinality(DOMAIN windows \ {s}) = Cardinality(DOMAIN windows) - 1
    BY <1>3, ThrottleAssumption, FS_RemoveElement, FS_CardinalityType DEF MapInv
  <2> QED
    BY <1>3, <2>1, <2>2 DEF MapInv, KeysAreBounded
<1> QED
  BY <1>1, <1>2, <1>3

LEMMA MapInitially == ThrottleInit => MapInv
<1>1. DOMAIN <<>> = {} /\ IsFiniteSet({}) /\ Cardinality({}) = 0
  BY FS_EmptySet
<1> QED
  BY <1>1, ThrottleAssumption DEF ThrottleInit, MapInv, KeysAreBounded

LEMMA MapKept == MapInv /\ [ThrottleNext]_throttleVars => MapInv'
<1> SUFFICES ASSUME MapInv, [ThrottleNext]_throttleVars PROVE MapInv'
  OBVIOUS
<1>1. CASE UNCHANGED <<windows, keyCount>>
  BY <1>1 DEF MapInv, KeysAreBounded
<1>2. ASSUME NEW r \in AuthRequests, NEW s \in Slots, TryAcquire(r, s) PROVE MapInv'
  BY <1>2, AcquireKeepsMap
<1>3. ASSUME NEW r \in AuthRequests, Release(r) PROVE MapInv'
  BY <1>3, ReleaseKeepsMap
<1> QED
  BY <1>1, <1>2, <1>3 DEF ThrottleNext, ThrottleTicks, OutcomeCounts, throttleVars

(* createClientIpThrottle: the map of addresses never outgrows its limit,  *)
(* and its count is the keys it holds, however requests begin, expire, are *)
(* evicted and released.                                                   *)
THEOREM MapsAreBounded == ThrottleSpec => []KeysAreBounded
<1>1. MapInv => KeysAreBounded
  BY DEF MapInv
<1> QED
  BY <1>1, MapInitially, MapKept, PTL DEF ThrottleSpec

-----------------------------------------------------------------------------
(* The counts of the limiter. *)

HIDE AccountsAssumption

\* The times of a key's array, and of them those that still count.
Events(s) == IF s \in DOMAIN windows THEN windows[s].at ELSE <<>>
Alive(times) == {i \in 1 .. Len(times) : IsLive(times[i])}
\* What is left of an array when it is pruned.
Unexpired(times) == SubSeq(times, FirstLive(times), Len(times))
When == [r \in AuthRequests |-> asked[r].at]

\* Times come in the order in which they were recorded.
InOrder(times) ==
    /\ times \in Seq(Nat)
    /\ \A i, j \in 1 .. Len(times) : i <= j => times[i] <= times[j]
    /\ \A i \in 1 .. Len(times) : times[i] <= clock

\* f pairs the requests of C with the live events of an array, each at its time.
Pairs(C, when, times, f) ==
    /\ f \in [C -> Alive(times)]
    /\ \A r \in C : times[f[r]] = when[r]
    /\ \A q, r \in C : f[q] = f[r] => q = r
    /\ \A i \in Alive(times) : \E r \in C : f[r] = i

AskedRequests ==
    [step : {"none", "refused", "granted", "counted", "released"},
     slot : Slots \cup {CHOOSE s \in Slots : TRUE}, at : Nat, array : AuthRequests]

LimiterShape ==
    /\ clock \in Nat /\ evicted \subseteq AuthRequests
    /\ asked \in [AuthRequests -> AskedRequests]
    /\ DOMAIN windows \subseteq Slots /\ windows = [s \in DOMAIN windows |-> windows[s]]
    /\ \A s \in DOMAIN windows : windows[s] \in [array : AuthRequests, at : Seq(Nat)]

\* An array was begun by a request that has asked, so a new one is a new array.
ArraysAreOld ==
    /\ \A s \in DOMAIN windows : asked[windows[s].array].step # "none"
    /\ \A r \in AuthRequests : IF asked[r].step = "none" THEN asked[r].array = r
                                ELSE asked[asked[r].array].step # "none"
\* An evicted request has no event in the array that its key has now.
EvictedHaveLeft ==
    \A r \in evicted :
        /\ asked[r].step # "none"
        /\ asked[r].slot \in DOMAIN windows => windows[asked[r].slot].array # asked[r].array
CountingAreIn ==
    \A s \in Slots : \A r \in Counting(s) : s \in DOMAIN windows /\ windows[s].array = asked[r].array

LimiterInv ==
    /\ LimiterShape /\ ArraysAreOld /\ EvictedHaveLeft /\ CountingAreIn
    /\ \A s \in Slots : InOrder(Events(s)) /\ \E f : Pairs(Counting(s), When, Events(s), f)

LEMMA LeastNat ==
  ASSUME NEW T \in SUBSET Nat, T # {}
  PROVE  \E x \in T : \A y \in T : x <= y
<1>1. PICK x \in T : \A y \in T : ~(<<y, x>> \in OpToRel(<, Nat))
  BY NatLessThanWellFounded, WFMin
<1>2. \A y \in T : ~(y < x)
  BY <1>1 DEF OpToRel
<1> QED
  BY <1>2

\* The live events are those from the first live one on.
LEMMA LiveFromFirst ==
  ASSUME clock \in Nat, NEW times, InOrder(times)
  PROVE  /\ FirstLive(times) \in 1 .. Len(times) + 1
         /\ \A i \in 1 .. Len(times) : IsLive(times[i]) <=> FirstLive(times) <= i
<1> DEFINE n == Len(times)
           First(i) == (i <= n => IsLive(times[i])) /\ \A j \in 1 .. i - 1 : ~IsLive(times[j])
<1>1. n \in Nat /\ \A i \in 1 .. n : times[i] \in Nat
  BY DEF InOrder
<1>2. \E i \in 1 .. n + 1 : First(i)
  <2> DEFINE T == {i \in 1 .. n + 1 : i <= n => IsLive(times[i])}
  <2>1. n + 1 \in T /\ T \in SUBSET Nat
    BY <1>1
  <2>2. PICK i \in T : \A j \in T : i <= j
    <3> HIDE DEF T
    <3> QED
      BY <2>1, LeastNat
  <2>3. \A j \in 1 .. i - 1 : ~IsLive(times[j])
    <3> SUFFICES ASSUME NEW j \in 1 .. i - 1, IsLive(times[j]) PROVE FALSE
      OBVIOUS
    <3>1. j \in T /\ j < i
      BY <1>1
    <3> QED
      BY <2>2, <3>1
  <2> QED
    BY <2>2, <2>3
<1>3. FirstLive(times) \in 1 .. n + 1 /\ First(FirstLive(times))
  <2>1. FirstLive(times) = CHOOSE i \in 1 .. n + 1 : First(i)
    BY DEF FirstLive
  <2> HIDE DEF First
  <2> QED
    BY <1>2, <2>1
<1> DEFINE k == FirstLive(times)
<1>4. ASSUME NEW i \in 1 .. n PROVE IsLive(times[i]) <=> k <= i
  <2>1. CASE k <= i
    <3>1. IsLive(times[k]) /\ times[k] <= times[i] /\ k \in 1 .. n
      BY <1>1, <1>3, <2>1 DEF InOrder
    <3> QED
      BY <1>1, <2>1, <3>1, ThrottleAssumption DEF IsLive
  <2>2. CASE ~(k <= i)
    <3>1. i \in 1 .. k - 1
      BY <1>1, <1>3, <2>2
    <3> QED
      BY <1>3, <2>2, <3>1
  <2> QED
    BY <2>1, <2>2
<1> QED
  BY <1>3, <1>4

LEMMA PrunedArray ==
  ASSUME clock \in Nat, NEW times, InOrder(times)
  PROVE  /\ FirstLive(times) \in 1 .. Len(times) + 1
         /\ Len(Unexpired(times)) = Len(times) - FirstLive(times) + 1
         /\ \A i \in 1 .. Len(Unexpired(times)) :
               Unexpired(times)[i] = times[FirstLive(times) + i - 1] /\ IsLive(Unexpired(times)[i])
         /\ Alive(times) = FirstLive(times) .. Len(times)
         /\ InOrder(Unexpired(times))
<1> DEFINE k == FirstLive(times)
           rest == Unexpired(times)
<1>1. k \in 1 .. Len(times) + 1 /\ Len(times) \in Nat
  BY LiveFromFirst DEF InOrder
<1>2. \A i \in k .. Len(times) : times[i] \in Nat
  BY <1>1 DEF InOrder
<1>3. /\ rest \in Seq(Nat) /\ Len(rest) = Len(times) - k + 1
      /\ \A i \in 1 .. Len(rest) : rest[i] = times[k + i - 1]
  BY <1>1, <1>2, SubSeqProperties DEF Unexpired
<1> HIDE DEF k, rest
<1>4. \A i \in 1 .. Len(rest) : k + i - 1 \in 1 .. Len(times) /\ k <= k + i - 1
  BY <1>1, <1>3
<1>5. \A i \in 1 .. Len(rest) : IsLive(rest[i])
  BY <1>1, <1>3, <1>4, LiveFromFirst DEF k
<1>6. InOrder(rest)
  <2>1. ASSUME NEW i \in 1 .. Len(rest), NEW j \in 1 .. Len(rest), i <= j PROVE rest[i] <= rest[j]
    <3>1. k + i - 1 <= k + j - 1
      BY <1>1, <2>1
    <3> QED
      BY <1>3, <1>4, <3>1 DEF InOrder
  <2>2. ASSUME NEW i \in 1 .. Len(rest) PROVE rest[i] <= clock
    BY <1>3, <1>4 DEF InOrder
  <2> QED
    BY <1>3, <2>1, <2>2 DEF InOrder
<1>7. Alive(times) = k .. Len(times)
  BY <1>1, LiveFromFirst DEF Alive, k
<1> QED
  BY <1>1, <1>3, <1>5, <1>6, <1>7 DEF k, rest

LEMMA PairsPruned ==
  ASSUME clock \in Nat, NEW times, InOrder(times), NEW C, NEW when, NEW f, Pairs(C, when, times, f)
  PROVE  \E g : Pairs(C, when, Unexpired(times), g)
<1> DEFINE k == FirstLive(times)
           rest == Unexpired(times)
           g == [r \in C |-> f[r] - k + 1]
<1>1. /\ k \in 1 .. Len(times) + 1 /\ Len(rest) = Len(times) - k + 1 /\ Len(times) \in Nat
      /\ \A i \in 1 .. Len(rest) : rest[i] = times[k + i - 1] /\ IsLive(rest[i])
      /\ Alive(times) = k .. Len(times)
  BY PrunedArray DEF InOrder
<1> HIDE DEF k, rest
<1>2. Alive(rest) = 1 .. Len(rest)
  BY <1>1 DEF Alive
<1>3. \A r \in C : f[r] \in k .. Len(times)
  BY <1>1 DEF Pairs
<1>4. g \in [C -> Alive(rest)]
  BY <1>1, <1>2, <1>3
<1>5. \A r \in C : rest[g[r]] = when[r]
  <2> TAKE r \in C
  <2>1. g[r] \in 1 .. Len(rest) /\ k + g[r] - 1 = f[r]
    BY <1>1, <1>3
  <2> QED
    <3>1. rest[g[r]] = times[k + g[r] - 1]
      <4> HIDE DEF g
      <4> QED
        BY <1>1, <2>1
    <3>2. times[f[r]] = when[r]
      BY DEF Pairs
    <3> HIDE DEF g
    <3> QED
      BY <2>1, <3>1, <3>2
<1>6. \A q, r \in C : g[q] = g[r] => q = r
  <2> TAKE q, r \in C
  <2>1. g[q] = g[r] => f[q] = f[r]
    BY <1>1, <1>3
  <2> QED
    BY <2>1 DEF Pairs
<1>7. \A i \in Alive(rest) : \E r \in C : g[r] = i
  <2> TAKE i \in Alive(rest)
  <2>1. k + i - 1 \in Alive(times)
    BY <1>1, <1>2
  <2>2. PICK r \in C : f[r] = k + i - 1
    BY <2>1 DEF Pairs
  <2>3. g[r] = i
    BY <1>1, <1>2, <2>2
  <2> QED
    BY <2>3
<1>8. Pairs(C, when, rest, g)
  BY <1>4, <1>5, <1>6, <1>7 DEF Pairs
<1> QED
  BY <1>8 DEF k, rest

\* A count is the number of live events.
LEMMA PairsCount ==
  ASSUME clock \in Nat, NEW times, InOrder(times), NEW C, NEW when, NEW f, Pairs(C, when, times, f)
  PROVE  Len(Unexpired(times)) = Cardinality(C)
<1> DEFINE rest == Unexpired(times)
<1>1. PICK g : Pairs(C, when, rest, g)
  BY PairsPruned
<1>2. Len(rest) \in Nat /\ Alive(rest) = 1 .. Len(rest)
  BY PrunedArray DEF Alive, InOrder
<1> HIDE DEF rest
<1>3. g \in Bijection(C, 1 .. Len(rest))
  BY <1>1, <1>2, Fun_IsBij DEF Pairs
<1>4. ExistsBijection(1 .. Len(rest), C)
  BY <1>3, Fun_ExistsBij, Fun_ExistsBijSymmetric
<1>5. IsFiniteSet(1 .. Len(rest)) /\ Cardinality(1 .. Len(rest)) = Len(rest)
  <2>1. 1 \in Int /\ Len(rest) \in Int
    BY <1>2
  <2>2. /\ IsFiniteSet(1 .. Len(rest))
        /\ Cardinality(1 .. Len(rest)) = IF 1 > Len(rest) THEN 0 ELSE Len(rest) - 1 + 1
    BY ONLY <2>1, FS_Interval
  <2> QED
    BY ONLY <1>2, <2>2
<1>6. Cardinality(C) = Len(rest)
  BY <1>4, <1>5, FS_Bijection
<1> QED
  BY <1>6 DEF rest


LEMMA PairsAppended ==
  ASSUME clock \in Nat, NEW times, InOrder(times), NEW C, NEW when, NEW f, Pairs(C, when, times, f),
         NEW r, r \notin C, NEW later, later[r] = clock, \A q \in C : later[q] = when[q]
  PROVE  /\ InOrder(Append(times, clock))
         /\ \E g : Pairs(C \cup {r}, later, Append(times, clock), g)
<1> DEFINE n == Len(times)
           more == Append(times, clock)
           g == [q \in C \cup {r} |-> IF q = r THEN n + 1 ELSE f[q]]
<1>1. /\ n \in Nat /\ more \in Seq(Nat) /\ Len(more) = n + 1 /\ more[n + 1] = clock
      /\ \A i \in 1 .. n : more[i] = times[i] /\ times[i] \in Nat /\ times[i] <= clock
  BY AppendProperties DEF InOrder
<1> HIDE DEF more
<1>2. InOrder(more)
  <2>1. ASSUME NEW i \in 1 .. n + 1, NEW j \in 1 .. n + 1, i <= j PROVE more[i] <= more[j]
    <3>1. CASE j \in 1 .. n
      <4>1. i \in 1 .. n
        BY <1>1, <2>1, <3>1
      <4>2. times[i] <= times[j]
        BY <2>1, <3>1, <4>1 DEF InOrder
      <4> QED
        BY <1>1, <3>1, <4>1, <4>2
    <3>2. CASE j = n + 1
      <4>1. more[i] <= clock
        BY <1>1
      <4> QED
        BY <1>1, <3>2, <4>1
    <3> QED
      BY <1>1, <3>1, <3>2
  <2>2. \A i \in 1 .. n + 1 : more[i] <= clock
    BY <1>1
  <2> QED
    BY <1>1, <2>1, <2>2 DEF InOrder
<1>3. Alive(more) = Alive(times) \cup {n + 1} /\ n + 1 \notin Alive(times)
  <2>1. IsLive(clock)
    BY ThrottleAssumption DEF IsLive
  <2> QED
    BY <1>1, <2>1 DEF Alive
<1>4. f \in [C -> Alive(times)] /\ \A q \in C : f[q] \in 1 .. n /\ f[q] # n + 1 /\ g[q] = f[q]
  BY <1>1 DEF Pairs, Alive
<1>5. g[r] = n + 1 /\ g \in [C \cup {r} -> Alive(more)]
  BY <1>3, <1>4
<1> HIDE DEF g
<1>6. \A q \in C \cup {r} : more[g[q]] = later[q]
  BY <1>1, <1>4, <1>5 DEF Pairs
<1>7. \A p, q \in C \cup {r} : g[p] = g[q] => p = q
  BY <1>4, <1>5 DEF Pairs
<1>8. \A i \in Alive(more) : \E q \in C \cup {r} : g[q] = i
  BY <1>3, <1>4, <1>5 DEF Pairs
<1>9. Pairs(C \cup {r}, later, more, g)
  BY <1>5, <1>6, <1>7, <1>8 DEF Pairs
<1> QED
  BY <1>2, <1>9 DEF more

LEMMA RemovedArray ==
  ASSUME clock \in Nat, NEW times, InOrder(times), NEW j \in 1 .. Len(times)
  PROVE  /\ InOrder(RemoveAt(times, j)) /\ Len(RemoveAt(times, j)) = Len(times) - 1
         /\ \A i \in 1 .. Len(times) - 1 :
              RemoveAt(times, j)[i] = IF i < j THEN times[i] ELSE times[i + 1]
<1> DEFINE n == Len(times)
           less == RemoveAt(times, j)
           front == SubSeq(times, 1, j - 1)
           back == SubSeq(times, j + 1, n)
<1>1. n \in Nat /\ \A i \in 1 .. n : times[i] \in Nat
  BY DEF InOrder
<1>2. front \in Seq(Nat) /\ Len(front) = j - 1 /\ \A i \in 1 .. j - 1 : front[i] = times[i]
  <2>1. \A i \in 1 .. j - 1 : times[i] \in Nat
    BY <1>1
  <2> QED
    BY <1>1, <2>1, SubSeqProperties
<1>3. back \in Seq(Nat) /\ Len(back) = n - j /\ \A i \in 1 .. n - j : back[i] = times[j + i]
  <2>1. \A i \in j + 1 .. n : times[i] \in Nat
    BY <1>1
  <2>2. /\ back \in Seq(Nat) /\ Len(back) = IF j + 1 <= n THEN n - (j + 1) + 1 ELSE 0
        /\ \A i \in 1 .. n - (j + 1) + 1 : back[i] = times[j + 1 + i - 1]
    BY <1>1, <2>1, SubSeqProperties
  <2> QED
    BY <1>1, <2>2
<1> HIDE DEF front, back
<1>4. less = front \o back
  BY DEF RemoveAt, front, back
<1>5. /\ less \in Seq(Nat) /\ Len(less) = n - 1
      /\ \A i \in 1 .. n - 1 : less[i] = IF i < j THEN times[i] ELSE times[i + 1]
  <2> HIDE DEF less
  <2>1. less \in Seq(Nat) /\ Len(less) = Len(front) + Len(back)
    BY <1>2, <1>3, <1>4, ConcatProperties
  <2>2. \A i \in 1 .. Len(less) : less[i] = IF i <= Len(front) THEN front[i] ELSE back[i - Len(front)]
    BY <1>2, <1>3, <1>4, <2>1, ConcatProperties
  <2>3. Len(less) = n - 1
    BY <1>1, <1>2, <1>3, <2>1
  <2>4. ASSUME NEW i \in 1 .. n - 1 PROVE less[i] = IF i < j THEN times[i] ELSE times[i + 1]
    <3>1. CASE i < j
      BY <1>1, <1>2, <2>2, <2>3, <3>1
    <3>2. CASE ~(i < j)
      <4>1. i - (j - 1) \in 1 .. n - j /\ j + (i - (j - 1)) = i + 1
        BY <1>1, <3>2
      <4>2. less[i] = back[i - (j - 1)] /\ back[i - (j - 1)] = times[j + (i - (j - 1))]
        BY <1>1, <1>2, <1>3, <2>2, <2>3, <3>2, <4>1
      <4> QED
        BY <3>2, <4>1, <4>2
    <3> QED
      BY <3>1, <3>2
  <2> QED
    BY <2>1, <2>3, <2>4
<1> HIDE DEF less
<1>6. InOrder(less)
  <2>1. ASSUME NEW i \in 1 .. n - 1, NEW m \in 1 .. n - 1, i <= m PROVE less[i] <= less[m]
    <3>1. /\ i \in 1 .. n /\ m \in 1 .. n /\ i + 1 \in 1 .. n /\ m + 1 \in 1 .. n
      BY <1>1
    <3>2. times[i] <= times[m] /\ times[i] <= times[m + 1] /\ times[i + 1] <= times[m + 1]
      BY <1>1, <2>1, <3>1 DEF InOrder
    <3>3. /\ less[i] = IF i < j THEN times[i] ELSE times[i + 1]
          /\ less[m] = IF m < j THEN times[m] ELSE times[m + 1]
      BY <1>5
    <3>4. ~(~(i < j) /\ m < j)
      BY <1>1, <2>1
    <3> QED
      BY <3>2, <3>3, <3>4
  <2>2. ASSUME NEW i \in 1 .. n - 1 PROVE less[i] <= clock
    <3>1. i \in 1 .. n /\ i + 1 \in 1 .. n
      BY <1>1
    <3> QED
      BY <1>5, <3>1 DEF InOrder
  <2> QED
    BY <1>5, <2>1, <2>2 DEF InOrder
<1> QED
  BY <1>5, <1>6 DEF less


\* The last of the events at a time.
LEMMA LastIndexIn ==
  ASSUME NEW times, InOrder(times), NEW t \in ToSet(times)
  PROVE  /\ LastIndex(times, t) \in 1 .. Len(times) /\ times[LastIndex(times, t)] = t
         /\ \A i \in LastIndex(times, t) + 1 .. Len(times) : times[i] # t
<1> DEFINE n == Len(times)
           j == LastIndex(times, t)
<1>0. n \in Nat /\ DOMAIN times = 1 .. n /\ \A i \in 1 .. n : times[i] \in Nat
  BY DEF InOrder
<1> DEFINE T == {d \in Nat : n - d \in 1 .. n /\ times[n - d] = t}
<1>1. T \in SUBSET Nat /\ T # {}
  <2>1. PICK i \in 1 .. n : times[i] = t
    BY <1>0 DEF ToSet
  <2>2. n - i \in Nat /\ n - (n - i) = i
    BY <1>0
  <2> QED
    BY <2>1, <2>2
<1>2. PICK d \in T : \A e \in T : d <= e
  <2> HIDE DEF T
  <2> QED
    BY <1>1, LeastNat
<1>3. n - d \in 1 .. n /\ times[n - d] = t
  BY <1>0
<1>4. ASSUME NEW i \in n - d + 1 .. n, times[i] = t PROVE FALSE
  <2>1. i \in 1 .. n /\ d \in Nat
    BY <1>0, <1>1, <1>3
  <2>2. n - i \in Nat /\ n - (n - i) = i /\ n - i < d
    BY <1>0, <1>4, <2>1
  <2>3. n - i \in T
    BY <1>4, <2>1, <2>2
  <2>4. d <= n - i
    BY <1>2, <2>3
  <2> QED
    BY <2>1, <2>2, <2>4
<1>5. \E i \in 1 .. n : times[i] = t /\ \A l \in i + 1 .. n : times[l] # t
  BY <1>3, <1>4
<1>6. j = CHOOSE i \in 1 .. n : times[i] = t /\ \A l \in i + 1 .. n : times[l] # t
  BY DEF LastIndex
<1> HIDE DEF j
<1>7. j \in 1 .. n /\ times[j] = t /\ \A i \in j + 1 .. n : times[i] # t
  BY <1>5, <1>6
<1> QED
  BY <1>7 DEF j

\* Of the events at a time, the last is removed; the request that is paired with
\* it takes the event of the request that leaves.
LEMMA PairsRemoved ==
  ASSUME clock \in Nat, NEW times, InOrder(times), NEW C, NEW when, NEW f, Pairs(C, when, times, f),
         NEW t \in ToSet(times), NEW r, IsLive(t) => r \in C /\ when[r] = t, ~IsLive(t) => r \notin C
  PROVE  /\ LastIndex(times, t) \in 1 .. Len(times)
         /\ \E g : Pairs(C \ {r}, when, RemoveAt(times, LastIndex(times, t)), g)
<1> DEFINE n == Len(times)
           j == LastIndex(times, t)
           less == RemoveAt(times, j)
           m == [q \in C |-> IF f[q] = j THEN f[r] ELSE f[q]]
           g == [q \in C \ {r} |-> IF m[q] < j THEN m[q] ELSE m[q] - 1]
<1>1. n \in Nat /\ DOMAIN times = 1 .. n /\ \A i \in 1 .. n : times[i] \in Nat
  BY DEF InOrder
<1>2. j \in 1 .. n /\ times[j] = t /\ \A i \in j + 1 .. n : times[i] # t
  BY LastIndexIn
<1> HIDE DEF j
<1>3. /\ Len(less) = n - 1
      /\ \A i \in 1 .. n - 1 : less[i] = IF i < j THEN times[i] ELSE times[i + 1]
  BY <1>2, RemovedArray
<1> HIDE DEF less
<1>4. \A i \in 1 .. n - 1 : i \in Alive(less) <=> (IF i < j THEN i ELSE i + 1) \in Alive(times)
  BY <1>1, <1>2, <1>3 DEF Alive
<1>5. f \in [C -> Alive(times)] /\ \A q \in C : f[q] \in 1 .. n
  BY DEF Pairs, Alive
<1>6. \A q \in C \ {r} : m[q] \in Alive(times) /\ m[q] # j /\ times[m[q]] = when[q]
  <2> TAKE q \in C \ {r}
  <2>1. CASE f[q] # j
    BY <1>5, <2>1 DEF Pairs
  <2>2. CASE f[q] = j
    <3>1. j \in Alive(times) /\ IsLive(t)
      BY <1>2, <1>5, <2>2 DEF Alive
    <3>2. r \in C /\ when[r] = t /\ times[f[r]] = t /\ when[q] = t /\ f[r] # f[q]
      BY <1>2, <2>2, <3>1 DEF Pairs
    <3>3. m[q] = f[r] /\ f[r] \in Alive(times)
      BY <1>5, <2>2, <3>2
    <3> QED
      BY <2>2, <3>2, <3>3
  <2> QED
    BY <2>1, <2>2
<1>7. \A p, q \in C \ {r} : m[p] = m[q] => p = q
  <2> SUFFICES ASSUME NEW p \in C \ {r}, NEW q \in C \ {r}, m[p] = m[q] PROVE p = q
    OBVIOUS
  <2>1. CASE f[p] = j /\ f[q] = j
    BY <2>1 DEF Pairs
  <2>2. CASE f[p] # j /\ f[q] # j
    BY <2>2 DEF Pairs
  <2>3. CASE f[p] = j /\ f[q] # j
    <3>1. IsLive(t)
      BY <1>2, <1>5, <2>3 DEF Alive
    <3>2. r \in C /\ f[r] = f[q]
      BY <2>3, <3>1
    <3> QED
      BY <3>2 DEF Pairs
  <2>4. CASE f[p] # j /\ f[q] = j
    <3>1. IsLive(t)
      BY <1>2, <1>5, <2>4 DEF Alive
    <3>2. r \in C /\ f[r] = f[p]
      BY <2>4, <3>1
    <3> QED
      BY <3>2 DEF Pairs
  <2> QED
    BY <2>1, <2>2, <2>3, <2>4
<1>8. \A i \in Alive(times) \ {j} : \E q \in C \ {r} : m[q] = i
  <2> TAKE i \in Alive(times) \ {j}
  <2>1. PICK q \in C : f[q] = i
    BY DEF Pairs
  <2>2. CASE q # r
    BY <2>1, <2>2
  <2>3. CASE q = r
    <3>1. IsLive(t)
      BY <2>3
    <3>2. j \in Alive(times)
      BY <1>2, <3>1 DEF Alive
    <3>3. PICK p \in C : f[p] = j
      BY <3>2 DEF Pairs
    <3>4. p # r /\ m[p] = i
      BY <2>1, <2>3, <3>3
    <3> QED
      BY <3>4
  <2> QED
    BY <2>2, <2>3
<1> HIDE DEF m
<1>9. /\ \A q \in C \ {r} : m[q] \in 1 .. n
      /\ \A q \in C \ {r} : g[q] = IF m[q] < j THEN m[q] ELSE m[q] - 1
  BY <1>6 DEF Alive
<1> HIDE DEF g
<1>10. \A q \in C \ {r} : g[q] \in 1 .. n - 1 /\ (IF g[q] < j THEN g[q] ELSE g[q] + 1) = m[q]
  BY <1>1, <1>2, <1>6, <1>9
<1>11. \A q \in C \ {r} : g[q] \in Alive(less)
  BY <1>4, <1>6, <1>10
<1>12. \A q \in C \ {r} : less[g[q]] = when[q]
  <2> TAKE q \in C \ {r}
  <2>1. less[g[q]] = times[m[q]]
    BY <1>3, <1>10
  <2> QED
    BY <1>6, <2>1
<1>13. \A p, q \in C \ {r} : g[p] = g[q] => p = q
  BY <1>7, <1>10
<1>14. \A i \in Alive(less) : \E q \in C \ {r} : g[q] = i
  <2> TAKE i \in Alive(less)
  <2>1. i \in 1 .. n - 1
    BY <1>3 DEF Alive
  <2>2. (IF i < j THEN i ELSE i + 1) \in Alive(times) \ {j}
    BY <1>1, <1>2, <1>4, <2>1
  <2>3. PICK q \in C \ {r} : m[q] = IF i < j THEN i ELSE i + 1
    BY <1>8, <2>2
  <2>4. g[q] = i
    BY <1>1, <1>2, <1>9, <2>1, <2>3
  <2> QED
    BY <2>4
<1>15. g \in [C \ {r} -> Alive(less)]
  BY <1>11 DEF g
<1>16. Pairs(C \ {r}, when, less, g)
  BY <1>12, <1>13, <1>14, <1>15 DEF Pairs
<1> QED
  BY <1>2, <1>16 DEF j, less


LEMMA PairsNone ==
  ASSUME NEW C, NEW when, NEW f, Pairs(C, when, <<>>, f)
  PROVE  C = {}
<1>1. Alive(<<>>) = {}
  BY DEF Alive
<1> QED
  BY <1>1 DEF Pairs

LEMMA UnexpiredNone == clock \in Nat => InOrder(<<>>) /\ Unexpired(<<>>) = <<>>
<1> SUFFICES ASSUME clock \in Nat PROVE InOrder(<<>>) /\ Unexpired(<<>>) = <<>>
  OBVIOUS
<1>1. InOrder(<<>>)
  BY DEF InOrder
<1>2. Len(Unexpired(<<>>)) = 1 - FirstLive(<<>>) /\ FirstLive(<<>>) \in 1 .. 1 /\ Unexpired(<<>>) \in Seq(Nat)
  <2>1. Len(<<>>) = 0
    OBVIOUS
  <2>2. /\ FirstLive(<<>>) \in 1 .. 0 + 1 /\ Len(Unexpired(<<>>)) = 0 - FirstLive(<<>>) + 1
        /\ InOrder(Unexpired(<<>>))
    BY <1>1, <2>1, PrunedArray
  <2> QED
    BY <2>2 DEF InOrder
<1> QED
  BY <1>1, <1>2, EmptySeq

\* What the invariant says of a slot.
Exact(s) == InOrder(Events(s)) /\ \E f : Pairs(Counting(s), When, Events(s), f)

\* A slot whose array and requests a step leaves alone stays exact.
LEMMA ExactStays ==
  ASSUME LimiterShape, UNCHANGED clock, NEW s, Exact(s), Events(s)' = Events(s), Counting(s)' = Counting(s),
         \A q \in Counting(s) : asked'[q].at = asked[q].at
  PROVE  Exact(s)'
<1>1. PICK f : Pairs(Counting(s), When, Events(s), f)
  BY DEF Exact
<1>2. Counting(s) \subseteq AuthRequests
  BY DEF Counting
<1>3. Pairs(Counting(s), When', Events(s), f)
  BY <1>1, <1>2 DEF Pairs, When
<1>4. Pairs(Counting(s), When, Events(s), f)'
  BY <1>3 DEF Pairs, Alive, IsLive
<1>5. InOrder(Events(s))'
  BY DEF Exact, InOrder
<1> QED
  BY <1>4, <1>5 DEF Exact

\* A slot is exact after a step when its new array is in order and paired.
LEMMA ExactAfter ==
  ASSUME UNCHANGED clock, NEW s, InOrder(Events(s)'), NEW g, Pairs(Counting(s)', When', Events(s)', g)
  PROVE  Exact(s)'
<1>1. Pairs(Counting(s), When, Events(s), g)'
  BY DEF Pairs, Alive, IsLive
<1>2. InOrder(Events(s))'
  BY DEF InOrder
<1> QED
  BY <1>1, <1>2 DEF Exact

LEMMA RecentEvents ==
  ASSUME LimiterShape, NEW s, Exact(s)
  PROVE  /\ Pruned(s) = Unexpired(Events(s)) /\ InOrder(Pruned(s))
         /\ \E f : Pairs(Counting(s), When, Pruned(s), f)
         /\ Len(Pruned(s)) = Cardinality(Counting(s))
         /\ Pruned(s) # <<>> => s \in DOMAIN windows
         /\ Pruned(s) = <<>> => Counting(s) = {}
<1>1. PICK f : Pairs(Counting(s), When, Events(s), f)
  BY DEF Exact
<1>2. clock \in Nat /\ InOrder(Events(s))
  BY DEF Exact, LimiterShape
<1>3. Pruned(s) = Unexpired(Events(s))
  BY <1>2, UnexpiredNone DEF Pruned, Events, Unexpired
<1>4. PICK g : Pairs(Counting(s), When, Unexpired(Events(s)), g)
  BY <1>1, <1>2, PairsPruned
<1>5. Len(Unexpired(Events(s))) = Cardinality(Counting(s)) /\ InOrder(Unexpired(Events(s)))
  BY <1>1, <1>2, PairsCount, PrunedArray
<1>6. Pruned(s) # <<>> => s \in DOMAIN windows
  BY DEF Pruned
<1>7. Pruned(s) = <<>> => Counting(s) = {}
  BY <1>3, <1>4, PairsNone
<1> QED
  BY <1>3, <1>4, <1>5, <1>6, <1>7

LEMMA RefusalKeepsCounts ==
  ASSUME LimiterInv, NEW r \in AuthRequests, NEW s \in Slots, TryAcquire(r, s), Len(Pruned(s)) >= MaxEvents
  PROVE  LimiterInv'
<1> DEFINE recent == Pruned(s)
<1>1. /\ asked[r].step = "none" /\ UNCHANGED <<clock, evicted>>
      /\ windows' = [windows EXCEPT ![s].at = recent]
      /\ asked' = [asked EXCEPT ![r].step = "refused", ![r].slot = s]
  BY DEF TryAcquire
<1>2. LimiterShape /\ \A t \in Slots : Exact(t)
  BY DEF LimiterInv, Exact
<1>3. InOrder(recent) /\ s \in DOMAIN windows /\ \E f : Pairs(Counting(s), When, recent, f)
  <2>1. recent # <<>>
    BY ThrottleAssumption
  <2> QED
    BY <1>2, <2>1, RecentEvents
<1> HIDE DEF recent
<1>4. /\ DOMAIN windows' = DOMAIN windows /\ windows' = [t \in DOMAIN windows |-> windows'[t]]
      /\ \A t \in DOMAIN windows : windows'[t].array = windows[t].array /\ windows'[t] \in [array : AuthRequests, at : Seq(Nat)]
      /\ windows'[s].at = recent /\ \A t \in DOMAIN windows \ {s} : windows'[t] = windows[t]
  BY <1>1, <1>2, <1>3 DEF LimiterShape, InOrder
<1>5. /\ \A q \in AuthRequests \ {r} : asked'[q] = asked[q]
      /\ asked'[r].step = "refused" /\ asked'[r].array = asked[r].array
      /\ asked' \in [AuthRequests -> AskedRequests]
  <2>1. asked[r] \in AskedRequests /\ asked \in [AuthRequests -> AskedRequests]
    BY <1>2 DEF LimiterShape
  <2>2. asked' = [asked EXCEPT ![r] = [@ EXCEPT !.step = "refused", !.slot = s]]
    BY <1>1
  <2>3. [asked[r] EXCEPT !.step = "refused", !.slot = s] \in AskedRequests
    BY <2>1 DEF AskedRequests
  <2> QED
    BY <2>1, <2>2, <2>3 DEF AskedRequests
<1>6. LimiterShape'
  BY <1>1, <1>2, <1>4, <1>5 DEF LimiterShape, AskedRequests
<1>7. ArraysAreOld'
  <2>1. \A q \in AuthRequests : asked[q].step # "none" => asked'[q].step # "none"
    BY <1>1, <1>5
  <2>2. ArraysAreOld /\ \A t \in DOMAIN windows : windows[t].array \in AuthRequests
    BY <1>2 DEF LimiterInv, LimiterShape
  <2>3. \A t \in DOMAIN windows' : asked'[windows'[t].array].step # "none"
    BY <1>4, <2>1, <2>2 DEF ArraysAreOld
  <2>4. asked[r].array \in AuthRequests /\ \A q \in AuthRequests : asked[q].array \in AuthRequests
    BY <1>2 DEF LimiterShape, AskedRequests
  <2>5. ASSUME NEW q \in AuthRequests, asked'[q].step # "none" PROVE asked'[asked'[q].array].step # "none"
    <3>1. CASE q = r
      BY <1>1, <1>5, <2>2, <3>1 DEF ArraysAreOld
    <3>2. CASE q # r
      BY <1>5, <2>1, <2>2, <2>4, <2>5, <3>2 DEF ArraysAreOld
    <3> QED
      BY <3>1, <3>2
  <2>6. ASSUME NEW q \in AuthRequests, asked'[q].step = "none" PROVE asked'[q].array = q
    BY <1>5, <2>2, <2>6 DEF ArraysAreOld
  <2> QED
    BY <2>3, <2>5, <2>6 DEF ArraysAreOld
<1>8. \A t \in Slots : Counting(t)' = Counting(t) /\ r \notin Counting(t)
  BY <1>1, <1>5 DEF Counting, IsLive
<1>9. EvictedHaveLeft'
  <2>1. EvictedHaveLeft /\ evicted \subseteq AuthRequests /\ r \notin evicted
    BY <1>1 DEF LimiterInv, LimiterShape, EvictedHaveLeft
  <2>2. evicted' = evicted /\ \A t \in DOMAIN windows' : windows'[t].array = windows[t].array
    BY <1>1, <1>4
  <2>3. DOMAIN windows' = DOMAIN windows /\ \A q \in evicted : asked'[q] = asked[q]
    BY <1>4, <1>5, <2>1
  <2> QED
    BY <2>1, <2>2, <2>3 DEF EvictedHaveLeft
<1>10. CountingAreIn'
  <2> SUFFICES ASSUME NEW t \in Slots, NEW q \in Counting(t)
               PROVE  t \in DOMAIN windows' /\ windows'[t].array = asked'[q].array
    BY <1>8 DEF CountingAreIn
  <2>1. t \in DOMAIN windows /\ windows[t].array = asked[q].array
    BY DEF LimiterInv, CountingAreIn
  <2>2. q \in AuthRequests \ {r}
    BY <1>8 DEF Counting
  <2> QED
    BY <1>4, <1>5, <2>1, <2>2
<1>11. ASSUME NEW t \in Slots PROVE Exact(t)'
  <2>1. \A q \in Counting(t) : asked'[q] = asked[q]
    BY <1>5, <1>8 DEF Counting
  <2>2. CASE t # s
    <3>1. Events(t)' = Events(t)
      BY <1>4, <2>2 DEF Events
    <3> QED
      BY <1>1, <1>2, <1>8, <2>1, <3>1, ExactStays
  <2>3. CASE t = s
    <3>1. Events(s)' = recent
      BY <1>3, <1>4 DEF Events
    <3>2. PICK f : Pairs(Counting(s), When, recent, f)
      BY <1>3
    <3>3. Pairs(Counting(s), When', recent, f)
      BY <3>2, <2>1, <2>3 DEF Pairs, When, Counting
    <3> QED
      BY <1>1, <1>3, <1>8, <2>3, <3>1, <3>3, ExactAfter
  <2> QED
    BY <2>2, <2>3
<1> QED
  BY <1>6, <1>7, <1>9, <1>10, <1>11 DEF LimiterInv, Exact


LEMMA GrantKeepsCounts ==
  ASSUME LimiterInv, NEW r \in AuthRequests, NEW s \in Slots, TryAcquire(r, s), ~(Len(Pruned(s)) >= MaxEvents)
  PROVE  LimiterInv'
<1> DEFINE recent == Pruned(s)
           kept == IF recent = <<>> THEN DOMAIN windows \ {s} ELSE DOMAIN windows
           array == IF recent = <<>> THEN r ELSE windows[s].array
<1>1. PICK gone \in SUBSET kept :
        /\ recent # <<>> => gone = {}
        /\ windows' = [t \in DOMAIN Without(gone \cup (IF recent = <<>> THEN {s} ELSE {})) \cup {s} |->
                         IF t = s THEN [array |-> array, at |-> Append(recent, clock)]
                         ELSE Without(gone \cup (IF recent = <<>> THEN {s} ELSE {}))[t]]
        /\ asked' = [asked EXCEPT ![r] = [step |-> "granted", slot |-> s, at |-> clock, array |-> array]]
        /\ evicted' = evicted \cup Holders(gone)
  BY DEF TryAcquire
<1>2. asked[r].step = "none" /\ UNCHANGED clock
  BY DEF TryAcquire
<1>3. LimiterShape /\ ArraysAreOld /\ EvictedHaveLeft /\ CountingAreIn /\ clock \in Nat /\ \A t \in Slots : Exact(t)
  BY DEF LimiterInv, Exact, LimiterShape
<1>4. /\ InOrder(recent) /\ \E f : Pairs(Counting(s), When, recent, f)
      /\ recent # <<>> => s \in DOMAIN windows
      /\ recent = <<>> => Counting(s) = {}
  BY <1>3, RecentEvents
<1> HIDE DEF recent
<1>5. s \notin gone /\ gone \subseteq DOMAIN windows
  BY <1>1
<1>6. DOMAIN windows' = (DOMAIN windows \ gone) \cup {s}
  <2>1. CASE recent = <<>>
    BY <1>1, <1>5, <2>1 DEF Without
  <2>2. CASE recent # <<>>
    BY <1>1, <1>4, <1>5, <2>2 DEF Without
  <2> QED
    BY <2>1, <2>2
<1>7. /\ windows'[s] = [array |-> array, at |-> Append(recent, clock)]
      /\ \A t \in DOMAIN windows' \ {s} : windows'[t] = windows[t]
      /\ windows' = [t \in DOMAIN windows' |-> windows'[t]]
  BY <1>1, <1>6 DEF Without
<1>8. array \in AuthRequests /\ Append(recent, clock) \in Seq(Nat)
  <2>1. Append(recent, clock) \in Seq(Nat)
    BY <1>3, <1>4, AppendProperties DEF InOrder
  <2>2. array \in AuthRequests
    BY <1>3, <1>4 DEF LimiterShape
  <2> QED
    BY <2>1, <2>2
<1>9. /\ asked'[r] = [step |-> "granted", slot |-> s, at |-> clock, array |-> array]
      /\ \A q \in AuthRequests \ {r} : asked'[q] = asked[q]
      /\ asked' \in [AuthRequests -> AskedRequests]
  <2>1. [step |-> "granted", slot |-> s, at |-> clock, array |-> array] \in AskedRequests
    BY <1>3, <1>8 DEF AskedRequests
  <2>2. asked \in [AuthRequests -> AskedRequests]
    BY <1>3 DEF LimiterShape
  <2> HIDE DEF array
  <2> QED
    BY <1>1, <2>1, <2>2
<1>10. LimiterShape'
  <2>1. \A t \in DOMAIN windows' : windows'[t] \in [array : AuthRequests, at : Seq(Nat)]
    <3> HIDE DEF array
    <3>1. [array |-> array, at |-> Append(recent, clock)] \in [array : AuthRequests, at : Seq(Nat)]
      BY <1>8
    <3>2. \A t \in DOMAIN windows' \ {s} : t \in DOMAIN windows
      BY <1>6
    <3>3. \A t \in DOMAIN windows : windows[t] \in [array : AuthRequests, at : Seq(Nat)]
      BY <1>3 DEF LimiterShape
    <3> QED
      BY <1>7, <3>1, <3>2, <3>3
  <2>2. evicted' \subseteq AuthRequests
    BY <1>1, <1>3 DEF LimiterShape, Holders
  <2>3. DOMAIN windows' \subseteq Slots
    BY <1>3, <1>6 DEF LimiterShape
  <2> QED
    BY <1>2, <1>3, <1>7, <1>9, <2>1, <2>2, <2>3 DEF LimiterShape, AskedRequests
<1>11. /\ \A q \in AuthRequests : asked[q].step # "none" => q # r /\ asked'[q].step # "none"
       /\ asked'[array].step # "none"
  <2>1. \A q \in AuthRequests : asked[q].step # "none" => q # r /\ asked'[q].step # "none"
    BY <1>2, <1>9
  <2>2. CASE recent = <<>>
    <3>1. array = r
      BY <2>2
    <3> HIDE DEF array
    <3> QED
      BY <1>9, <2>1, <3>1
  <2>3. CASE recent # <<>>
    BY <1>3, <1>4, <1>8, <2>1, <2>3 DEF ArraysAreOld
  <2> QED
    BY <2>1, <2>2, <2>3
<1>12. ArraysAreOld'
  <2>1. \A t \in DOMAIN windows' : asked'[windows'[t].array].step # "none"
    <3> HIDE DEF array
    <3> QED
      BY <1>3, <1>6, <1>7, <1>11 DEF ArraysAreOld, LimiterShape
  <2>2. ASSUME NEW q \in AuthRequests
        PROVE  IF asked'[q].step = "none" THEN asked'[q].array = q ELSE asked'[asked'[q].array].step # "none"
    <3>1. asked[q].array \in AuthRequests
      BY <1>3 DEF LimiterShape, AskedRequests
    <3>2. CASE q = r
      <4> HIDE DEF array
      <4> QED
        BY <1>9, <1>11, <3>2
    <3>3. CASE q # r
      BY <1>3, <1>9, <1>11, <3>1, <3>3 DEF ArraysAreOld
    <3> QED
      BY <3>2, <3>3
  <2> QED
    BY <2>1, <2>2 DEF ArraysAreOld
<1>13. EvictedHaveLeft'
  <2> SUFFICES ASSUME NEW q \in evicted'
               PROVE  /\ asked'[q].step # "none"
                      /\ asked'[q].slot \in DOMAIN windows' => windows'[asked'[q].slot].array # asked'[q].array
    BY DEF EvictedHaveLeft
  <2>1. q \in AuthRequests /\ asked[q].step # "none" /\ q # r /\ asked'[q] = asked[q]
    <3>1. q \in evicted \/ q \in Holders(gone)
      BY <1>1
    <3>2. q \in AuthRequests /\ asked[q].step # "none"
      BY <1>3, <3>1 DEF EvictedHaveLeft, Holders, LimiterShape
    <3> QED
      BY <1>9, <1>11, <3>2
  <2>2. CASE q \in Holders(gone)
    <3>1. asked[q].slot \notin DOMAIN windows'
      BY <1>5, <1>6, <2>2 DEF Holders
    <3> QED
      BY <2>1, <3>1
  <2>3. CASE q \in evicted
    <3>1. CASE asked[q].slot # s
      BY <1>3, <1>6, <1>7, <2>1, <2>3, <3>1 DEF EvictedHaveLeft
    <3>2. CASE asked[q].slot = s /\ recent # <<>>
      BY <1>3, <1>4, <1>7, <2>1, <2>3, <3>2 DEF EvictedHaveLeft
    <3>3. CASE asked[q].slot = s /\ recent = <<>>
      <4>1. asked[q].array # r
        BY <1>2, <1>3, <2>1 DEF ArraysAreOld
      <4> QED
        BY <1>7, <2>1, <3>3, <4>1
    <3> QED
      BY <3>1, <3>2, <3>3
  <2> QED
    BY <1>1, <2>2, <2>3
<1>14. /\ Counting(s)' = Counting(s) \cup {r} /\ r \notin Counting(s)
       /\ \A t \in Slots \ {s} : Counting(t)' = (IF t \in gone THEN {} ELSE Counting(t)) /\ r \notin Counting(t)
  <2>1. IsLive(clock) /\ \A n : IsLive(n)' <=> IsLive(n)
    BY <1>2, <1>3, ThrottleAssumption DEF IsLive
  <2>2. r \notin evicted /\ r \notin Holders(gone)
    BY <1>2, <1>3 DEF EvictedHaveLeft, Holders
  <2>3. \A t \in Slots : r \notin Counting(t)
    BY <1>2 DEF Counting
  <2>4. ASSUME NEW t \in Slots, NEW q \in AuthRequests \ {r}
        PROVE  q \in Counting(t)' <=> (q \in Counting(t) /\ t \notin gone)
    BY <1>1, <1>9, <2>1, <2>4 DEF Counting, Holders
  <2>5. ASSUME NEW t \in Slots PROVE r \in Counting(t)' <=> t = s
    BY <1>1, <1>2, <1>9, <2>1, <2>2 DEF Counting
  <2>6. \A t \in Slots : Counting(t)' \subseteq AuthRequests /\ Counting(t) \subseteq AuthRequests
    BY DEF Counting
  <2>7. Counting(s)' = Counting(s) \cup {r}
    BY <1>5, <2>4, <2>5, <2>6
  <2>8. ASSUME NEW t \in Slots \ {s} PROVE Counting(t)' = IF t \in gone THEN {} ELSE Counting(t)
    <3>1. r \notin Counting(t)' /\ r \notin Counting(t)
      BY <2>3, <2>5
    <3>2. \A q \in AuthRequests : q \in Counting(t)' <=> (q \in Counting(t) /\ t \notin gone)
      BY <2>4, <3>1
    <3>3. Counting(t)' \subseteq AuthRequests /\ Counting(t) \subseteq AuthRequests
      BY <2>6
    <3>4. CASE t \in gone
      BY <3>2, <3>3, <3>4
    <3>5. CASE t \notin gone
      BY <3>2, <3>3, <3>5
    <3> QED
      BY <3>4, <3>5
  <2> QED
    BY <2>3, <2>7, <2>8
<1>15. CountingAreIn'
  <2> SUFFICES ASSUME NEW t \in Slots, NEW q \in Counting(t)'
               PROVE  t \in DOMAIN windows' /\ windows'[t].array = asked'[q].array
    BY DEF CountingAreIn
  <2>1. CASE q = r
    <3>1. t = s
      BY <1>14, <2>1
    <3> HIDE DEF array
    <3> QED
      BY <1>6, <1>7, <1>9, <2>1, <3>1
  <2>2. CASE q # r
    <3>1. q \in Counting(t) /\ t \notin gone /\ q \in AuthRequests \ {r}
      BY <1>5, <1>14, <2>2 DEF Counting
    <3>2. t \in DOMAIN windows /\ windows[t].array = asked[q].array
      BY <1>3, <3>1 DEF CountingAreIn
    <3>3. t = s => recent # <<>>
      BY <1>4, <3>1
    <3> QED
      BY <1>6, <1>7, <1>9, <3>1, <3>2, <3>3
  <2> QED
    BY <2>1, <2>2
<1>16. ASSUME NEW t \in Slots PROVE Exact(t)'
  <2>1. CASE t = s
    <3>1. PICK f : Pairs(Counting(s), When, recent, f)
      BY <1>4
    <3>2. When'[r] = clock /\ \A q \in Counting(s) : When'[q] = When[q]
      BY <1>9, <1>14 DEF When, Counting
    <3>3. /\ InOrder(Append(recent, clock))
          /\ \E g : Pairs(Counting(s) \cup {r}, When', Append(recent, clock), g)
      BY <1>3, <1>4, <1>14, <3>1, <3>2, PairsAppended
    <3>4. Events(s)' = Append(recent, clock)
      BY <1>6, <1>7 DEF Events
    <3> QED
      BY <1>2, <1>14, <2>1, <3>3, <3>4, ExactAfter
  <2>2. CASE t # s /\ t \notin gone
    <3>1. Events(t)' = Events(t) /\ Counting(t)' = Counting(t)
      BY <1>6, <1>7, <1>14, <2>2 DEF Events
    <3>2. \A q \in Counting(t) : asked'[q].at = asked[q].at
      BY <1>9, <1>14, <2>2 DEF Counting
    <3> QED
      BY <1>2, <1>3, <3>1, <3>2, ExactStays
  <2>3. CASE t \in gone
    <3>1. Events(t)' = <<>> /\ Counting(t)' = {}
      BY <1>5, <1>6, <1>14, <2>3 DEF Events
    <3>2. Pairs({}, When', <<>>, [q \in {} |-> 0])
      BY DEF Pairs, Alive
    <3> QED
      BY <1>2, <1>3, <3>1, <3>2, UnexpiredNone, ExactAfter
  <2> QED
    BY <2>1, <2>2, <2>3
<1> QED
  BY <1>10, <1>12, <1>13, <1>15, <1>16 DEF LimiterInv, Exact


LEMMA ReleaseKeepsCounts ==
  ASSUME LimiterInv, NEW r \in AuthRequests, Release(r)
  PROVE  LimiterInv'
<1>0. PICK s : s = asked[r].slot
  OBVIOUS
<1> DEFINE times == windows[s].at
           Own == s \in DOMAIN windows /\ windows[s].array = asked[r].array /\ asked[r].at \in ToSet(times)
<1>1. /\ asked[r].step = "granted" /\ UNCHANGED <<clock, evicted>>
      /\ asked' = [asked EXCEPT ![r].step = "released"]
  BY DEF Release
<1>2. LimiterShape /\ ArraysAreOld /\ EvictedHaveLeft /\ CountingAreIn /\ clock \in Nat /\ \A t \in Slots : Exact(t)
  BY DEF LimiterInv, Exact, LimiterShape
<1>3. /\ asked'[r] = [asked[r] EXCEPT !.step = "released"]
      /\ asked'[r].step = "released" /\ asked'[r].array = asked[r].array /\ asked'[r].slot = s
      /\ \A q \in AuthRequests \ {r} : asked'[q] = asked[q]
      /\ \A q \in AuthRequests : asked'[q].at = asked[q].at
      /\ asked' \in [AuthRequests -> AskedRequests]
  <2>1. asked[r] \in AskedRequests /\ asked \in [AuthRequests -> AskedRequests]
    BY <1>2 DEF LimiterShape
  <2>2. [asked[r] EXCEPT !.step = "released"] \in AskedRequests
    BY <2>1 DEF AskedRequests
  <2> QED
    BY <1>0, <1>1, <2>1, <2>2 DEF AskedRequests
<1>4. When' = When
  BY <1>3 DEF When
<1>5. /\ DOMAIN windows' \subseteq DOMAIN windows
      /\ \A t \in DOMAIN windows' : windows'[t].array = windows[t].array
      /\ \A t \in DOMAIN windows \ {s} : t \in DOMAIN windows' /\ windows'[t] = windows[t]
      /\ windows' = [t \in DOMAIN windows' |-> windows'[t]]
      /\ \A t \in DOMAIN windows' : windows'[t] = [array |-> windows[t].array, at |-> windows'[t].at]
      /\ \/ ~Own /\ windows' = windows
         \/ Own /\ Len(times) = 1 /\ DOMAIN windows' = DOMAIN windows \ {s}
         \/ Own /\ DOMAIN windows' = DOMAIN windows /\ windows'[s].at = RemoveAt(times, LastIndex(times, asked[r].at))
  <2>1. windows = [t \in DOMAIN windows |-> windows[t]] /\ \A t \in DOMAIN windows : windows[t] \in [array : AuthRequests, at : Seq(Nat)]
    BY <1>2 DEF LimiterShape
  <2>2. CASE ~Own
    BY <1>0, <2>1, <2>2 DEF Release
  <2>3. CASE Own /\ Len(times) = 1
    <3>1. windows' = Without({s})
      BY <1>0, <2>3 DEF Release
    <3>2. windows' = [t \in DOMAIN windows \ {s} |-> windows[t]]
      BY <3>1 DEF Without
    <3> QED
      BY <2>1, <2>3, <3>2
  <2>4. CASE Own /\ Len(times) # 1
    <3>1. windows' = [windows EXCEPT ![s].at = RemoveAt(times, LastIndex(times, asked[r].at))]
      BY <1>0, <2>4 DEF Release
    <3>2. windows' = [windows EXCEPT ![s] = [@ EXCEPT !.at = RemoveAt(times, LastIndex(times, asked[r].at))]]
      BY <3>1
    <3> QED
      BY <2>1, <2>4, <3>2
  <2> QED
    BY <2>2, <2>3, <2>4
<1>6. ASSUME Own
      PROVE  /\ s \in Slots /\ InOrder(times) /\ Events(s) = times
             /\ IsLive(asked[r].at) => r \in Counting(s)
             /\ ~IsLive(asked[r].at) => r \notin Counting(s)
  <2>1. s \in Slots /\ Events(s) = times
    BY <1>2, <1>6 DEF LimiterShape, Events
  <2>2. InOrder(times)
    BY <1>2, <2>1 DEF Exact
  <2>3. r \notin evicted
    BY <1>0, <1>2, <1>6 DEF EvictedHaveLeft
  <2> QED
    BY <1>0, <1>1, <2>1, <2>2, <2>3 DEF Counting
<1>12. ASSUME Own
       PROVE  /\ LastIndex(times, asked[r].at) \in 1 .. Len(times)
              /\ \E g : Pairs(Counting(s) \ {r}, When, RemoveAt(times, LastIndex(times, asked[r].at)), g)
  <2>1. PICK f : Pairs(Counting(s), When, times, f)
    BY <1>2, <1>6, <1>12 DEF Exact
  <2>2. asked[r].at \in ToSet(times) /\ When[r] = asked[r].at
    BY <1>12 DEF When
  <2> DEFINE t == asked[r].at
  <2>3. (IsLive(t) => r \in Counting(s) /\ When[r] = t) /\ (~IsLive(t) => r \notin Counting(s))
    BY <1>6, <1>12, <2>2
  <2>4. InOrder(times) /\ clock \in Nat
    BY <1>2, <1>6, <1>12
  <2>5. t \in ToSet(times)
    BY <2>2
  <2> HIDE DEF t, times, Own
  <2>6. /\ LastIndex(times, t) \in 1 .. Len(times)
        /\ \E g : Pairs(Counting(s) \ {r}, When, RemoveAt(times, LastIndex(times, t)), g)
    BY <2>1, <2>3, <2>4, <2>5, PairsRemoved
  <2> QED
    BY <2>6 DEF t
<1>7. ASSUME ~Own, NEW t \in Slots PROVE r \notin Counting(t)
  <2> SUFFICES ASSUME r \in Counting(t) PROVE FALSE
    OBVIOUS
  <2>1. t = s /\ s \in DOMAIN windows /\ windows[s].array = asked[r].array
    BY <1>0, <1>2 DEF Counting, CountingAreIn
  <2>2. PICK f : Pairs(Counting(s), When, times, f)
    BY <1>2, <2>1 DEF Exact, Events
  <2>3. f[r] \in 1 .. Len(times) /\ times[f[r]] = asked[r].at
    BY <2>1, <2>2 DEF Pairs, When, Alive
  <2>4. times \in Seq(Nat)
    BY <1>2, <2>1 DEF LimiterShape
  <2>5. asked[r].at \in ToSet(times)
    BY <2>3, <2>4 DEF ToSet
  <2> QED
    BY <1>7, <2>1, <2>5
<1> HIDE DEF Own
<1>8. \A t \in Slots : Counting(t)' = Counting(t) \ {r} /\ (t # s => r \notin Counting(t))
  BY <1>0, <1>1, <1>3 DEF Counting, IsLive
<1>9. \A t \in DOMAIN windows' : windows'[t].at \in Seq(Nat)
  <2> SUFFICES ASSUME NEW t \in DOMAIN windows' PROVE windows'[t].at \in Seq(Nat)
    OBVIOUS
  <2>1. CASE windows'[t] = windows[t]
    BY <1>2, <1>5, <2>1 DEF LimiterShape
  <2>2. CASE t = s /\ Own /\ windows'[s].at = RemoveAt(times, LastIndex(times, asked[r].at))
    BY <1>2, <1>6, <1>12, <2>2, RemovedArray DEF InOrder
  <2> QED
    BY <1>5, <2>1, <2>2
<1>10. LimiterShape'
  <2>1. \A t \in DOMAIN windows' : windows'[t] \in [array : AuthRequests, at : Seq(Nat)]
    BY <1>2, <1>5, <1>9 DEF LimiterShape
  <2> QED
    BY <1>1, <1>2, <1>3, <1>5, <2>1 DEF LimiterShape, AskedRequests
<1>11. ArraysAreOld'
  <2>1. \A q \in AuthRequests : asked[q].step # "none" => asked'[q].step # "none"
    BY <1>1, <1>3
  <2>2. \A t \in DOMAIN windows' : asked'[windows'[t].array].step # "none"
    BY <1>2, <1>5, <2>1 DEF ArraysAreOld, LimiterShape
  <2>3. ASSUME NEW q \in AuthRequests
        PROVE  IF asked'[q].step = "none" THEN asked'[q].array = q ELSE asked'[asked'[q].array].step # "none"
    <3>1. asked'[q].array = asked[q].array /\ asked[q].array \in AuthRequests /\ (asked'[q].step = "none" <=> asked[q].step = "none")
      BY <1>1, <1>2, <1>3 DEF LimiterShape, AskedRequests
    <3> QED
      BY <1>2, <2>1, <3>1 DEF ArraysAreOld
  <2> QED
    BY <2>2, <2>3 DEF ArraysAreOld
<1>13. EvictedHaveLeft'
  <2> SUFFICES ASSUME NEW q \in evicted
               PROVE  /\ asked'[q].step # "none"
                      /\ asked'[q].slot \in DOMAIN windows' => windows'[asked'[q].slot].array # asked'[q].array
    BY <1>1 DEF EvictedHaveLeft
  <2>1. /\ q \in AuthRequests /\ asked[q].step # "none"
        /\ asked[q].slot \in DOMAIN windows => windows[asked[q].slot].array # asked[q].array
    BY <1>2 DEF EvictedHaveLeft, LimiterShape
  <2>2. asked'[q].slot = asked[q].slot /\ asked'[q].array = asked[q].array /\ asked'[q].step # "none"
    <3>1. CASE q = r
      BY <1>0, <1>3, <3>1
    <3>2. CASE q # r
      BY <1>3, <2>1, <3>2
    <3> QED
      BY <3>1, <3>2
  <2> QED
    BY <1>5, <2>1, <2>2
<1>14. ASSUME NEW t \in Slots PROVE Exact(t)'
  <2>1. CASE t # s \/ ~Own
    <3>1. Counting(t)' = Counting(t)
      BY <1>7, <1>8, <2>1
    <3>2. Events(t)' = Events(t)
      BY <1>5, <2>1 DEF Events
    <3>3. \A q \in Counting(t) : asked'[q].at = asked[q].at
      BY <1>3 DEF Counting
    <3> QED
      BY <1>1, <1>2, <3>1, <3>2, <3>3, ExactStays
  <2>2. CASE t = s /\ Own
    <3> DEFINE less == RemoveAt(times, LastIndex(times, asked[r].at))
    <3>1. InOrder(less) /\ Len(less) = Len(times) - 1 /\ \E g : Pairs(Counting(s) \ {r}, When, less, g)
      BY <1>2, <1>6, <1>12, <2>2, RemovedArray
    <3>2. Events(s)' = less
      <4>1. CASE Len(times) = 1 /\ DOMAIN windows' = DOMAIN windows \ {s}
        <5>1. less = <<>>
          BY <3>1, <4>1, EmptySeq DEF InOrder
        <5> QED
          BY <4>1, <5>1 DEF Events
      <4>2. CASE DOMAIN windows' = DOMAIN windows /\ windows'[s].at = less
        BY <2>2, <4>2 DEF Events, Own
      <4> QED
        BY <1>5, <2>2, <4>1, <4>2
    <3> HIDE DEF less
    <3> QED
      BY <1>1, <1>4, <1>8, <2>2, <3>1, <3>2, ExactAfter
  <2> QED
    BY <2>1, <2>2
<1>15. CountingAreIn'
  <2> SUFFICES ASSUME NEW t \in Slots, NEW q \in Counting(t)'
               PROVE  t \in DOMAIN windows' /\ windows'[t].array = asked'[q].array
    BY DEF CountingAreIn
  <2>1. q \in Counting(t) /\ q \in AuthRequests \ {r}
    BY <1>8 DEF Counting
  <2>2. t \in DOMAIN windows /\ windows[t].array = asked[q].array /\ asked'[q].array = asked[q].array
    BY <1>2, <1>3, <2>1 DEF CountingAreIn
  <2>3. t \in DOMAIN windows'
    <3> SUFFICES ASSUME t \notin DOMAIN windows' PROVE FALSE
      OBVIOUS
    <3>1. Events(t)' = <<>>
      BY DEF Events
    <3>2. PICK f : Pairs(Counting(t), When, Events(t), f)'
      BY <1>14 DEF Exact
    <3>3. Pairs(Counting(t)', When', <<>>, f)
      BY <1>1, <3>1, <3>2 DEF Pairs, Alive, IsLive
    <3>4. Counting(t)' = {}
      BY <3>3, PairsNone
    <3> QED
      BY <3>4
  <2> QED
    BY <1>5, <2>2, <2>3
<1> QED
  BY <1>10, <1>11, <1>13, <1>14, <1>15 DEF LimiterInv, Exact


LEMMA OutcomeKeepsCounts ==
  ASSUME LimiterInv, NEW r \in AuthRequests, OutcomeCounts(r)
  PROVE  LimiterInv'
<1>1. /\ asked[r].step = "granted" /\ UNCHANGED <<clock, windows, evicted>>
      /\ asked' = [asked EXCEPT ![r].step = "counted"]
  BY DEF OutcomeCounts
<1>2. LimiterShape /\ ArraysAreOld /\ EvictedHaveLeft /\ CountingAreIn /\ clock \in Nat /\ \A t \in Slots : Exact(t)
  BY DEF LimiterInv, Exact, LimiterShape
<1>3. /\ asked'[r].step = "counted" /\ asked' \in [AuthRequests -> AskedRequests]
      /\ \A q \in AuthRequests \ {r} : asked'[q] = asked[q]
      /\ \A q \in AuthRequests : asked'[q].at = asked[q].at /\ asked'[q].array = asked[q].array
                                 /\ asked'[q].slot = asked[q].slot
  <2>1. asked[r] \in AskedRequests /\ asked \in [AuthRequests -> AskedRequests]
    BY <1>2 DEF LimiterShape
  <2>2. [asked[r] EXCEPT !.step = "counted"] \in AskedRequests
    BY <2>1 DEF AskedRequests
  <2>3. asked' = [asked EXCEPT ![r] = [@ EXCEPT !.step = "counted"]]
    BY <1>1
  <2> QED
    BY <2>1, <2>2, <2>3 DEF AskedRequests
<1>4. \A q \in AuthRequests : asked'[q].step = "none" <=> asked[q].step = "none"
  BY <1>1, <1>3
<1>5. LimiterShape'
  BY <1>1, <1>2, <1>3 DEF LimiterShape, AskedRequests
<1>6. \A q \in AuthRequests : asked[q].array \in AuthRequests
  BY <1>2 DEF LimiterShape, AskedRequests
<1>7. ArraysAreOld'
  <2>1. \A t \in DOMAIN windows : windows[t].array \in AuthRequests
    BY <1>2 DEF LimiterShape
  <2> QED
    BY <1>1, <1>2, <1>3, <1>4, <1>6, <2>1 DEF ArraysAreOld
<1>8. EvictedHaveLeft'
  BY <1>1, <1>2, <1>3, <1>4 DEF EvictedHaveLeft, LimiterShape
<1>9. ASSUME NEW t \in Slots PROVE Counting(t)' = Counting(t)
  BY <1>1, <1>3 DEF Counting, IsLive
<1>10. CountingAreIn'
  BY <1>1, <1>2, <1>3, <1>9 DEF CountingAreIn, Counting
<1>11. ASSUME NEW t \in Slots PROVE Exact(t)'
  <2>1. Events(t)' = Events(t) /\ \A q \in Counting(t) : asked'[q].at = asked[q].at
    BY <1>1, <1>3 DEF Events, Counting
  <2> QED
    BY <1>1, <1>2, <1>9, <2>1, ExactStays
<1> QED
  BY <1>5, <1>7, <1>8, <1>10, <1>11 DEF LimiterInv, Exact

LEMMA TickKeepsCounts ==
  ASSUME LimiterInv, ThrottleTicks
  PROVE  LimiterInv'
<1>1. clock' = clock + 1 /\ UNCHANGED <<windows, asked, evicted>>
  BY DEF ThrottleTicks
<1>2. LimiterShape /\ ArraysAreOld /\ EvictedHaveLeft /\ CountingAreIn /\ clock \in Nat /\ \A t \in Slots : Exact(t)
  BY DEF LimiterInv, Exact, LimiterShape
<1>3. LimiterShape' /\ ArraysAreOld' /\ EvictedHaveLeft'
  BY <1>1, <1>2 DEF LimiterShape, ArraysAreOld, EvictedHaveLeft, AskedRequests
<1>4. \A n \in Nat : IsLive(n)' => IsLive(n)
  BY <1>1, <1>2, ThrottleAssumption DEF IsLive
<1>5. \A q \in AuthRequests : asked[q].at \in Nat
  BY <1>2 DEF LimiterShape, AskedRequests
<1>6. ASSUME NEW t \in Slots
      PROVE  Counting(t)' = {q \in Counting(t) : IsLive(asked[q].at)'}
  BY <1>1, <1>4, <1>5 DEF Counting
<1>7. CountingAreIn'
  BY <1>1, <1>2, <1>6 DEF CountingAreIn
<1>8. ASSUME NEW t \in Slots PROVE Exact(t)'
  <2>1. PICK times, C : times = Events(t) /\ C = {q \in Counting(t) : IsLive(asked[q].at)'}
    OBVIOUS
  <2>2. InOrder(times) /\ Events(t)' = times /\ Counting(t)' = C /\ When' = When
    BY <1>1, <1>2, <1>6, <2>1 DEF Exact, Events, When
  <2>3. PICK f : Pairs(Counting(t), When, times, f)
    BY <1>2, <2>1 DEF Exact
  <2>4. \A i \in 1 .. Len(times) : times[i] \in Nat /\ times[i] <= clock
    BY <2>2 DEF InOrder
  <2>5. InOrder(Events(t))'
    <3>1. \A i \in 1 .. Len(times) : times[i] <= clock'
      BY <1>1, <1>2, <2>4
    <3> QED
      BY <2>2, <3>1 DEF InOrder
  <2>6. \A i : i \in Alive(times)' <=> i \in Alive(times) /\ IsLive(times[i])'
    BY <1>4, <2>4 DEF Alive
  <2>7. \A q \in Counting(t) : f[q] \in Alive(times) /\ times[f[q]] = asked[q].at /\ When[q] = asked[q].at
    BY <2>3 DEF Pairs, When, Counting
  <2> DEFINE g == [q \in C |-> f[q]]
  <2>8. g \in [C -> Alive(times)']
    BY <1>1, <2>1, <2>6, <2>7 DEF IsLive
  <2>9. \A q \in C : times[g[q]] = When'[q]
    BY <2>1, <2>2, <2>7
  <2>10. \A p, q \in C : g[p] = g[q] => p = q
    BY <2>1, <2>3 DEF Pairs
  <2>11. ASSUME NEW i \in Alive(times)' PROVE \E q \in C : g[q] = i
    <3>1. i \in Alive(times) /\ IsLive(times[i])'
      BY <2>6
    <3>2. PICK q \in Counting(t) : f[q] = i
      BY <2>3, <3>1 DEF Pairs
    <3>3. q \in C
      BY <1>1, <2>1, <2>7, <3>1, <3>2 DEF IsLive
    <3> QED
      BY <3>2, <3>3
  <2>12. Pairs(Counting(t), When, Events(t), g)'
    BY <2>2, <2>8, <2>9, <2>10, <2>11 DEF Pairs
  <2> QED
    BY <2>5, <2>12 DEF Exact
<1> QED
  BY <1>3, <1>7, <1>8 DEF LimiterInv, Exact

LEMMA LimiterInit == ThrottleInit => LimiterInv
<1> SUFFICES ASSUME ThrottleInit PROVE LimiterInv
  OBVIOUS
<1>1. DOMAIN windows = {} /\ clock = 0 /\ evicted = {} /\ asked = [r \in AuthRequests |-> NotAsked(r)]
  BY DEF ThrottleInit
<1>2. \A r \in AuthRequests : NotAsked(r) \in AskedRequests /\ NotAsked(r).step = "none" /\ NotAsked(r).array = r
  BY DEF NotAsked, AskedRequests
<1>3. LimiterShape /\ ArraysAreOld /\ EvictedHaveLeft
  <2>1. windows = [s \in DOMAIN windows |-> windows[s]]
    BY DEF ThrottleInit
  <2> QED
    BY <1>1, <1>2, <2>1 DEF LimiterShape, ArraysAreOld, EvictedHaveLeft
<1>4. \A s : Counting(s) = {}
  BY <1>1, <1>2 DEF Counting
<1>5. ASSUME NEW s \in Slots PROVE Exact(s)
  <2>1. Events(s) = <<>> /\ InOrder(<<>>)
    BY <1>1, UnexpiredNone DEF Events
  <2>2. Pairs({}, When, <<>>, [q \in {} |-> 0])
    BY DEF Pairs, Alive
  <2> QED
    BY <1>4, <2>1, <2>2 DEF Exact
<1> QED
  BY <1>3, <1>4, <1>5 DEF LimiterInv, Exact, CountingAreIn

LEMMA LimiterKept == LimiterInv /\ [ThrottleNext]_throttleVars => LimiterInv'
<1> SUFFICES ASSUME LimiterInv, [ThrottleNext]_throttleVars PROVE LimiterInv'
  OBVIOUS
<1>1. CASE UNCHANGED throttleVars
  <2>1. UNCHANGED <<clock, windows, keyCount, asked, evicted>>
    BY <1>1 DEF throttleVars
  <2>2. LimiterShape' /\ ArraysAreOld' /\ EvictedHaveLeft'
    BY <2>1 DEF LimiterInv, LimiterShape, ArraysAreOld, EvictedHaveLeft
  <2>3. \A s : Counting(s)' = Counting(s) /\ Events(s)' = Events(s)
    BY <2>1 DEF Counting, Events, IsLive
  <2>4. CountingAreIn'
    BY <2>1, <2>3 DEF LimiterInv, CountingAreIn
  <2>5. \A s \in Slots : Exact(s)'
    BY <2>1, <2>3, ExactStays DEF LimiterInv, Exact
  <2> QED
    BY <2>2, <2>4, <2>5 DEF LimiterInv, Exact
<1>2. ASSUME NEW r \in AuthRequests, NEW s \in Slots, TryAcquire(r, s) PROVE LimiterInv'
  BY <1>2, RefusalKeepsCounts, GrantKeepsCounts
<1>3. ASSUME NEW r \in AuthRequests, Release(r) PROVE LimiterInv'
  BY <1>3, ReleaseKeepsCounts
<1>4. ASSUME NEW r \in AuthRequests, OutcomeCounts(r) PROVE LimiterInv'
  BY <1>4, OutcomeKeepsCounts
<1>5. CASE ThrottleTicks
  BY <1>5, TickKeepsCounts
<1> QED
  BY <1>1, <1>2, <1>3, <1>4, <1>5 DEF ThrottleNext

LEMMA LimiterInvMeans == LimiterInv => CountsAreExact
<1> SUFFICES ASSUME LimiterInv, NEW s \in Slots PROVE Len(Pruned(s)) = Cardinality(Counting(s))
  BY DEF CountsAreExact
<1>1. LimiterShape /\ Exact(s)
  BY DEF LimiterInv, Exact
<1> QED
  BY <1>1, RecentEvents

(* clientIpThrottle: the events counted against an address are exactly the *)
(* requests of the window whose outcome counts or is still open, for any   *)
(* number of requests, addresses and ticks: what a reservation releases    *)
(* after expiry or eviction uncounts nothing of the array that came after. *)
THEOREM LimiterCountsExactly == ThrottleSpec => []CountsAreExact
<1> QED
  BY LimiterInit, LimiterKept, LimiterInvMeans, PTL DEF ThrottleSpec

-----------------------------------------------------------------------------
(* The end of a tenant: what an erasure leaves. *)

Early == {"idle", "keys", "jobs", "bytes"}
Ending == {"items", "databases", "directories", "finalise"}

\* The bytes that are there came after the directories were removed, or that is still to come.
BytesAreLate ==
    bytes \subseteq lateBytes \/ (tstate # "gone" /\ \A p \in PurgeRuns : purging[p] \in Early)

\* ... and so the partitions, after the pass over them.
PartitionsAreLate ==
    \/ parts \subseteq lateDbs
    \/ /\ tstate # "gone" /\ parts \subseteq dbs
       /\ \A p \in PurgeRuns : purging[p] \in Early \cup {"partitions"}

\* A database found with items keeps its row until a run has dropped its partition.
FoundAreDropped ==
    ~lockLost =>
      /\ \A p \in PurgeRuns : purging[p] # "idle" => purgeLock = p
      /\ parts \cap found \subseteq dbs
      /\ (tstate = "gone" \/ \E p \in PurgeRuns : purging[p] \in Ending) => parts \cap found = {}

PurgeInv ==
    /\ PurgeTypeOK /\ items \subseteq dbs
    /\ tstate = "active" => \A p \in PurgeRuns : purging[p] = "idle"
    /\ ErasedMeansNoRows /\ BytesAreLate /\ PartitionsAreLate /\ FoundAreDropped

LEMMA PurgeInitially == PurgeInit => PurgeInv
<1> SUFFICES ASSUME PurgeInit PROVE PurgeInv
  OBVIOUS
<1> USE DEF PurgeInit
<1>1. PICK d \in TenantDbs : dbs = {d} /\ parts = {d} /\ items = {d}
  OBVIOUS
<1>2. \A p \in PurgeRuns : purging[p] = "idle"
  OBVIOUS
<1>3. PurgeTypeOK
  <2>1. lateWrites \in 0 .. MaxLateWrites /\ purgeFaults \in 0 .. MaxPurgeFaults
    BY PurgeAssumption
  <2>2. purging \in [PurgeRuns -> PurgeSteps]
    BY DEF PurgeSteps
  <2> QED
    BY <1>1, <2>1, <2>2 DEF PurgeTypeOK
<1>4. BytesAreLate /\ PartitionsAreLate /\ FoundAreDropped
  BY <1>1, <1>2 DEF BytesAreLate, PartitionsAreLate, FoundAreDropped, Early, Ending
<1> QED
  BY <1>1, <1>2, <1>3, <1>4 DEF PurgeInv, ErasedMeansNoRows

LEMMA LateWritersKeepPurge ==
  ASSUME PurgeInv,
         \/ DeleteTenant \/ LateKeyOrJob
         \/ \E b \in TenantBlobs : StoreBytes(b) \/ CreateBlobRow(b) \/ WriterDies(b)
         \/ \E d \in TenantDbs : LateDatabase(d) \/ LateItem(d)
  PROVE  PurgeInv'
<1> USE PurgeAssumption DEF PurgeInv, PurgeTypeOK, ErasedMeansNoRows, NothingRemains, BytesAreLate, PartitionsAreLate,
            FoundAreDropped, writerVars, purgeHistory, tenantRows
<1>1. CASE DeleteTenant
  BY <1>1 DEF DeleteTenant, Early, Ending
<1>2. CASE LateKeyOrJob
  BY <1>2 DEF LateKeyOrJob, LateWrite
<1>3. ASSUME NEW b \in TenantBlobs, StoreBytes(b) PROVE PurgeInv'
  BY <1>3 DEF StoreBytes
<1>4. ASSUME NEW b \in TenantBlobs, CreateBlobRow(b) PROVE PurgeInv'
  BY <1>4 DEF CreateBlobRow
<1>5. ASSUME NEW b \in TenantBlobs, WriterDies(b) PROVE PurgeInv'
  BY <1>5 DEF WriterDies
<1>6. ASSUME NEW d \in TenantDbs, LateDatabase(d) PROVE PurgeInv'
  BY <1>6 DEF LateDatabase, LateWrite
<1>7. ASSUME NEW d \in TenantDbs, LateItem(d) PROVE PurgeInv'
  BY <1>7 DEF LateItem, LateWrite
<1> QED
  BY <1>1, <1>2, <1>3, <1>4, <1>5, <1>6, <1>7

LEMMA PurgeRunsKeepPurge ==
  ASSUME PurgeInv, NEW p \in PurgeRuns, PurgeStep(p) \/ PurgeStops(p) \/ LockConnectionLost(p)
  PROVE  PurgeInv'
<1> USE PurgeAssumption DEF PurgeInv, PurgeTypeOK, PurgeSteps, ErasedMeansNoRows, NothingRemains, BytesAreLate, PartitionsAreLate,
            FoundAreDropped, writerVars, purgeHistory, tenantRows, Goto, Free, Early, Ending
<1>1. CASE PurgeUnderLock(p)
  BY <1>1 DEF PurgeUnderLock
<1>2. CASE PurgeKeys(p)
  BY <1>2 DEF PurgeKeys
<1>3. CASE PurgeQueuedJobs(p)
  BY <1>3 DEF PurgeQueuedJobs
<1>4. CASE PurgeBytes(p)
  BY <1>4 DEF PurgeBytes
<1>5. CASE PurgePartitions(p)
  BY <1>5 DEF PurgePartitions
<1>6. CASE DeleteBlobRows(p)
  BY <1>6 DEF DeleteBlobRows
<1>7. CASE DeleteItems(p)
  BY <1>7 DEF DeleteItems
<1>8. CASE DeleteDatabases(p)
  BY <1>8 DEF DeleteDatabases
<1>9. CASE RemoveTenantDirectories(p)
  BY <1>9 DEF RemoveTenantDirectories
<1>10. CASE Finalise(p)
  BY <1>10 DEF Finalise
<1>11. CASE PurgeStops(p)
  BY <1>11 DEF PurgeStops
<1>12. CASE LockConnectionLost(p)
  BY <1>12 DEF LockConnectionLost
<1> QED
  BY <1>1, <1>2, <1>3, <1>4, <1>5, <1>6, <1>7, <1>8, <1>9, <1>10, <1>11, <1>12 DEF PurgeStep

LEMMA PurgeStays ==
  ASSUME PurgeInv, UNCHANGED purgeVars
  PROVE  PurgeInv'
  BY DEF PurgeInv, PurgeTypeOK, ErasedMeansNoRows, NothingRemains, BytesAreLate, PartitionsAreLate, FoundAreDropped,
     purgeVars

LEMMA PurgeKept == PurgeInv /\ [PurgeNext]_purgeVars => PurgeInv'
  BY LateWritersKeepPurge, PurgeRunsKeepPurge, PurgeStays DEF PurgeNext

LEMMA PurgeInvMeans == PurgeInv => ErasedMeansNoRows /\ ErasedMeansNoBytes /\ ErasedMeansNoPartitions
  BY DEF PurgeInv, ErasedMeansNoBytes, ErasedMeansNoPartitions, BytesAreLate, PartitionsAreLate, FoundAreDropped

(* The end of a tenant (tenantPurgeJob.ts): once its tombstone is written  *)
(* no row of it is left, no file but one stored after the directories were *)
(* removed, and no partition but that of a database created after the last *)
(* pass, however late writers, interrupted and overlapping runs cross.     *)
THEOREM ErasureIsWhole == PurgeSpec => [](ErasedMeansNoRows /\ ErasedMeansNoBytes /\ ErasedMeansNoPartitions)
<1>1. PurgeInv => ErasedMeansNoRows /\ ErasedMeansNoBytes /\ ErasedMeansNoPartitions
  BY PurgeInvMeans
<1> QED
  BY <1>1, PurgeInitially, PurgeKept, PTL DEF PurgeSpec
-----------------------------------------------------------------------------
(* The export of a tenant's data. *)

Building == {"writing", "written", "discardInterrupted", "discardFailed", "requeue", "markFailed"}

\* What the row and the job say at each step of the task.
TaskHasRow(e) ==
    /\ build[e] \in {"writing", "written", "discardInterrupted", "requeue"} => export[e] = "running"
    /\ build[e] \in {"discardFailed", "markFailed"} =>
         export[e] = "running" \/ (export[e] = "ready" /\ e \in lostAnswer)
    /\ build[e] = "deleteFile" => export[e] = "swept"
    /\ job[e] = "queued" => export[e] = "pending" /\ build[e] = "idle"
    /\ export[e] = "none" => archive[e] = "none" /\ job[e] = "none" /\ build[e] = "idle"
    /\ export[e] = "pending" => job[e] = "queued" \/ e \in unstarted
    /\ export[e] = "running" => build[e] \in Building \/ e \in unstarted \cup died

\* A task that is past its file has a whole one, or has deleted it.
FileIsKnown(e) ==
    /\ build[e] = "written" => archive[e] = "whole"
    /\ build[e] \in {"requeue", "markFailed"} => archive[e] = "none" \/ e \in leaked

ExportInv ==
    /\ ExportTypeOK /\ ReadyHasArchive /\ NoLeakedArchives
    /\ \A e \in Exports : TaskHasRow(e) /\ FileIsKnown(e)
    /\ \A q \in Requesters : request[q] = "insert" => attempt[q] < RequestAttempts

LEMMA ExportInitially == ExportInit => ExportInv
  BY ExportAssumption DEF ExportInit, ExportInv, ExportTypeOK, ReadyHasArchive, NoLeakedArchives, TaskHasRow, FileIsKnown

LEMMA RequestsKeepExports ==
  ASSUME ExportInv, NEW q \in Requesters, InsertExport(q) \/ ReadActive(q)
  PROVE  ExportInv'
<1> USE ExportAssumption DEF ExportInv, ExportTypeOK, ReadyHasArchive, NoLeakedArchives, TaskHasRow, FileIsKnown,
            requestVars, exportHistory
<1>1. CASE InsertExport(q)
  BY <1>1 DEF InsertExport, SetExport, SetJob
<1>2. CASE ReadActive(q)
  BY <1>2 DEF ReadActive
<1> QED
  BY <1>1, <1>2

LEMMA TasksKeepExports ==
  ASSUME ExportInv, NEW e \in Exports,
         \/ ExportWork(e) \/ StartFails(e) \/ WriteInterrupted(e) \/ WriteFails(e) \/ MarkReadyFails(e)
         \/ ExporterDies(e) \/ DeleteExpiredExport(e)
  PROVE  ExportInv'
<1> USE ExportAssumption DEF ExportInv, ExportTypeOK, ReadyHasArchive, NoLeakedArchives, TaskHasRow, FileIsKnown,
            Building, requestVars, exportHistory, SetExport, SetJob, SetBuild, Fault
<1>1. CASE StartExport(e)
  BY <1>1 DEF StartExport
<1>2. CASE WriteEntry(e)
  BY <1>2 DEF WriteEntry
<1>3. CASE MarkReady(e)
  BY <1>3 DEF MarkReady
<1>4. CASE DeletePartialArchive(e)
  BY <1>4 DEF DeletePartialArchive
<1>5. CASE RequeueInterruptedExport(e)
  BY <1>5 DEF RequeueInterruptedExport
<1>6. CASE MarkFailed(e)
  BY <1>6 DEF MarkFailed
<1>7. CASE DeleteExpiredFile(e)
  BY <1>7 DEF DeleteExpiredFile
<1>8. CASE WriteInterrupted(e)
  BY <1>8 DEF WriteInterrupted
<1>9. CASE WriteFails(e)
  BY <1>9 DEF WriteFails
<1>10. CASE MarkReadyFails(e)
  BY <1>10 DEF MarkReadyFails
<1>11. CASE ExporterDies(e)
  BY <1>11 DEF ExporterDies
<1>12. CASE DeleteExpiredExport(e)
  BY <1>12 DEF DeleteExpiredExport
<1>13. CASE StartFails(e)
  BY <1>13 DEF StartFails
<1> QED
  BY <1>1, <1>2, <1>3, <1>4, <1>5, <1>6, <1>7, <1>8, <1>9, <1>10, <1>11, <1>12, <1>13 DEF ExportWork

LEMMA ExportStays ==
  ASSUME ExportInv, UNCHANGED exportVars
  PROVE  ExportInv'
  BY DEF ExportInv, ExportTypeOK, ReadyHasArchive, NoLeakedArchives, TaskHasRow, FileIsKnown, exportVars

LEMMA ExportKept == ExportInv /\ [ExportNext]_exportVars => ExportInv'
  BY RequestsKeepExports, TasksKeepExports, ExportStays DEF ExportNext

LEMMA ExportInvMeans == ExportInv => ReadyHasArchive /\ StrandedExportLostItsTask /\ NoLeakedArchives
  BY DEF ExportInv, TaskHasRow, StrandedExportLostItsTask, ActiveExports, Active, Building

(* A tenant's export (tenantExportJob.ts): one that can be downloaded has  *)
(* its whole file, one that keeps the tenant's active place without a task *)
(* lost it, and no file is left without a row, but by the deaths, failed   *)
(* deletes and lost answers that the properties name.                      *)
THEOREM ExportsAreTrue == ExportSpec => [](ReadyHasArchive /\ StrandedExportLostItsTask /\ NoLeakedArchives)
<1>1. ExportInv => ReadyHasArchive /\ StrandedExportLostItsTask /\ NoLeakedArchives
  BY ExportInvMeans
<1> QED
  BY <1>1, ExportInitially, ExportKept, PTL DEF ExportSpec

-----------------------------------------------------------------------------
(* The health checks: what a tick holds and what it has told. *)

Levels == {"low", "middle", "high"}

TickRecs ==
    [at : 1..Len(Families), doing : {"rest", "failed", "read", "orphan", "lock", "upsert", "notify"},
     saw : {"ok", "alerting", "absent", "low", "middle", "high"}, was : Statuses, to : SUBSET Operators, missed : BOOLEAN]

\* A tick is at its checks with a reading of the kind they take; a mail check has nobody to tell.
ReadingsFit ==
    \A t \in Ticks :
      /\ tick[t].doing \in {"lock", "upsert", "notify"} =>
           tick[t].saw \in (IF Current(t) = "backlog" THEN Levels ELSE {"ok", "alerting"})
      /\ Doing(t, "notify") /\ Current(t) = "mail" => tick[t].to = {}
      /\ \A o \in Operators : <<"mail", o>> \notin told[t]

\* A row has one tick at most, which knows its status.
RowsHeld ==
    /\ \A k \in Checks : \A t, u \in Ticks : HoldsRow(t, k) /\ HoldsRow(u, k) => t = u
    /\ \A t \in Ticks :
         /\ tick[t].doing \in {"upsert", "notify"} /\ tick[t].was # "missing" => check[Current(t)] = tick[t].was
         /\ Doing(t, "notify") => tick[t].was # "alerting"

LowIsSeen == world.level = "low" => wasLow

ToldOf(k, t, o) == IF <<k, o>> \in told[t] THEN 1 ELSE 0
Notifies(k, t) == Doing(t, "notify") /\ Current(t) = k

\* The notices of the present fault: all of them once the row says so; before that the ones
\* of the one tick that is writing them, or of the one job that began to and was undone.
Counted(k) ==
    /\ \A i, j \in rolled[k] : i = j
    /\ \A o \in Operators : notices[k][o] \in 0 .. 1
    /\ \A t \in Ticks : Notifies(k, t) => tick[t].was = check[k]
    /\ check[k] = "alerting" => \A o \in Operators : notices[k][o] = 1
    /\ check[k] # "alerting" =>
         /\ \A t \in Ticks : Notifies(k, t) =>
              /\ rolled[k] \subseteq {t}
              /\ \A o \in Operators : notices[k][o] = ToldOf(k, t, o)
              /\ ~tick[t].missed /\ k # "mail" => \A o \in Operators \ tick[t].to : <<k, o>> \in told[t]
         /\ \A t \in Ticks : t \in rolled[k] => \A o \in Operators : notices[k][o] = ToldOf(k, t, o)
         /\ rolled[k] = {} /\ (\A t \in Ticks : ~Notifies(k, t)) => \A o \in Operators : notices[k][o] = 0

\* What every step may rely on.
TicksAreSound == HTypeOK /\ ReadingsFit /\ RowsHeld /\ LowIsSeen /\ pruning # "picked"
HInv == TicksAreSound /\ (pruning = "held" => world.job = "old") /\ \A k \in Checks \ excused : Counted(k)

LEMMA RecordsMoved ==
  ASSUME NEW r \in TickRecs
  PROVE  /\ \A d \in {"rest", "failed", "read", "orphan", "lock", "upsert", "notify"} :
              [r EXCEPT !.doing = d] \in TickRecs /\ [r EXCEPT !.doing = d].doing = d
         /\ \A w \in Statuses : [r EXCEPT !.doing = "upsert", !.was = w] \in TickRecs
         /\ \A os \in SUBSET Operators : [r EXCEPT !.doing = "notify", !.to = os] \in TickRecs
         /\ \A os \in SUBSET Operators : [r EXCEPT !.to = os] \in TickRecs
         /\ \A os \in SUBSET Operators : [r EXCEPT !.to = os, !.missed = TRUE] \in TickRecs
  BY DEF TickRecs

LEMMA RestIsRecord == CheckResting \in TickRecs
<1>1. 1 \in 1 .. Len(Families)
  BY HealthAssumption
<1> QED
  BY <1>1 DEF TickRecs, CheckResting, Statuses

LEMMA TickIsRecord ==
  ASSUME HTypeOK, NEW t \in Ticks
  PROVE  tick[t] \in TickRecs
  BY DEF HTypeOK, TickRecs

LEMMA HealthInitially == HInit => HInv
<1> SUFFICES ASSUME HInit PROVE HInv
  OBVIOUS
<1>1. Families \in Seq(Checks) /\ Len(Families) >= 1
  BY HealthAssumption
<1>2. HTypeOK
  <2>1. CheckResting.at \in 1 .. Len(Families)
    BY <1>1 DEF CheckResting
  <2>2. tick \in [Ticks -> TickRecs]
    BY <2>1 DEF HInit, CheckResting, Statuses, TickRecs
  <2>3. world \in Worlds /\ check \in [Checks -> Statuses] /\ notices \in [Checks -> [Operators -> 0..2]]
    BY DEF HInit, Worlds, Statuses
  <2> QED
    BY <2>2, <2>3 DEF HInit, HTypeOK, TickRecs
<1>3. ReadingsFit /\ RowsHeld /\ LowIsSeen /\ \A k \in Checks : Counted(k)
  BY DEF HInit, ReadingsFit, RowsHeld, LowIsSeen, Counted, HoldsRow, Notifies, Doing, CheckResting, ToldOf
<1> QED
  BY <1>2, <1>3 DEF HInit, HInv, TicksAreSound

\* What a tick does to its record, and what that leaves to the others.
StepsOn(t, left) ==
    IF tick[t].at = Len(Families)
    THEN /\ tick' = [tick EXCEPT ![t] = CheckResting]
         /\ told' = [told EXCEPT ![t] = {}]
         /\ rolled' = [k \in Checks |-> IF t \in left[k] THEN (left[k] \ {t}) \cup {Ended} ELSE left[k]]
    ELSE /\ tick' = [tick EXCEPT ![t] = [CheckResting EXCEPT !.at = tick[t].at + 1, !.doing = "read"]]
         /\ rolled' = left /\ told' = told

SteppedOn(t, left) ==
    /\ tick' \in [Ticks -> TickRecs]
    /\ \A u \in Ticks \ {t} : tick'[u] = tick[u] /\ told'[u] = told[u]
    /\ tick'[t].doing \in {"rest", "read"}
    /\ told' \in [Ticks -> SUBSET (Checks \X Operators)]
    /\ told'[t] \subseteq told[t]
    /\ rolled' \in [Checks -> SUBSET (Ticks \cup {Ended})]
    /\ \A k \in Checks :
         \/ rolled'[k] = left[k] /\ told'[t] = told[t]
         \/ rolled'[k] = IF t \in left[k] THEN (left[k] \ {t}) \cup {Ended} ELSE left[k]

LEMMA AdvanceMoves ==
  ASSUME HTypeOK, NEW t \in Ticks
  PROVE  \A left \in [Checks -> SUBSET (Ticks \cup {Ended})] : StepsOn(t, left) => SteppedOn(t, left)
<1> SUFFICES ASSUME NEW left \in [Checks -> SUBSET (Ticks \cup {Ended})], StepsOn(t, left)
             PROVE  SteppedOn(t, left)
  OBVIOUS
<1>1. Families \in Seq(Checks) /\ Len(Families) >= 1 /\ Len(Families) \in Nat
  BY HealthAssumption
<1>2. tick[t].at \in 1 .. Len(Families)
  BY DEF HTypeOK
<1>3. CASE tick[t].at = Len(Families)
  <2>1. /\ tick' = [tick EXCEPT ![t] = CheckResting]
        /\ told' = [told EXCEPT ![t] = {}]
        /\ rolled' = [k \in Checks |-> IF t \in left[k] THEN (left[k] \ {t}) \cup {Ended} ELSE left[k]]
    BY <1>3 DEF StepsOn
  <2> QED
    BY <2>1, <1>1 DEF HTypeOK, SteppedOn, CheckResting, Statuses, TickRecs
<1>4. CASE tick[t].at # Len(Families)
  <2>1. /\ tick' = [tick EXCEPT ![t] = [CheckResting EXCEPT !.at = tick[t].at + 1, !.doing = "read"]]
        /\ rolled' = left /\ told' = told
    BY <1>4 DEF StepsOn
  <2>2. tick[t].at + 1 \in 1 .. Len(Families)
    BY <1>1, <1>2, <1>4
  <2> QED
    BY <2>1, <2>2 DEF HTypeOK, SteppedOn, CheckResting, Statuses, TickRecs
<1> QED
  BY <1>3, <1>4

LEMMA CurrentIsCheck ==
  ASSUME HTypeOK, NEW t \in Ticks
  PROVE  Current(t) \in Checks
  BY HealthAssumption DEF HTypeOK, Current

\* A tick that leaves a check, or a job that ends, forgets nothing of it.
LEMMA OthersStayCounted ==
  ASSUME HTypeOK, NEW t \in Ticks, NEW k \in Checks, Counted(k),
         check'[k] = check[k], notices'[k] = notices[k],
         \A u \in Ticks \ {t} : tick'[u] = tick[u] /\ told'[u] = told[u],
         ~Notifies(k, t), ~Notifies(k, t)',
         \/ rolled'[k] = rolled[k] /\ \A o \in Operators : <<k, o>> \in told'[t] <=> <<k, o>> \in told[t]
         \/ rolled'[k] = IF t \in rolled[k] THEN (rolled[k] \ {t}) \cup {Ended} ELSE rolled[k]
  PROVE  Counted(k)'
<1>1. rolled[k] \subseteq Ticks \cup {Ended} /\ Ended \notin Ticks
  BY HealthAssumption DEF HTypeOK
<1>2. \A u \in Ticks \ {t} : /\ Notifies(k, u)' <=> Notifies(k, u)
                             /\ \A o \in Operators : ToldOf(k, u, o)' = ToldOf(k, u, o)
  BY DEF Notifies, Doing, Current, ToldOf
<1>3. \A i, j \in rolled'[k] : i = j
  BY <1>1 DEF Counted
<1>4. ASSUME check[k] # "alerting", NEW u \in Ticks, Notifies(k, u)'
      PROVE  /\ rolled'[k] \subseteq {u}
             /\ \A o \in Operators : notices[k][o] = ToldOf(k, u, o)'
             /\ ~tick'[u].missed /\ k # "mail" => \A o \in Operators \ tick'[u].to : <<k, o>> \in told'[u]
  BY <1>1, <1>2, <1>4 DEF Counted
<1>7. \A u \in Ticks : Notifies(k, u)' => tick'[u].was = check[k]
  BY <1>2 DEF Counted
<1>5. ASSUME check[k] # "alerting", NEW u \in Ticks, u \in rolled'[k]
      PROVE  \A o \in Operators : notices[k][o] = ToldOf(k, u, o)'
  <2>1. u \in rolled[k] /\ \A o \in Operators : <<k, o>> \in told'[u] <=> <<k, o>> \in told[u]
    BY <1>5, <1>1
  <2> QED
    BY <2>1, <1>5 DEF Counted, ToldOf
<1>6. ASSUME check[k] # "alerting", rolled'[k] = {}, \A u \in Ticks : ~Notifies(k, u)'
      PROVE  \A o \in Operators : notices[k][o] = 0
  <2>1. rolled[k] = {}
    BY <1>6
  <2>2. \A u \in Ticks : ~Notifies(k, u)
    BY <1>6, <1>2
  <2> QED
    BY <2>1, <2>2, <1>6 DEF Counted
<1> QED
  BY <1>3, <1>4, <1>5, <1>6, <1>7 DEF Counted

\* A tick that stays off the rows disturbs none of what the rows' ticks know.
LEMMA OthersKeepRows ==
  ASSUME HTypeOK, RowsHeld, NEW t \in Ticks,
         \A u \in Ticks \ {t} : tick'[u] = tick[u],
         tick'[t].doing \notin {"upsert", "notify"},
         \A u \in Ticks \ {t} :
            tick[u].doing \in {"upsert", "notify"} /\ tick[u].was # "missing" => check'[Current(u)] = check[Current(u)]
  PROVE  RowsHeld'
<1>1. \A u \in Ticks \ {t} : Current(u)' = Current(u) /\ \A k \in Checks : HoldsRow(u, k)' <=> HoldsRow(u, k)
  BY DEF HoldsRow, Current, Doing
<1>2. \A k \in Checks : ~HoldsRow(t, k)'
  BY DEF HoldsRow, Doing
<1> QED
  BY <1>1, <1>2 DEF RowsHeld, Doing

\* The observed system changes beside the checks.
LEMMA WorldKeepsHealth ==
  ASSUME HInv, WorldChanges \/ ReEnqueueDeadJob \/ SelectPrunable \/ CompletePruned
  PROVE  HInv'
<1>1. UNCHANGED <<check, tick, told, notices, rolled, excused>>
  BY DEF WorldChanges, ReEnqueueDeadJob, SelectPrunable, CompletePruned
<1>2. HTypeOK'
  <2>1. world' \in Worlds /\ wasLow' \in BOOLEAN /\ pruning' \in {"no", "picked", "held"}
    BY DEF HInv, TicksAreSound, HTypeOK, WorldChanges, ReEnqueueDeadJob, SelectPrunable, CompletePruned, Worlds
  <2> QED
    BY <2>1, <1>1 DEF HInv, TicksAreSound, HTypeOK
<1>3. ReadingsFit' /\ RowsHeld'
  BY <1>1 DEF HInv, TicksAreSound, ReadingsFit, RowsHeld, HoldsRow, Current, Doing
<1>4. LowIsSeen'
  BY DEF HInv, TicksAreSound, HTypeOK, LowIsSeen, WorldChanges, ReEnqueueDeadJob, SelectPrunable, CompletePruned, Worlds
<1>5. (pruning' = "held" => world'.job = "old") /\ pruning' # "picked"
  BY DEF HInv, TicksAreSound, HTypeOK, WorldChanges, ReEnqueueDeadJob, SelectPrunable, CompletePruned, Worlds, JobMoves
<1>6. \A k \in Checks \ excused' : Counted(k)'
  BY <1>1 DEF HInv, Counted, Notifies, Current, Doing, ToldOf
<1> QED
  BY <1>2, <1>3, <1>4, <1>5, <1>6 DEF HInv, TicksAreSound

\* A tick starts, ends for good, and reads its sources, without a row.
LEMMA StartsKeepHealth ==
  ASSUME HInv, NEW t \in Ticks, StartTick(t) \/ GiveUpTick(t) \/ ReadSources(t)
  PROVE  HInv'
<1> USE DEF HInv, TicksAreSound
<1>0. Families \in Seq(Checks) /\ Len(Families) >= 1 /\ Len(Families) \in Nat
  BY HealthAssumption
<1>1. UNCHANGED <<world, check, notices, excused, pruning, wasLow>>
  BY DEF StartTick, GiveUpTick, ReadSources
<1>2. /\ \A u \in Ticks \ {t} : tick'[u] = tick[u] /\ told'[u] = told[u]
      /\ told'[t] \subseteq told[t] /\ told' \in [Ticks -> SUBSET (Checks \X Operators)]
      /\ rolled' \in [Checks -> SUBSET (Ticks \cup {Ended})]
      /\ \/ rolled' = rolled /\ told' = told
         \/ \A k \in Checks : rolled'[k] = IF t \in rolled[k] THEN (rolled[k] \ {t}) \cup {Ended} ELSE rolled[k]
  <2>1. CASE StartTick(t) \/ ReadSources(t)
    BY <2>1 DEF StartTick, ReadSources, Enter, HTypeOK
  <2>2. CASE GiveUpTick(t)
    BY <2>2 DEF GiveUpTick, EndsJob, Enter, HTypeOK, JobForgotten
  <2> QED
    BY <2>1, <2>2
<1>3. tick[t].doing \in {"rest", "failed", "read"}
  BY DEF StartTick, GiveUpTick, ReadSources, Doing, HTypeOK
<1>4. /\ tick' \in [Ticks -> TickRecs]
      /\ tick'[t].doing \notin {"upsert", "notify"}
      /\ tick'[t].doing = "lock" => Current(t)' = Current(t)
           /\ tick'[t].saw \in (IF Current(t) = "backlog" THEN Levels ELSE {"ok", "alerting"})
  <2>1. CASE StartTick(t)
    <3>1. tick' = [tick EXCEPT ![t] = [CheckResting EXCEPT !.doing = "read"]]
      BY <2>1 DEF StartTick, Enter
    <3>2. [CheckResting EXCEPT !.doing = "read"] \in TickRecs /\ [CheckResting EXCEPT !.doing = "read"].doing = "read"
      BY RecordsMoved, RestIsRecord
    <3> QED
      BY <3>1, <3>2 DEF HTypeOK, TickRecs
  <2>2. CASE GiveUpTick(t)
    BY <2>2, <1>0 DEF GiveUpTick, EndsJob, Enter, HTypeOK, CheckResting, Statuses, TickRecs
  <2>3. CASE ReadSources(t)
    <3>1. Observed(Current(t)) \in (IF Current(t) = "backlog" THEN Levels ELSE {"ok", "alerting", "absent"})
      BY CurrentIsCheck DEF Observed, StaleProcess, QueueBacklogSnapshot, PermanentlyFailedJobs, MailSync, Saw, Checks, Levels, HTypeOK, Worlds
    <3>2. /\ tick' = [tick EXCEPT ![t] = [tick[t] EXCEPT !.doing = IF Observed(Current(t)) = "absent" THEN "orphan" ELSE "lock",
                              !.saw = Observed(Current(t))]]
          /\ tick[t] \in TickRecs
      BY <2>3 DEF ReadSources, Enter, HTypeOK, TickRecs
    <3>3. /\ tick'[t].at = tick[t].at /\ tick'[t].saw = Observed(Current(t))
          /\ tick'[t].doing = IF Observed(Current(t)) = "absent" THEN "orphan" ELSE "lock"
      BY <3>2 DEF HTypeOK, TickRecs
    <3>4. Current(t)' = Current(t)
      BY <3>3 DEF Current
    <3>5. tick' \in [Ticks -> TickRecs]
      BY <3>2, <3>1 DEF HTypeOK, Levels, TickRecs
    <3> QED
      BY <3>1, <3>3, <3>4, <3>5
  <2> QED
    BY <2>1, <2>2, <2>3
<1>5. HTypeOK'
  BY <1>1, <1>2, <1>4 DEF HTypeOK, TickRecs
<1>6. ReadingsFit'
  BY <1>2, <1>4 DEF ReadingsFit, Current, Doing
<1>7. RowsHeld'
  BY <1>1, <1>2, <1>4, OthersKeepRows
<1>8. \A k \in Checks \ excused' : Counted(k)'
  <2> SUFFICES ASSUME NEW k \in Checks \ excused PROVE Counted(k)'
    BY <1>1
  <2>1. ~Notifies(k, t) /\ ~Notifies(k, t)'
    BY <1>3, <1>4 DEF Notifies, Doing
  <2> QED
    BY <2>1, <1>1, <1>2, OthersStayCounted
<1> QED
  BY <1>1, <1>5, <1>6, <1>7, <1>8 DEF LowIsSeen

\* A tick takes the row of its check, if there is one.
LEMMA LockKeepsHealth ==
  ASSUME HInv, NEW t \in Ticks, LockCheckRow(t)
  PROVE  HInv'
<1> USE DEF HInv, TicksAreSound
<1>1. /\ UNCHANGED <<world, check, told, notices, rolled, excused, pruning, wasLow>>
      /\ Doing(t, "lock") /\ (check[Current(t)] = "missing" \/ RowFree(Current(t)))
      /\ tick' = [tick EXCEPT ![t] = [tick[t] EXCEPT !.doing = "upsert", !.was = check[Current(t)]]]
  BY DEF LockCheckRow, Enter
<1>2. HTypeOK'
  <2>1. [tick[t] EXCEPT !.doing = "upsert", !.was = check[Current(t)]] \in TickRecs
    BY CurrentIsCheck, TickIsRecord, RecordsMoved DEF HTypeOK
  <2> QED
    BY <1>1, <2>1 DEF HTypeOK, TickRecs
<1>3. /\ \A u \in Ticks \ {t} : tick'[u] = tick[u]
      /\ tick'[t].doing = "upsert" /\ tick'[t].was = check[Current(t)] /\ tick'[t].at = tick[t].at
      /\ tick'[t].saw = tick[t].saw /\ tick'[t].to = tick[t].to
  BY <1>1 DEF HTypeOK
<1>4. \A u \in Ticks : Current(u)' = Current(u)
  BY <1>3 DEF Current
<1>5. ReadingsFit'
  BY <1>1, <1>3, <1>4 DEF ReadingsFit, Doing
<1>6. RowsHeld'
  <2>1. \A u \in Ticks \ {t}, k \in Checks : HoldsRow(u, k)' <=> HoldsRow(u, k)
    BY <1>3, <1>4 DEF HoldsRow, Doing
  <2>2. \A k \in Checks : HoldsRow(t, k)' => k = Current(t) /\ RowFree(k)
    BY <1>1, <1>3, <1>4 DEF HoldsRow, Doing
  <2>3. \A k \in Checks : \A u, v \in Ticks : HoldsRow(u, k)' /\ HoldsRow(v, k)' => u = v
    BY <2>1, <2>2 DEF RowsHeld, RowFree
  <2>4. \A u \in Ticks :
         /\ tick'[u].doing \in {"upsert", "notify"} /\ tick'[u].was # "missing" => check'[Current(u)'] = tick'[u].was
         /\ Doing(u, "notify")' => tick'[u].was # "alerting"
    BY <1>1, <1>3, <1>4 DEF RowsHeld, Doing
  <2> QED
    BY <2>3, <2>4 DEF RowsHeld
<1>7. \A k \in Checks \ excused : Counted(k)'
  <2> SUFFICES ASSUME NEW k \in Checks \ excused PROVE Counted(k)'
    OBVIOUS
  <2>1. ~Notifies(k, t) /\ ~Notifies(k, t)'
    BY <1>1, <1>3 DEF Notifies, Doing
  <2> QED
    BY <2>1, <1>1, <1>3, OthersStayCounted
<1> QED
  BY <1>1, <1>2, <1>5, <1>6, <1>7 DEF LowIsSeen

\* A row that turns to alerting: its tick begins to notify, of a fault it has told nobody of.
LEMMA TurnsKeepHealth ==
  ASSUME HInv, NEW t \in Ticks, TransitionCheck(t),
         StatusFor(Current(t), tick[t].saw, tick[t].was) = "alerting", tick[t].was # "alerting"
  PROVE  HInv'
<1> DEFINE k == Current(t)
<1> USE DEF HInv, TicksAreSound
<1>0. k \in Checks
  BY CurrentIsCheck
<1>1. /\ Doing(t, "upsert") /\ \A u \in Ticks \ {t} : ~HoldsRow(u, k)
      /\ UNCHANGED <<world, check, told, notices, rolled, pruning, wasLow>>
      /\ tick' = [tick EXCEPT ![t] = [tick[t] EXCEPT !.doing = "notify", !.to = IF k = "mail" THEN {} ELSE Operators]]
      /\ excused' = IF \/ rolled[k] \ {t} # {} \/ Overtaken(t)
                       \/ t \notin rolled[k] /\ \E o \in Operators : <<k, o>> \in told[t]
                    THEN excused \cup {k} ELSE excused
  BY DEF TransitionCheck, Enter
<1>2. HTypeOK'
  <2>1. [tick[t] EXCEPT !.doing = "notify", !.to = IF k = "mail" THEN {} ELSE Operators] \in TickRecs
    <3>1. (IF k = "mail" THEN {} ELSE Operators) \in SUBSET Operators
      OBVIOUS
    <3> QED
      BY <3>1, TickIsRecord, RecordsMoved
  <2> QED
    BY <1>0, <1>1, <2>1 DEF HTypeOK, TickRecs
<1>3. /\ \A u \in Ticks \ {t} : tick'[u] = tick[u]
      /\ tick'[t].doing = "notify" /\ tick'[t].was = tick[t].was /\ tick'[t].at = tick[t].at
      /\ tick'[t].saw = tick[t].saw /\ tick'[t].to = IF k = "mail" THEN {} ELSE Operators
  BY <1>1 DEF HTypeOK
<1>4. \A u \in Ticks : Current(u)' = Current(u)
  BY <1>3 DEF Current
<1>5. ReadingsFit'
  BY <1>1, <1>3, <1>4 DEF ReadingsFit, Doing
<1>6. RowsHeld'
  <2>1. \A u \in Ticks \ {t}, j \in Checks : HoldsRow(u, j)' <=> HoldsRow(u, j)
    BY <1>3, <1>4 DEF HoldsRow, Doing
  <2>2. \A j \in Checks : HoldsRow(t, j)' => j = k
    BY <1>4 DEF HoldsRow
  <2>3. \A j \in Checks : \A u, v \in Ticks : HoldsRow(u, j)' /\ HoldsRow(v, j)' => u = v
    BY <2>1, <2>2, <1>1 DEF RowsHeld
  <2>4. \A u \in Ticks :
         /\ tick'[u].doing \in {"upsert", "notify"} /\ tick'[u].was # "missing" => check'[Current(u)'] = tick'[u].was
         /\ Doing(u, "notify")' => tick'[u].was # "alerting"
    BY <1>1, <1>3, <1>4 DEF RowsHeld, Doing
  <2> QED
    BY <2>3, <2>4 DEF RowsHeld
<1>7. \A j \in Checks \ excused' : Counted(j)'
  <2> SUFFICES ASSUME NEW j \in Checks \ excused' PROVE Counted(j)'
    OBVIOUS
  <2>0. Counted(j)
    BY <1>1
  <2>1. CASE j # k
    <3>1. ~Notifies(j, t) /\ ~Notifies(j, t)'
      BY <2>1, <1>4 DEF Notifies
    <3> QED
      BY <3>1, <2>0, <1>1, <1>3, OthersStayCounted
  <2>2. CASE j = k
    <3>1. rolled[j] \subseteq {t} /\ tick[t].was = check[j] /\ (t \in rolled[j] \/ \A o \in Operators : <<j, o>> \notin told[t])
      BY <2>2, <1>1 DEF Overtaken
    <3>2. \A u \in Ticks : ~Notifies(j, u)
      BY <2>2, <1>1 DEF Notifies, HoldsRow, Doing
    <3>3. \A u \in Ticks : Notifies(j, u)' => u = t
      BY <3>2, <1>3, <1>4 DEF Notifies, Doing
    <3>4. \A o \in Operators : notices[j][o] = ToldOf(j, t, o)
      BY <2>0, <3>1, <3>2 DEF Counted, ToldOf
    <3>5. \A o \in Operators : ToldOf(j, t, o)' = ToldOf(j, t, o)
      BY <1>1 DEF ToldOf
    <3>6. Notifies(j, t)'
      BY <2>2, <1>3, <1>4 DEF Notifies, Doing
    <3>7. /\ \A i, l \in rolled[j] : i = l
          /\ \A o \in Operators : notices[j][o] \in 0 .. 1
      BY <2>0 DEF Counted
    <3>8. ~tick'[t].missed /\ j # "mail" => \A o \in Operators \ tick'[t].to : <<j, o>> \in told[t]
      BY <2>2, <1>3
    <3> HIDE DEF k
    <3> QED
      BY <3>1, <3>3, <3>4, <3>5, <3>6, <3>7, <3>8, <1>1, <1>3 DEF Counted
  <2> QED
    BY <2>1, <2>2
<1> QED
  BY <1>1, <1>2, <1>5, <1>6, <1>7 DEF LowIsSeen

\* What a step that ends a check leaves: no reading that does not fit, and the other rows.
LEMMA AdvanceKeepsReadings ==
  ASSUME HTypeOK, ReadingsFit, NEW t \in Ticks,
         \A u \in Ticks \ {t} : tick'[u] = tick[u] /\ told'[u] = told[u],
         told'[t] \subseteq told[t], tick'[t].doing \in {"rest", "read", "failed"}
  PROVE  ReadingsFit'
<1>1. \A u \in Ticks \ {t} : Current(u)' = Current(u)
  BY DEF Current
<1> QED
  BY <1>1 DEF ReadingsFit, Doing

\* A row that does not turn is written, and forgiven when its fault is over.
LEMMA SettlesKeepHealth ==
  ASSUME HInv, NEW t \in Ticks, TransitionCheck(t),
         ~(StatusFor(Current(t), tick[t].saw, tick[t].was) = "alerting" /\ tick[t].was # "alerting")
  PROVE  HInv'
<1> DEFINE k == Current(t)
           status == StatusFor(k, tick[t].saw, tick[t].was)
           over == status = "ok" /\ (k = "backlog" => wasLow /\ ~Overtaken(t))
           left == IF over THEN [rolled EXCEPT ![k] = {}] ELSE rolled
<1> USE DEF HInv, TicksAreSound
<1>0. k \in Checks
  BY CurrentIsCheck
<1>1. /\ Doing(t, "upsert") /\ \A u \in Ticks \ {t} : ~HoldsRow(u, k)
      /\ UNCHANGED <<world, pruning, wasLow>>
      /\ check' = [check EXCEPT ![k] = status]
      /\ over => Forgiven(k)
      /\ ~over => /\ excused' = IF k = "backlog" /\ Overtaken(t) THEN excused \cup {k} ELSE excused
                  /\ notices' = notices
      /\ Advance(t, left)
  BY DEF TransitionCheck
<1>2. left \in [Checks -> SUBSET (Ticks \cup {Ended})]
  BY DEF HTypeOK
<1>3. /\ tick' \in [Ticks -> TickRecs]
      /\ \A u \in Ticks \ {t} : tick'[u] = tick[u] /\ told'[u] = told[u]
      /\ tick'[t].doing \in {"rest", "read"}
      /\ told' \in [Ticks -> SUBSET (Checks \X Operators)]
      /\ told'[t] \subseteq told[t]
      /\ rolled' \in [Checks -> SUBSET (Ticks \cup {Ended})]
      /\ \A j \in Checks :
           \/ rolled'[j] = left[j] /\ told'[t] = told[t]
           \/ rolled'[j] = IF t \in left[j] THEN (left[j] \ {t}) \cup {Ended} ELSE left[j]
  <2>1. StepsOn(t, left)
    BY <1>1 DEF Advance, EndsJob, Enter, JobForgotten, StepsOn
  <2>2. PICK l \in [Checks -> SUBSET (Ticks \cup {Ended})] : l = left
    BY <1>2
  <2>3. StepsOn(t, l)
    BY <2>1, <2>2 DEF StepsOn
  <2>4. SteppedOn(t, l)
    <3>1. HTypeOK
      OBVIOUS
    <3> QED
      BY <2>3, <3>1, AdvanceMoves
  <2> HIDE DEF left, HInv, TicksAreSound
  <2> QED
    BY <2>2, <2>4 DEF SteppedOn
<1>4. status \in {"ok", "alerting"}
  BY <1>1 DEF ReadingsFit, StatusFor, ComputeQueueBacklogStatus, Saw, Doing, Levels
<1>5. /\ excused' \subseteq Checks /\ notices' \in [Checks -> [Operators -> 0 .. 2]]
      /\ \A j \in Checks \ {k} : notices'[j] = notices[j] /\ check'[j] = check[j] /\ left[j] = rolled[j]
                                /\ (j \notin excused' => j \notin excused)
      /\ check'[k] = status
  <2>1. CASE over
    <3>1. /\ notices' = [notices EXCEPT ![k] = [o \in Operators |-> 0]]
          /\ excused' = excused \ {k}
      BY <2>1, <1>1 DEF Forgiven
    <3> QED
      BY <3>1, <1>0, <1>1 DEF HTypeOK
  <2>2. CASE ~over
    BY <2>2, <1>0, <1>1 DEF HTypeOK
  <2> QED
    BY <2>1, <2>2
<1>6. HTypeOK'
  <2>1. check' \in [Checks -> Statuses]
    BY <1>0, <1>1, <1>4 DEF HTypeOK, Statuses
  <2> QED
    BY <2>1, <1>1, <1>3, <1>5 DEF HTypeOK, TickRecs
<1>7. ReadingsFit'
  BY <1>3, AdvanceKeepsReadings
<1>8. RowsHeld'
  <2>1. ASSUME NEW u \in Ticks \ {t}, tick[u].doing \in {"upsert", "notify"}, tick[u].was # "missing"
        PROVE  check'[Current(u)] = check[Current(u)]
    <3>1. HoldsRow(u, Current(u)) /\ Current(u) \in Checks
      BY <2>1, CurrentIsCheck DEF HoldsRow, Doing
    <3> QED
      BY <3>1, <1>1, <1>5
  <2> HIDE DEF k
  <2> QED
    BY <2>1, <1>3, OthersKeepRows
<1>9. \A j \in Checks \ excused' : Counted(j)'
  <2> SUFFICES ASSUME NEW j \in Checks \ excused' PROVE Counted(j)'
    OBVIOUS
  <2>0. ~Notifies(j, t) /\ ~Notifies(j, t)'
    BY <1>1, <1>3 DEF Notifies, Doing
  <2>1. CASE j # k
    <3>1. Counted(j) /\ check'[j] = check[j] /\ notices'[j] = notices[j]
      BY <2>1, <1>5
    <3>2. \/ rolled'[j] = rolled[j] /\ \A o \in Operators : <<j, o>> \in told'[t] <=> <<j, o>> \in told[t]
          \/ rolled'[j] = IF t \in rolled[j] THEN (rolled[j] \ {t}) \cup {Ended} ELSE rolled[j]
      BY <2>1, <1>3, <1>5
    <3> QED
      BY <2>0, <3>1, <3>2, <1>3, OthersStayCounted
  <2>2. CASE j = k
    <3>0. \A u \in Ticks : ~Notifies(j, u) /\ ~Notifies(j, u)'
      <4>1. \A u \in Ticks \ {t} : ~Notifies(j, u)
        BY <2>2, <1>1 DEF Notifies, HoldsRow, Doing
      <4>2. \A u \in Ticks \ {t} : Notifies(j, u)' <=> Notifies(j, u)
        BY <1>3 DEF Notifies, Doing, Current
      <4> QED
        BY <4>1, <4>2, <2>0
    <3>1. CASE over
      <4>1. rolled'[j] = {} /\ check'[j] = "ok" /\ \A o \in Operators : notices'[j][o] = 0
        <5>1. left[j] = {}
          BY <3>1, <2>2 DEF HTypeOK
        <5>2. notices' = [notices EXCEPT ![k] = [o \in Operators |-> 0]]
          BY <3>1, <1>1 DEF Forgiven
        <5> QED
          BY <5>1, <5>2, <3>1, <2>2, <1>3, <1>5 DEF HTypeOK
      <4> QED
        BY <4>1, <3>0 DEF Counted
    <3>2. CASE ~over
      <4>1. j \notin excused /\ notices' = notices /\ left = rolled /\ ~(k = "backlog" /\ Overtaken(t))
        BY <3>2, <2>2, <1>1
      <4>2. check'[j] = "alerting" <=> check[j] = "alerting"
        <5>1. CASE status = "alerting"
          BY <5>1, <2>2, <1>1, <1>5 DEF RowsHeld, Doing
        <5>2. CASE status = "ok"
          <6>1. k = "backlog" /\ ~wasLow
            BY <5>2, <3>2, <4>1
          <6>2. tick[t].was = check[k] /\ tick[t].saw = world.level
            BY <6>1, <4>1 DEF Overtaken
          <6>3. tick[t].was # "alerting"
            BY <5>2, <6>1, <6>2 DEF LowIsSeen, StatusFor, ComputeQueueBacklogStatus, Saw
          <6> QED
            BY <5>2, <6>2, <6>3, <2>2, <1>5
        <5> QED
          BY <5>1, <5>2, <1>4
      <4>3. Counted(j)
        BY <4>1
      <4>4. /\ \A i, l \in rolled'[j] : i = l
            /\ rolled'[j] = {} <=> rolled[j] = {}
            /\ \A u \in Ticks : u \in rolled'[j] => u \in rolled[j] /\ told'[u] = told[u]
        <5>1. rolled[j] \subseteq Ticks \cup {Ended} /\ Ended \notin Ticks
          BY HealthAssumption DEF HTypeOK
        <5>2. \A i, l \in rolled[j] : i = l
          BY <4>3 DEF Counted
        <5>3. \/ rolled'[j] = rolled[j] /\ told'[t] = told[t]
              \/ rolled'[j] = IF t \in rolled[j] THEN (rolled[j] \ {t}) \cup {Ended} ELSE rolled[j]
          BY <4>1, <1>3
        <5> QED
          BY <5>1, <5>2, <5>3, <1>3
      <4>5. \A u \in Ticks : u \in rolled'[j] => \A o \in Operators : ToldOf(j, u, o)' = ToldOf(j, u, o)
        BY <4>4 DEF ToldOf
      <4> HIDE DEF k, over, left
      <4> QED
        BY <3>0, <4>1, <4>2, <4>3, <4>4, <4>5 DEF Counted
    <3> QED
      BY <3>1, <3>2
  <2> QED
    BY <2>1, <2>2
<1> QED
  BY <1>1, <1>6, <1>7, <1>8, <1>9 DEF LowIsSeen

\* A mail account that is gone takes its check with it.
LEMMA OrphansKeepHealth ==
  ASSUME HInv, NEW t \in Ticks, DeleteOrphanedTenantChecks(t)
  PROVE  HInv'
<1> DEFINE k == Current(t)
           left == [rolled EXCEPT ![k] = {}]
<1> USE DEF HInv, TicksAreSound
<1>0. k \in Checks
  BY CurrentIsCheck
<1>1. /\ Doing(t, "orphan") /\ RowFree(k)
      /\ UNCHANGED <<world, pruning, wasLow>>
      /\ check' = [check EXCEPT ![k] = "missing"]
      /\ notices' = [notices EXCEPT ![k] = [o \in Operators |-> 0]]
      /\ excused' = excused \ {k}
      /\ Advance(t, left)
  BY DEF DeleteOrphanedTenantChecks, Forgiven
<1>2. left \in [Checks -> SUBSET (Ticks \cup {Ended})]
  BY DEF HTypeOK
<1>3. /\ tick' \in [Ticks -> TickRecs]
      /\ \A u \in Ticks \ {t} : tick'[u] = tick[u] /\ told'[u] = told[u]
      /\ tick'[t].doing \in {"rest", "read"}
      /\ told' \in [Ticks -> SUBSET (Checks \X Operators)]
      /\ told'[t] \subseteq told[t]
      /\ rolled' \in [Checks -> SUBSET (Ticks \cup {Ended})]
      /\ \A j \in Checks :
           \/ rolled'[j] = left[j] /\ told'[t] = told[t]
           \/ rolled'[j] = IF t \in left[j] THEN (left[j] \ {t}) \cup {Ended} ELSE left[j]
  <2>1. StepsOn(t, left)
    BY <1>1 DEF Advance, EndsJob, Enter, JobForgotten, StepsOn
  <2>2. PICK l \in [Checks -> SUBSET (Ticks \cup {Ended})] : l = left
    BY <1>2
  <2>3. StepsOn(t, l)
    BY <2>1, <2>2 DEF StepsOn
  <2>4. SteppedOn(t, l)
    <3>1. HTypeOK
      OBVIOUS
    <3> QED
      BY <2>3, <3>1, AdvanceMoves
  <2> HIDE DEF left, HInv, TicksAreSound
  <2> QED
    BY <2>2, <2>4 DEF SteppedOn
<1>4. HTypeOK'
  <2>1. check' \in [Checks -> Statuses] /\ notices' \in [Checks -> [Operators -> 0 .. 2]] /\ excused' \subseteq Checks
    BY <1>0, <1>1 DEF HTypeOK, Statuses
  <2> QED
    BY <2>1, <1>1, <1>3 DEF HTypeOK, TickRecs
<1>5. ReadingsFit'
  BY <1>3, AdvanceKeepsReadings
<1>6. RowsHeld'
  <2>1. ASSUME NEW u \in Ticks \ {t}, tick[u].doing \in {"upsert", "notify"}, tick[u].was # "missing"
        PROVE  check'[Current(u)] = check[Current(u)]
    <3>1. HoldsRow(u, Current(u)) /\ Current(u) \in Checks
      BY <2>1, CurrentIsCheck DEF HoldsRow, Doing
    <3> QED
      BY <3>1, <1>1 DEF RowFree, HTypeOK
  <2> HIDE DEF k
  <2> QED
    BY <2>1, <1>3, OthersKeepRows
<1>7. \A j \in Checks \ excused' : Counted(j)'
  <2> SUFFICES ASSUME NEW j \in Checks \ excused' PROVE Counted(j)'
    OBVIOUS
  <2>0. ~Notifies(j, t) /\ ~Notifies(j, t)'
    BY <1>1, <1>3 DEF Notifies, Doing
  <2>1. CASE j # k
    <3>1. Counted(j) /\ check'[j] = check[j] /\ notices'[j] = notices[j] /\ left[j] = rolled[j]
      BY <2>1, <1>1 DEF HTypeOK
    <3>2. \/ rolled'[j] = rolled[j] /\ \A o \in Operators : <<j, o>> \in told'[t] <=> <<j, o>> \in told[t]
          \/ rolled'[j] = IF t \in rolled[j] THEN (rolled[j] \ {t}) \cup {Ended} ELSE rolled[j]
      BY <3>1, <1>3
    <3> QED
      BY <2>0, <3>1, <3>2, <1>3, OthersStayCounted
  <2>2. CASE j = k
    <3>1. \A u \in Ticks : ~Notifies(j, u)'
      <4>1. \A u \in Ticks \ {t} : ~Notifies(j, u)
        BY <2>2, <1>1 DEF Notifies, RowFree, HoldsRow, Doing
      <4>2. \A u \in Ticks \ {t} : Notifies(j, u)' <=> Notifies(j, u)
        BY <1>3 DEF Notifies, Doing, Current
      <4> QED
        BY <4>1, <4>2, <2>0
    <3>2. rolled'[j] = {} /\ check'[j] = "missing" /\ \A o \in Operators : notices'[j][o] = 0
      BY <2>2, <1>1, <1>3 DEF HTypeOK
    <3> QED
      BY <3>1, <3>2 DEF Counted
  <2> QED
    BY <2>1, <2>2
<1> QED
  BY <1>1, <1>4, <1>5, <1>6, <1>7 DEF LowIsSeen

\* The notices are written one by one, or fail to be, under the check's row.
LEMMA NoticesKeepHealth ==
  ASSUME HInv, NEW t \in Ticks, NEW o \in Operators, WriteOperatorAlert(t, o) \/ OperatorAlertFails(t, o)
  PROVE  HInv'
<1> DEFINE k == Current(t)
<1> USE DEF HInv, TicksAreSound
<1>0. k \in Checks
  BY CurrentIsCheck
<1>1. /\ Doing(t, "notify") /\ o \in tick[t].to /\ k # "mail"
      /\ UNCHANGED <<world, check, rolled, excused, pruning, wasLow>>
  BY DEF WriteOperatorAlert, OperatorAlertFails, ReadingsFit
<1>2. /\ tick' \in [Ticks -> TickRecs]
      /\ \A u \in Ticks \ {t} : tick'[u] = tick[u] /\ told'[u] = told[u]
      /\ tick'[t].doing = "notify" /\ tick'[t].at = tick[t].at /\ tick'[t].was = tick[t].was
      /\ tick'[t].saw = tick[t].saw /\ tick'[t].to = tick[t].to \ {o}
      /\ told' \in [Ticks -> SUBSET (Checks \X Operators)]
      /\ \/ tick'[t].missed
         \/ tick'[t].missed = tick[t].missed /\ told'[t] = told[t] \cup {<<k, o>>}
      /\ told'[t] = told[t] \/ told'[t] = told[t] \cup {<<k, o>>}
  <2>0. tick[t].to \ {o} \in SUBSET Operators /\ tick[t] \in TickRecs
    BY TickIsRecord DEF TickRecs
  <2>1. CASE WriteOperatorAlert(t, o)
    <3>1. /\ tick' = [tick EXCEPT ![t] = [tick[t] EXCEPT !.to = tick[t].to \ {o}]]
          /\ told' = [told EXCEPT ![t] = told[t] \cup {<<k, o>>}]
      BY <2>1 DEF WriteOperatorAlert, Enter, HTypeOK
    <3>2. [tick[t] EXCEPT !.to = tick[t].to \ {o}] \in TickRecs
      BY <2>0, RecordsMoved
    <3> QED
      BY <2>0, <3>1, <3>2, <1>0, <1>1 DEF HTypeOK, TickRecs, Doing
  <2>2. CASE OperatorAlertFails(t, o)
    <3>1. /\ tick' = [tick EXCEPT ![t] = [tick[t] EXCEPT !.to = tick[t].to \ {o}, !.missed = TRUE]]
          /\ told' = told
      BY <2>2 DEF OperatorAlertFails, Enter, HTypeOK
    <3>2. [tick[t] EXCEPT !.to = tick[t].to \ {o}, !.missed = TRUE] \in TickRecs
      BY <2>0, RecordsMoved
    <3> QED
      BY <2>0, <3>1, <3>2, <1>0, <1>1 DEF HTypeOK, TickRecs, Doing
  <2> QED
    BY <2>1, <2>2
<1>3. /\ \A j \in Checks \ {k} : notices'[j] = notices[j]
      /\ \A p \in Operators : notices[k][p] = ToldOf(k, t, p) =>
            notices'[k][p] = IF <<k, p>> \in told'[t] THEN 1 ELSE 0
      /\ notices' \in [Checks -> [Operators -> 0 .. 2]]
  <2>1. CASE WriteOperatorAlert(t, o)
    <3>1. told'[t] = told[t] \cup {<<k, o>>}
      BY <2>1 DEF WriteOperatorAlert, HTypeOK
    <3>2. CASE <<k, o>> \in told[t]
      BY <2>1, <3>1, <3>2 DEF WriteOperatorAlert, HTypeOK, ToldOf
    <3>3. CASE <<k, o>> \notin told[t]
      <4>1. notices' = [notices EXCEPT ![k] = [p \in Operators |->
                          IF p \in {o} /\ notices[k][p] < 2 THEN notices[k][p] + 1 ELSE notices[k][p]]]
        BY <2>1, <3>3, <1>0 DEF WriteOperatorAlert, Notice, HTypeOK
      <4>2. \A p \in Operators : notices[k][p] \in 0 .. 2
        BY <1>0 DEF HTypeOK
      <4>3. notices'[k] = [p \in Operators |->
                          IF p \in {o} /\ notices[k][p] < 2 THEN notices[k][p] + 1 ELSE notices[k][p]]
        BY <4>1, <1>0 DEF HTypeOK
      <4>4. notices'[k] \in [Operators -> 0 .. 2]
        BY <4>2, <4>3
      <4>5. \A j \in Checks \ {k} : notices'[j] = notices[j]
        BY <4>1 DEF HTypeOK
      <4>6. notices' \in [Checks -> [Operators -> 0 .. 2]]
        BY <4>1, <4>4, <4>5, <1>0 DEF HTypeOK
      <4>7. \A p \in Operators : notices[k][p] = ToldOf(k, t, p) =>
                notices'[k][p] = IF <<k, p>> \in told'[t] THEN 1 ELSE 0
        BY <3>1, <3>3, <4>3 DEF ToldOf
      <4> QED
        BY <4>5, <4>6, <4>7
    <3> QED
      BY <3>2, <3>3
  <2>2. CASE OperatorAlertFails(t, o)
    BY <2>2 DEF OperatorAlertFails, HTypeOK, ToldOf
  <2> QED
    BY <2>1, <2>2
<1>4. \A u \in Ticks : Current(u)' = Current(u)
  BY <1>2 DEF Current
<1>5. HTypeOK'
  BY <1>1, <1>2, <1>3 DEF HTypeOK, TickRecs
<1>6. ReadingsFit'
  BY <1>1, <1>2, <1>4 DEF ReadingsFit, Doing
<1>7. \A u \in Ticks, j \in Checks : (HoldsRow(u, j)' <=> HoldsRow(u, j)) /\ (Notifies(j, u)' <=> Notifies(j, u))
  BY <1>1, <1>2, <1>4 DEF HoldsRow, Doing, Notifies
<1>8. RowsHeld'
  <2>1. \A u \in Ticks :
         /\ tick'[u].doing \in {"upsert", "notify"} /\ tick'[u].was # "missing" => check'[Current(u)'] = tick'[u].was
         /\ Doing(u, "notify")' => tick'[u].was # "alerting"
    BY <1>1, <1>2, <1>4 DEF RowsHeld, Doing
  <2> QED
    BY <2>1, <1>7 DEF RowsHeld
<1>9. \A j \in Checks \ excused' : Counted(j)'
  <2> SUFFICES ASSUME NEW j \in Checks \ excused PROVE Counted(j)'
    BY <1>1
  <2>0. Counted(j)
    OBVIOUS
  <2>1. CASE j # k
    <3>1. ~Notifies(j, t) /\ ~Notifies(j, t)'
      BY <2>1, <1>4 DEF Notifies
    <3>2. notices'[j] = notices[j] /\ \A p \in Operators : <<j, p>> \in told'[t] <=> <<j, p>> \in told[t]
      BY <2>1, <1>2, <1>3
    <3> QED
      BY <3>1, <3>2, <2>0, <1>1, <1>2, OthersStayCounted
  <2>2. CASE j = k
    <3>1. Notifies(j, t) /\ check[j] # "alerting"
      <4>1. Notifies(j, t)
        BY <2>2, <1>1 DEF Notifies
      <4> QED
        BY <4>1, <2>2, <1>1 DEF RowsHeld, Doing, Counted
    <3>2. /\ tick[t].was = check[j] /\ rolled[j] \subseteq {t}
          /\ \A p \in Operators : notices[j][p] = ToldOf(j, t, p)
          /\ ~tick[t].missed => \A p \in Operators \ tick[t].to : <<j, p>> \in told[t]
      BY <3>1, <2>0, <2>2, <1>1 DEF Counted
    <3>3. \A u \in Ticks : Notifies(j, u) => u = t
      BY <3>1 DEF Notifies, RowsHeld, HoldsRow, Doing
    <3>4. \A p \in Operators : notices'[j][p] = ToldOf(j, t, p)'
      BY <2>2, <3>2, <1>3 DEF ToldOf
    <3>5. ~tick'[t].missed => \A p \in Operators \ tick'[t].to : <<j, p>> \in told'[t]
      BY <2>2, <3>2, <1>2
    <3>6. \A p \in Operators : notices'[j][p] \in 0 .. 1
      <4>1. \A p \in Operators : ToldOf(j, t, p)' = 0 \/ ToldOf(j, t, p)' = 1
        BY DEF ToldOf
      <4> QED
        BY <3>4, <4>1
    <3> HIDE DEF k
    <3> QED
      BY <3>1, <3>2, <3>3, <3>4, <3>5, <3>6, <1>1, <1>2, <1>7 DEF Counted
  <2> QED
    BY <2>1, <2>2
<1> QED
  BY <1>1, <1>5, <1>6, <1>8, <1>9 DEF LowIsSeen

\* The row says alerting when every operator has been told.
LEMMA CommitsKeepHealth ==
  ASSUME HInv, NEW t \in Ticks, CommitAlert(t)
  PROVE  HInv'
<1> DEFINE k == Current(t)
<1> USE DEF HInv, TicksAreSound
<1>0. k \in Checks
  BY CurrentIsCheck
<1>1. /\ Doing(t, "notify") /\ tick[t].to = {} /\ ~tick[t].missed
      /\ UNCHANGED <<world, excused, pruning>>
      /\ check' = [check EXCEPT ![k] = "alerting"]
      /\ notices' = IF k = "mail" THEN Notice(k, Operators) ELSE notices
      /\ wasLow' = IF k = "backlog" THEN world.level = "low" ELSE wasLow
      /\ StepsOn(t, rolled)
  BY DEF CommitAlert, Advance, EndsJob, Enter, JobForgotten, StepsOn
<1>2. /\ tick' \in [Ticks -> TickRecs]
      /\ \A u \in Ticks \ {t} : tick'[u] = tick[u] /\ told'[u] = told[u]
      /\ tick'[t].doing \in {"rest", "read"}
      /\ told' \in [Ticks -> SUBSET (Checks \X Operators)]
      /\ told'[t] \subseteq told[t]
      /\ rolled' \in [Checks -> SUBSET (Ticks \cup {Ended})]
      /\ \A j \in Checks :
           \/ rolled'[j] = rolled[j] /\ told'[t] = told[t]
           \/ rolled'[j] = IF t \in rolled[j] THEN (rolled[j] \ {t}) \cup {Ended} ELSE rolled[j]
  <2>1. PICK l \in [Checks -> SUBSET (Ticks \cup {Ended})] : l = rolled
    BY DEF HTypeOK
  <2>2. StepsOn(t, l)
    BY <1>1, <2>1 DEF StepsOn
  <2>3. SteppedOn(t, l)
    <3>1. HTypeOK
      OBVIOUS
    <3> QED
      BY <2>2, <3>1, AdvanceMoves
  <2> HIDE DEF HInv, TicksAreSound
  <2> QED
    BY <2>1, <2>3 DEF SteppedOn
<1>3. /\ notices' \in [Checks -> [Operators -> 0 .. 2]]
      /\ \A j \in Checks \ {k} : notices'[j] = notices[j] /\ check'[j] = check[j]
      /\ k # "mail" => notices' = notices
      /\ k = "mail" => \A o \in Operators : notices[k][o] = 0 => notices'[k][o] = 1
  <2>1. CASE k = "mail"
    <3>1. notices' = [notices EXCEPT ![k] = [o \in Operators |->
                        IF o \in Operators /\ notices[k][o] < 2 THEN notices[k][o] + 1 ELSE notices[k][o]]]
      BY <2>1, <1>0, <1>1 DEF Notice, HTypeOK
    <3>2. \A o \in Operators : notices[k][o] \in 0 .. 2
      BY <1>0 DEF HTypeOK
    <3>3. notices'[k] = [o \in Operators |->
                        IF o \in Operators /\ notices[k][o] < 2 THEN notices[k][o] + 1 ELSE notices[k][o]]
      BY <3>1, <1>0 DEF HTypeOK
    <3>4. notices'[k] \in [Operators -> 0 .. 2]
      BY <3>2, <3>3
    <3>5. \A j \in Checks \ {k} : notices'[j] = notices[j] /\ check'[j] = check[j]
      BY <3>1, <1>1 DEF HTypeOK
    <3>6. notices' \in [Checks -> [Operators -> 0 .. 2]]
      BY <3>1, <3>4, <3>5, <1>0 DEF HTypeOK
    <3> QED
      BY <2>1, <3>3, <3>5, <3>6
  <2>2. CASE k # "mail"
    BY <2>2, <1>1 DEF HTypeOK
  <2> QED
    BY <2>1, <2>2
<1>4. HTypeOK'
  <2>1. check' \in [Checks -> Statuses] /\ wasLow' \in BOOLEAN
    BY <1>0, <1>1 DEF HTypeOK, Statuses
  <2> QED
    BY <2>1, <1>1, <1>2, <1>3 DEF HTypeOK, TickRecs
<1>5. ReadingsFit'
  BY <1>2, AdvanceKeepsReadings
<1>6. LowIsSeen'
  BY <1>1 DEF LowIsSeen
<1>7. \A u \in Ticks \ {t} : ~HoldsRow(u, k)
  <2>1. HoldsRow(t, k)
    BY <1>1 DEF HoldsRow
  <2> QED
    BY <1>0, <2>1 DEF RowsHeld
<1>8. RowsHeld'
  <2>1. ASSUME NEW u \in Ticks \ {t}, tick[u].doing \in {"upsert", "notify"}, tick[u].was # "missing"
        PROVE  check'[Current(u)] = check[Current(u)]
    <3>1. HoldsRow(u, Current(u)) /\ Current(u) \in Checks
      BY <2>1, CurrentIsCheck DEF HoldsRow, Doing
    <3> QED
      BY <3>1, <1>3, <1>7
  <2> HIDE DEF k
  <2> QED
    BY <2>1, <1>2, OthersKeepRows
<1>9. \A j \in Checks \ excused' : Counted(j)'
  <2> SUFFICES ASSUME NEW j \in Checks \ excused PROVE Counted(j)'
    BY <1>1
  <2>0. Counted(j) /\ ~Notifies(j, t)'
    BY <1>2 DEF Notifies, Doing
  <2>1. CASE j # k
    <3>1. check'[j] = check[j] /\ notices'[j] = notices[j] /\ ~Notifies(j, t)
      BY <2>1, <1>3 DEF Notifies
    <3>2. \/ rolled'[j] = rolled[j] /\ \A o \in Operators : <<j, o>> \in told'[t] <=> <<j, o>> \in told[t]
          \/ rolled'[j] = IF t \in rolled[j] THEN (rolled[j] \ {t}) \cup {Ended} ELSE rolled[j]
      BY <1>2
    <3> QED
      BY <2>0, <3>1, <3>2, <1>2, OthersStayCounted
  <2>2. CASE j = k
    <3>1. Notifies(j, t) /\ check[j] # "alerting"
      <4>1. Notifies(j, t)
        BY <2>2, <1>1 DEF Notifies
      <4> QED
        BY <4>1, <2>0, <2>2, <1>1 DEF RowsHeld, Doing, Counted
    <3>2. /\ rolled[j] \subseteq {t}
          /\ \A p \in Operators : notices[j][p] = ToldOf(j, t, p)
          /\ k # "mail" => \A p \in Operators : <<j, p>> \in told[t]
      BY <3>1, <2>0, <2>2, <1>1 DEF Counted
    <3>3. \A o \in Operators : notices'[j][o] = 1
      <4>1. CASE k = "mail"
        BY <4>1, <2>2, <3>2, <1>3 DEF ToldOf, ReadingsFit
      <4>2. CASE k # "mail"
        BY <4>2, <2>2, <3>2, <1>3 DEF ToldOf
      <4> QED
        BY <4>1, <4>2
    <3>4. check'[j] = "alerting"
      BY <2>2, <1>1 DEF HTypeOK
    <3>5. \A i, l \in rolled'[j] : i = l
      BY <3>2, <1>2
    <3>6. \A u \in Ticks : ~Notifies(j, u)'
      <4>1. \A u \in Ticks \ {t} : ~Notifies(j, u)
        BY <2>2, <1>7 DEF Notifies, HoldsRow, Doing
      <4>2. \A u \in Ticks \ {t} : Notifies(j, u)' <=> Notifies(j, u)
        BY <1>2 DEF Notifies, Doing, Current
      <4> QED
        BY <2>0, <4>1, <4>2
    <3> QED
      BY <3>3, <3>4, <3>5, <3>6 DEF Counted
  <2> QED
    BY <2>1, <2>2
<1> QED
  BY <1>1, <1>4, <1>5, <1>6, <1>8, <1>9

\* A tick fails: its row is as it was, and what it told of the fault stays told.
LEMMA UndoneKeepsHealth ==
  ASSUME HInv, NEW t \in Ticks, RollBackAlert(t) \/ WorkerDiesInTick(t)
  PROVE  HInv'
<1> DEFINE k == Current(t)
<1> USE DEF HInv, TicksAreSound
<1>0. k \in Checks
  BY CurrentIsCheck
<1>1. /\ UNCHANGED <<world, check, notices, pruning, wasLow>>
      /\ tick' = [tick EXCEPT ![t] = [CheckResting EXCEPT !.doing = "failed"]]
      /\ IF Doing(t, "notify")
         THEN /\ rolled' = [rolled EXCEPT ![k] = @ \cup {t}]
              /\ IF tick[t].was = "missing"
                 THEN excused' = excused \cup {k} /\ told' = [told EXCEPT ![t] = {p \in @ : p[1] # k}]
                 ELSE UNCHANGED <<excused, told>>
         ELSE UNCHANGED <<rolled, excused, told>>
  BY DEF RollBackAlert, WorkerDiesInTick, Undone, Enter
<1>2. /\ [CheckResting EXCEPT !.doing = "failed"] \in TickRecs
      /\ [CheckResting EXCEPT !.doing = "failed"].doing = "failed"
  BY RecordsMoved, RestIsRecord
<1>3. /\ tick' \in [Ticks -> TickRecs] /\ tick'[t].doing = "failed"
      /\ \A u \in Ticks \ {t} : tick'[u] = tick[u]
  BY <1>1, <1>2 DEF HTypeOK, TickRecs
<1>4. /\ told' \in [Ticks -> SUBSET (Checks \X Operators)]
      /\ \A u \in Ticks \ {t} : told'[u] = told[u]
      /\ told'[t] \subseteq told[t]
      /\ \A j \in Checks \ {k}, o \in Operators : <<j, o>> \in told'[t] <=> <<j, o>> \in told[t]
      /\ k \notin excused' => told' = told
      /\ excused' \subseteq Checks /\ excused \subseteq excused'
  BY <1>0, <1>1 DEF HTypeOK
<1>5. /\ rolled' \in [Checks -> SUBSET (Ticks \cup {Ended})]
      /\ \A j \in Checks \ {k} : rolled'[j] = rolled[j]
      /\ rolled'[k] = IF Doing(t, "notify") THEN rolled[k] \cup {t} ELSE rolled[k]
  <2>1. CASE Doing(t, "notify")
    <3>1. rolled' = [rolled EXCEPT ![k] = rolled[k] \cup {t}]
      BY <2>1, <1>1
    <3> HIDE DEF k
    <3> QED
      BY <2>1, <3>1, <1>0 DEF HTypeOK
  <2>2. CASE ~Doing(t, "notify")
    BY <2>2, <1>1 DEF HTypeOK
  <2> QED
    BY <2>1, <2>2
<1>6. HTypeOK'
  BY <1>1, <1>3, <1>4, <1>5 DEF HTypeOK, TickRecs
<1>7. ReadingsFit'
  BY <1>3, <1>4, AdvanceKeepsReadings
<1>8. RowsHeld'
  BY <1>1, <1>3, OthersKeepRows
<1>9. \A j \in Checks \ excused' : Counted(j)'
  <2> SUFFICES ASSUME NEW j \in Checks \ excused' PROVE Counted(j)'
    OBVIOUS
  <2>0. Counted(j) /\ ~Notifies(j, t)'
    BY <1>3, <1>4 DEF Notifies, Doing
  <2>1. CASE ~Notifies(j, t)
    <3>1. rolled'[j] = rolled[j]
      BY <2>1, <1>5 DEF Notifies
    <3>2. \A o \in Operators : <<j, o>> \in told'[t] <=> <<j, o>> \in told[t]
      BY <1>4
    <3> QED
      BY <2>0, <2>1, <3>1, <3>2, <1>1, <1>3, <1>4, OthersStayCounted
  <2>2. CASE Notifies(j, t)
    <3>1. j = k /\ Doing(t, "notify") /\ told' = told
      BY <2>2, <1>4 DEF Notifies
    <3>2. check[j] # "alerting"
      BY <2>0, <2>2, <3>1 DEF RowsHeld, Counted
    <3>3. rolled'[j] = {t} /\ \A o \in Operators : notices[j][o] = ToldOf(j, t, o)
      BY <2>0, <2>2, <3>1, <3>2, <1>5 DEF Counted
    <3>4. \A u \in Ticks : ~Notifies(j, u)'
      <4>1. \A u \in Ticks \ {t} : ~Notifies(j, u)
        BY <3>1, <1>0 DEF Notifies, RowsHeld, HoldsRow, Doing
      <4>2. \A u \in Ticks \ {t} : Notifies(j, u)' <=> Notifies(j, u)
        BY <1>3 DEF Notifies, Doing, Current
      <4> QED
        BY <2>0, <4>1, <4>2
    <3>5. \A o \in Operators : ToldOf(j, t, o)' = ToldOf(j, t, o)
      BY <3>1 DEF ToldOf
    <3>6. \A o \in Operators : notices[j][o] \in 0 .. 1
      BY <2>0 DEF Counted
    <3> HIDE DEF k
    <3> QED
      BY <3>2, <3>3, <3>4, <3>5, <3>6, <1>1 DEF Counted
  <2> QED
    BY <2>1, <2>2
<1> QED
  BY <1>1, <1>6, <1>7, <1>8, <1>9 DEF LowIsSeen

LEMMA HealthStep ==
  ASSUME HInv, [HNext]_hVars
  PROVE  HInv'
<1>1. CASE HNext
  <2>1. CASE WorldChanges \/ ReEnqueueDeadJob \/ SelectPrunable \/ CompletePruned
    BY <2>1, WorldKeepsHealth
  <2>2. ASSUME NEW t \in Ticks, StartTick(t) \/ GiveUpTick(t) \/ ReadSources(t)
        PROVE  HInv'
    BY <2>2, StartsKeepHealth
  <2>3. ASSUME NEW t \in Ticks, LockCheckRow(t)
        PROVE  HInv'
    BY <2>3, LockKeepsHealth
  <2>4. ASSUME NEW t \in Ticks, TransitionCheck(t)
        PROVE  HInv'
    BY <2>4, TurnsKeepHealth, SettlesKeepHealth
  <2>5. ASSUME NEW t \in Ticks, DeleteOrphanedTenantChecks(t)
        PROVE  HInv'
    BY <2>5, OrphansKeepHealth
  <2>6. ASSUME NEW t \in Ticks, NEW o \in Operators, WriteOperatorAlert(t, o) \/ OperatorAlertFails(t, o)
        PROVE  HInv'
    BY <2>6, NoticesKeepHealth
  <2>7. ASSUME NEW t \in Ticks, CommitAlert(t)
        PROVE  HInv'
    BY <2>7, CommitsKeepHealth
  <2>8. ASSUME NEW t \in Ticks, RollBackAlert(t) \/ WorkerDiesInTick(t)
        PROVE  HInv'
    BY <2>8, UndoneKeepsHealth
  <2> QED
    BY <1>1, <2>1, <2>2, <2>3, <2>4, <2>5, <2>6, <2>7, <2>8 DEF HNext, TickStep
<1>2. CASE UNCHANGED hVars
  <2>1. \A k \in Checks : Counted(k)' <=> Counted(k)
    BY <1>2 DEF hVars, Counted, Notifies, Doing, Current, ToldOf
  <2> QED
    BY <1>2, <2>1 DEF hVars, HInv, TicksAreSound, HTypeOK, ReadingsFit, RowsHeld, LowIsSeen, HoldsRow, Doing, Current
<1> QED
  BY <1>1, <1>2

LEMMA HealthInvMeans == HInv => AlertedOncePerFault /\ AlertingIsKnownToAll
<1> SUFFICES ASSUME HInv, NEW k \in Checks \ excused, NEW o \in Operators
             PROVE  notices[k][o] <= 1 /\ (check[k] = "alerting" => notices[k][o] >= 1)
  BY DEF AlertedOncePerFault, AlertingIsKnownToAll
<1>1. notices[k][o] \in 0 .. 1 /\ (check[k] = "alerting" => notices[k][o] = 1)
  BY DEF HInv, Counted
<1> QED
  BY <1>1

\* A fault that lasts is notified to an operator at most once, and a row that says alerting
\* has been notified to all (handleObservabilityCheckSystemTask, writeOperatorAlert).
THEOREM AlertsAreCounted == HSpec => [](AlertedOncePerFault /\ AlertingIsKnownToAll)
<1> QED
  BY HealthInitially, HealthStep, HealthInvMeans, PTL DEF HSpec

LEMMA PruneStep == HInv /\ [HNext]_hVars => [pruning # "no" /\ pruning' = "no" => world.job = "old"]_hVars
  BY DEF HInv, TicksAreSound, HTypeOK

\* The prune completes only jobs that are still dead: it holds their rows (pruneQueueFailedJobs).
THEOREM PruneIsOfTheDead == HSpec => PruneTakesOnlyTheDead
<1> QED
  BY HealthInitially, HealthStep, PruneStep, PTL DEF HSpec, PruneTakesOnlyTheDead
-----------------------------------------------------------------------------
(* The seed of a tenant. *)

PartCount == Len(SeedParts)
SeedDbs(n) == UNION {SeedParts[i].creates : i \in 1 .. n}
SeedLocks(n) == UNION {SeedParts[i].locks : i \in 1 .. n}

\* A draft is what the first parts of the seed have built.
IsDraft(s) ==
    /\ s.parts \in 0 .. PartCount
    /\ s = [dbs |-> SeedDbs(s.parts), locked |-> SeedLocks(s.parts), parts |-> s.parts]

LEMMA TwelveParts == PartCount = 12 /\ DOMAIN SeedParts = 1 .. 12
  BY DEF PartCount, SeedParts

LEMMA PartsCreate ==
  /\ SeedParts[1].creates = TenModules /\ SeedParts[2].creates = {} /\ SeedParts[3].creates = {}
  /\ SeedParts[4].creates = {"systemSettings"} /\ SeedParts[5].creates = {"books", "movies"}
  /\ SeedParts[6].creates = {"mailboxes", "folders"} /\ SeedParts[7].creates = {"emails"}
  /\ SeedParts[8].creates = {} /\ SeedParts[9].creates = {}
  /\ SeedParts[10].creates = {"inbox", "inboxItemTypes", "processingProposals"}
  /\ SeedParts[11].creates = {} /\ SeedParts[12].creates = {"mcpServers"}
  BY DEF SeedParts, Nothing, SeedTenDatabases, RelateTenDatabases, LockTenDatabases, SeedSettings, SeedLibrary,
     CreateMailDatabases, RelateEmails, MailHeartbeats, TranscriptionHeartbeats, SeedInboxPipeline,
     LockInboxPipeline, SeedMcp

LEMMA PartsLock ==
  /\ SeedParts[1].locks = {} /\ SeedParts[2].locks = {} /\ SeedParts[3].locks = TenModules
  /\ SeedParts[4].locks = {"systemSettings"} /\ SeedParts[5].locks = {"books", "movies"}
  /\ SeedParts[6].locks = {} /\ SeedParts[7].locks = {"mailboxes", "folders", "emails"}
  /\ SeedParts[8].locks = {} /\ SeedParts[9].locks = {} /\ SeedParts[10].locks = {}
  /\ SeedParts[11].locks = {"inbox", "inboxItemTypes", "processingProposals"}
  /\ SeedParts[12].locks = {"mcpServers"}
  BY DEF SeedParts, Nothing, SeedTenDatabases, RelateTenDatabases, LockTenDatabases, SeedSettings, SeedLibrary,
     CreateMailDatabases, RelateEmails, MailHeartbeats, TranscriptionHeartbeats, SeedInboxPipeline,
     LockInboxPipeline, SeedMcp

\* Every database of the seed is locked by one of its parts.
LEMMA AllAreLocked == SeedDbs(PartCount) = Databases /\ SeedLocks(PartCount) = Databases
<1> DEFINE All == TenModules \cup {"systemSettings", "books", "movies", "mailboxes", "folders", "emails", "inbox",
                                   "inboxItemTypes", "processingProposals", "mcpServers"}
<1>1. 1 .. 12 = {1, 2, 3, 4, 5, 6, 7, 8, 9, 10, 11, 12}
  OBVIOUS
<1>2. UNION {SeedParts[i].creates : i \in {1, 2, 3, 4, 5, 6, 7, 8, 9, 10, 11, 12}} = All
  BY PartsCreate
<1>3. UNION {SeedParts[i].locks : i \in {1, 2, 3, 4, 5, 6, 7, 8, 9, 10, 11, 12}} = All
  BY PartsLock
<1> QED
  BY <1>1, <1>2, <1>3, TwelveParts DEF SeedDbs, SeedLocks, Databases

LEMMA BlankIsDraft == IsDraft(Blank)
  BY TwelveParts DEF IsDraft, Blank, SeedDbs, SeedLocks

LEMMA AppliedIsDraft ==
  ASSUME NEW s, IsDraft(s), s.parts < PartCount
  PROVE  IsDraft(Applied(s, SeedParts[s.parts + 1])) /\ Applied(s, SeedParts[s.parts + 1]).parts = s.parts + 1
<1> DEFINE n == s.parts
<1>1. n \in Nat /\ n + 1 \in 0 .. PartCount /\ 1 .. n + 1 = 1 .. n \cup {n + 1}
  BY TwelveParts DEF IsDraft
<1>2. s.dbs = SeedDbs(n) /\ s.locked = SeedLocks(n)
  BY DEF IsDraft
<1>3. SeedDbs(n + 1) = SeedDbs(n) \cup SeedParts[n + 1].creates
  BY <1>1 DEF SeedDbs
<1>4. SeedLocks(n + 1) = SeedLocks(n) \cup SeedParts[n + 1].locks
  BY <1>1 DEF SeedLocks
<1> QED
  BY <1>1, <1>2, <1>3, <1>4 DEF IsDraft, Applied

LEMMA FullDraftIsWhole ==
  ASSUME NEW s, IsDraft(s), s.parts = PartCount
  PROVE  Whole(s) /\ s.locked \subseteq s.dbs /\ s.dbs \subseteq Databases
  BY AllAreLocked DEF IsDraft, Whole, PartCount

Drafts == {s \in [dbs : SUBSET Databases, locked : SUBSET Databases, parts : 0 .. PartCount] : IsDraft(s)}

LEMMA DraftsAre == \A s : IsDraft(s) <=> s \in Drafts
<1> SUFFICES ASSUME NEW s, IsDraft(s) PROVE s \in [dbs : SUBSET Databases, locked : SUBSET Databases, parts : 0 .. PartCount]
  BY DEF Drafts
<1>1. SeedDbs(s.parts) \subseteq SeedDbs(PartCount) /\ SeedLocks(s.parts) \subseteq SeedLocks(PartCount)
  BY TwelveParts DEF IsDraft, SeedDbs, SeedLocks
<1> QED
  BY <1>1, AllAreLocked DEF IsDraft

\* The steps of a deploy, and what a seed's transaction holds.
DeployShape ==
    /\ deploy \in [Deploys -> [at : DeployStates, draft : Drafts]]
    /\ pstatus \in Maintained \cup {"deleting", "gone"} /\ migrated \in BOOLEAN /\ unawaited \in BOOLEAN
    /\ seedLock \in Deploys \cup {NoDeploy} /\ migrationLock \in Deploys \cup {NoDeploy}
    /\ result \in [Deploys -> {"none", "created", "already", "refused", "failed"}]
    /\ SeedIsWhole

\* A seed is written alone, for a tenant without one that stays maintained meanwhile.
SeedIsAlone ==
    /\ sharing = {d \in Deploys : DeployAt(d) = "seeding"}
    /\ \A d \in Deploys : DeployAt(d) \in {"locked", "seeding"} => seedLock = d
    /\ \A d \in Deploys : DeployAt(d) = "seeding" => schema = Blank /\ pstatus \in Maintained

MigrationIsAlone == \A d \in Deploys : migrationLock = d <=> DeployAt(d) \in Migrating

\* What a deploy has behind it when it activates a tenant that is being provisioned.
ActivatesSeeded ==
    pstatus = "provisioning" =>
      \A d \in Deploys :
        /\ DeployAt(d) \in {"migrate", "remigrate", "migrating", "remigrating", "activate"} => schema # Blank
        /\ DeployAt(d) = "activate" => migrated \/ unawaited

ProvInv == DeployShape /\ SeedIsAlone /\ MigrationIsAlone /\ ActivatesSeeded

LEMMA ProvInitially == ProvInit => ProvInv
<1> SUFFICES ASSUME ProvInit PROVE ProvInv
  OBVIOUS
<1>1. DeployShape
  BY BlankIsDraft, DraftsAre DEF ProvInit, DeployShape, DeployStates, Maintained, SeedIsWhole
<1> QED
  BY <1>1, ProvisioningAssumption
  DEF ProvInit, ProvInv, SeedIsAlone, MigrationIsAlone, ActivatesSeeded, DeployAt, Migrating

\* A deploy has gone to a step, the others are where they were.
Moved(d, to) == deploy'[d].at = to /\ \A e \in Deploys \ {d} : deploy'[e].at = deploy[e].at

LEMMA ShapeAfter ==
  ASSUME ProvInv, NEW d \in Deploys, NEW to \in DeployStates, Moves(d, to),
         pstatus' \in Maintained \cup {"deleting", "gone"}, migrated' \in BOOLEAN, unawaited' \in BOOLEAN,
         seedLock' \in Deploys \cup {NoDeploy}, migrationLock' \in Deploys \cup {NoDeploy},
         \/ result' = result
         \/ \E how \in {"none", "created", "already", "refused", "failed"} : result' = [result EXCEPT ![d] = how],
         schema' = Blank \/ Whole(schema')
  PROVE  DeployShape' /\ Moved(d, to)
<1>1. deploy \in [Deploys -> [at : DeployStates, draft : Drafts]] /\ Blank \in Drafts
  BY BlankIsDraft, DraftsAre DEF ProvInv, DeployShape
<1>2. deploy' \in [Deploys -> [at : DeployStates, draft : Drafts]] /\ Moved(d, to)
  BY <1>1 DEF Moves, Moved
<1>3. result' \in [Deploys -> {"none", "created", "already", "refused", "failed"}]
  BY DEF ProvInv, DeployShape
<1>4. SeedIsWhole'
  BY DEF SeedIsWhole
<1> QED
  BY <1>2, <1>3, <1>4 DEF DeployShape

\* A seed's transaction ends, or none is concerned.
LEMMA SeedsAfter ==
  ASSUME ProvInv, NEW d \in Deploys, NEW to \in DeployStates \ {"locked", "seeding"}, Moved(d, to),
         EndsSeedTransaction(d) \/ (UNCHANGED <<seedLock, sharing>> /\ DeployAt(d) \notin {"locked", "seeding"}),
         schema' = schema \/ DeployAt(d) = "seeding",
         pstatus \in Maintained => pstatus' \in Maintained
  PROVE  SeedIsAlone'
<1>1. SeedIsAlone
  BY DEF ProvInv
<1>2. sharing' = {e \in Deploys : deploy'[e].at = "seeding"}
  BY <1>1 DEF SeedIsAlone, DeployAt, EndsSeedTransaction, Moved
<1>3. ASSUME NEW e \in Deploys, deploy'[e].at \in {"locked", "seeding"} PROVE e # d /\ seedLock' = e /\ seedLock = e
  BY <1>1, <1>3 DEF SeedIsAlone, DeployAt, EndsSeedTransaction, Moved
<1>4. ASSUME NEW e \in Deploys, deploy'[e].at = "seeding" PROVE schema' = Blank /\ pstatus' \in Maintained
  <2>1. e # d /\ seedLock = e /\ deploy[e].at = "seeding"
    BY <1>3, <1>4 DEF Moved
  <2>2. DeployAt(d) # "seeding"
    BY <1>1, <2>1 DEF SeedIsAlone, DeployAt
  <2> QED
    BY <1>1, <2>1, <2>2 DEF SeedIsAlone, DeployAt
<1> QED
  BY <1>2, <1>3, <1>4 DEF SeedIsAlone, DeployAt

LEMMA MigrationAfter ==
  ASSUME ProvInv, NEW d \in Deploys, NEW to \in DeployStates, Moved(d, to),
         IF to \in Migrating THEN migrationLock = NoDeploy /\ migrationLock' = d
         ELSE IF DeployAt(d) \in Migrating THEN migrationLock' = NoDeploy ELSE migrationLock' = migrationLock
  PROVE  MigrationIsAlone'
<1>1. MigrationIsAlone
  BY DEF ProvInv
<1>2. deploy'[d].at = to /\ \A e \in Deploys \ {d} : deploy'[e].at = deploy[e].at
  BY DEF Moved
<1>3. CASE to \in Migrating
  BY <1>1, <1>2, <1>3, ProvisioningAssumption DEF MigrationIsAlone, DeployAt
<1>4. CASE to \notin Migrating
  BY <1>1, <1>2, <1>4, ProvisioningAssumption DEF MigrationIsAlone, DeployAt
<1> QED
  BY <1>3, <1>4

LEMMA ActivatesAfter ==
  ASSUME ProvInv, NEW d \in Deploys, NEW to \in DeployStates, Moved(d, to),
         pstatus' = "provisioning" => pstatus = "provisioning",
         schema # Blank => schema' # Blank, migrated => migrated', unawaited => unawaited',
         /\ pstatus = "provisioning" /\ to \in {"migrate", "remigrate", "migrating", "remigrating", "activate"}
         => schema' # Blank,
         to = "activate" => migrated' \/ unawaited'
  PROVE  ActivatesSeeded'
  BY DEF ProvInv, ActivatesSeeded, DeployAt, Moved

LEMMA DeployTypes ==
  ASSUME ProvInv
  PROVE  /\ pstatus \in Maintained \cup {"deleting", "gone"} /\ migrated \in BOOLEAN /\ unawaited \in BOOLEAN
         /\ seedLock \in Deploys \cup {NoDeploy} /\ migrationLock \in Deploys \cup {NoDeploy}
         /\ schema = Blank \/ Whole(schema)
  BY DEF ProvInv, DeployShape, SeedIsWhole

LEMMA StartKeepsProv ==
  ASSUME ProvInv, NEW d \in Deploys, ListTenants(d) \/ TakeSeedLock(d)
  PROVE  ProvInv'
<1>1. PICK to \in {"listed", "locked"} :
        /\ Moves(d, to) /\ DeployAt(d) \in {"idle", "listed"}
        /\ UNCHANGED <<pstatus, schema, migrated, sharing, migrationLock, result, unawaited>>
        /\ IF to = "locked" THEN seedLock = NoDeploy /\ seedLock' = d ELSE seedLock' = seedLock
  BY DEF ListTenants, TakeSeedLock
<1>2. to \in DeployStates
  BY DEF DeployStates
<1>3. DeployShape' /\ Moved(d, to)
  BY <1>1, <1>2, DeployTypes, ShapeAfter
<1>4. SeedIsAlone'
  <2>1. SeedIsAlone
    BY DEF ProvInv
  <2> QED
    BY <1>1, <1>3, <2>1, ProvisioningAssumption DEF SeedIsAlone, DeployAt, Moved
<1>5. MigrationIsAlone'
  BY <1>1, <1>2, <1>3, MigrationAfter DEF Migrating
<1>6. ActivatesSeeded'
  BY <1>1, <1>2, <1>3, ActivatesAfter
<1> QED
  BY <1>3, <1>4, <1>5, <1>6 DEF ProvInv

LEMMA LockTenantKeepsProv ==
  ASSUME ProvInv, NEW d \in Deploys, LockTenant(d)
  PROVE  ProvInv'
<1>1. /\ seedLock = d /\ DeployAt(d) = "locked" /\ SeedIsAlone
      /\ UNCHANGED <<pstatus, schema, migrated, migrationLock, unawaited>>
  BY DEF LockTenant, ProvInv, SeedIsAlone, seedCounters
<1>2. {"idle", "migrate", "seeding"} \subseteq DeployStates
  BY DEF DeployStates
<1>3. ASSUME NEW to \in {"idle", "migrate"}, Moves(d, to), EndsSeedTransaction(d), to = "migrate" => schema # Blank,
             \E how \in {"none", "created", "already", "refused", "failed"} : result' = [result EXCEPT ![d] = how]
      PROVE  ProvInv'
  <2>1. seedLock' \in Deploys \cup {NoDeploy}
    BY <1>1, <1>3 DEF EndsSeedTransaction
  <2>2. DeployShape' /\ Moved(d, to)
    BY <1>1, <1>2, <1>3, <2>1, DeployTypes, ShapeAfter
  <2>3. SeedIsAlone'
    BY <1>1, <1>2, <1>3, <2>2, SeedsAfter
  <2>4. MigrationIsAlone'
    BY <1>1, <1>2, <1>3, <2>2, MigrationAfter DEF Migrating
  <2>5. ActivatesSeeded'
    BY <1>1, <1>2, <1>3, <2>2, ActivatesAfter
  <2> QED
    BY <2>2, <2>3, <2>4, <2>5 DEF ProvInv
<1>4. CASE pstatus \notin Maintained
  BY <1>3, <1>4 DEF LockTenant, Ends
<1>5. CASE pstatus \in Maintained /\ schema # Blank
  BY <1>3, <1>5 DEF LockTenant
<1>6. CASE pstatus \in Maintained /\ schema = Blank
  <2>1. /\ Moves(d, "seeding") /\ result' = [result EXCEPT ![d] = "none"] /\ sharing' = sharing \cup {d}
        /\ seedLock' = seedLock
    BY <1>6 DEF LockTenant
  <2>2. DeployShape' /\ Moved(d, "seeding")
    BY <1>1, <1>2, <2>1, DeployTypes, ShapeAfter
  <2>3. SeedIsAlone'
    BY <1>1, <1>6, <2>1, <2>2 DEF SeedIsAlone, DeployAt, Moved
  <2>4. MigrationIsAlone'
    BY <1>1, <1>2, <2>2, MigrationAfter DEF Migrating
  <2>5. ActivatesSeeded'
    BY <1>1, <1>2, <2>2, ActivatesAfter
  <2> QED
    BY <2>2, <2>3, <2>4, <2>5 DEF ProvInv
<1> QED
  BY <1>4, <1>5, <1>6

LEMMA SeedPartKeepsProv ==
  ASSUME ProvInv, NEW d \in Deploys, SeedPart(d)
  PROVE  ProvInv'
<1>1. deploy \in [Deploys -> [at : DeployStates, draft : Drafts]]
  BY DEF ProvInv, DeployShape
<1>2. deploy[d].draft \in Drafts /\ deploy[d].draft.parts < PartCount
  BY <1>1 DEF SeedPart, PartCount
<1>3. Applied(deploy[d].draft, SeedParts[deploy[d].draft.parts + 1]) \in Drafts
  BY <1>2, AppliedIsDraft, DraftsAre
<1>4. /\ deploy' \in [Deploys -> [at : DeployStates, draft : Drafts]]
      /\ \A e \in Deploys : deploy'[e].at = deploy[e].at
  BY <1>1, <1>3 DEF SeedPart
<1>5. UNCHANGED <<pstatus, schema, migrated, seedLock, sharing, migrationLock, result, unawaited>>
  BY DEF SeedPart
<1>6. DeployShape'
  BY <1>4, <1>5 DEF ProvInv, DeployShape, SeedIsWhole
<1> QED
  BY <1>4, <1>5, <1>6 DEF ProvInv, SeedIsAlone, MigrationIsAlone, ActivatesSeeded, DeployAt

\* The transaction of a seed ends, with what it built or without.
LEMMA SeedEnds ==
  ASSUME ProvInv, NEW d \in Deploys, CommitSeed(d) \/ CommitAnswerLost(d) \/ SeedFails(d)
  PROVE  ProvInv'
<1>1. {"idle", "migrate"} \subseteq DeployStates
  BY DEF DeployStates
<1>2. IsDraft(deploy[d].draft) /\ SeedIsAlone
  BY DraftsAre DEF ProvInv, DeployShape
<1>3. /\ EndsSeedTransaction(d) /\ DeployAt(d) \in {"locked", "seeding"}
      /\ UNCHANGED <<pstatus, migrated, migrationLock, unawaited>>
  BY DEF CommitSeed, CommitAnswerLost, SeedFails, seedCounters
<1>4. CASE DeployAt(d) = "seeding" /\ deploy[d].draft.parts = PartCount /\ schema' = deploy[d].draft
  <2>1. Whole(schema') /\ schema' # Blank /\ schema = Blank /\ pstatus \in Maintained
    <3>1. Whole(schema')
      BY <1>2, <1>4, FullDraftIsWhole
    <3>2. schema'.parts = 12
      BY <1>4, TwelveParts
    <3> QED
      BY <1>2, <1>4, <3>1, <3>2 DEF Blank, SeedIsAlone
  <2>2. PICK to \in {"idle", "migrate"} :
          /\ Moves(d, to)
          /\ \E how \in {"none", "created", "already", "refused", "failed"} : result' = [result EXCEPT ![d] = how]
    <3>1. CASE CommitSeed(d)
      BY <2>1, <3>1 DEF CommitSeed, Maintained
    <3>2. CASE CommitAnswerLost(d) \/ SeedFails(d)
      BY <3>2 DEF CommitAnswerLost, SeedFails, Ends
    <3> QED
      BY <3>1, <3>2
  <2>3. seedLock' \in Deploys \cup {NoDeploy}
    BY <1>3, DeployTypes DEF EndsSeedTransaction
  <2>4. DeployShape' /\ Moved(d, to)
    BY <1>1, <1>3, <2>1, <2>2, <2>3, DeployTypes, ShapeAfter
  <2>5. SeedIsAlone'
    BY <1>1, <1>3, <1>4, <2>4, SeedsAfter
  <2>6. MigrationIsAlone'
    BY <1>1, <1>3, <2>4, MigrationAfter DEF Migrating
  <2>7. ActivatesSeeded'
    BY <1>1, <1>3, <2>1, <2>4, ActivatesAfter
  <2> QED
    BY <2>4, <2>5, <2>6, <2>7 DEF ProvInv
<1>5. CASE SeedFails(d)
  <2>1. Moves(d, "idle") /\ result' = [result EXCEPT ![d] = "failed"] /\ schema' = schema
    BY <1>5 DEF SeedFails, Ends
  <2>3. seedLock' \in Deploys \cup {NoDeploy}
    BY <1>3, DeployTypes DEF EndsSeedTransaction
  <2>4. DeployShape' /\ Moved(d, "idle")
    BY <1>1, <1>3, <2>1, <2>3, DeployTypes, ShapeAfter
  <2>5. SeedIsAlone'
    BY <1>1, <1>3, <2>1, <2>4, SeedsAfter
  <2>6. MigrationIsAlone'
    BY <1>1, <1>3, <2>4, MigrationAfter DEF Migrating
  <2>7. ActivatesSeeded'
    BY <1>1, <1>3, <2>1, <2>4, ActivatesAfter
  <2> QED
    BY <2>4, <2>5, <2>6, <2>7 DEF ProvInv
<1>6. CASE CommitSeed(d)
  <2>1. schema = Blank /\ pstatus # "gone"
    BY <1>2, <1>6 DEF CommitSeed, SeedIsAlone, Maintained
  <2> QED
    BY <1>4, <1>6, <2>1 DEF CommitSeed, PartCount
<1>7. CASE CommitAnswerLost(d)
  BY <1>4, <1>7 DEF CommitAnswerLost, PartCount
<1> QED
  BY <1>5, <1>6, <1>7

LEMMA MigrationsKeepProv ==
  ASSUME ProvInv, NEW d \in Deploys, StartMigrations(d) \/ FinishMigrations(d) \/ MigrationsFail(d) \/ Activate(d)
  PROVE  ProvInv'
<1>1. {"idle", "remigrate", "activate", "migrating", "remigrating"} \subseteq DeployStates
  BY DEF DeployStates
<1>2. /\ UNCHANGED <<schema, seedLock, sharing>>
      /\ DeployAt(d) \in {"migrate", "remigrate", "migrating", "remigrating", "activate"}
  BY DEF StartMigrations, FinishMigrations, MigrationsFail, Activate, Migrating, seedCounters
<1>3. pstatus = "provisioning" => schema # Blank
  BY <1>2 DEF ProvInv, ActivatesSeeded
\* Whatever it does, it goes on, has failed, or has activated the tenant.
<1>4. ASSUME NEW to \in {"idle", "remigrate", "activate", "migrating", "remigrating"}, Moves(d, to),
             pstatus' = pstatus \/ (pstatus = "provisioning" /\ pstatus' = "active"),
             migrated' \in BOOLEAN, migrated => migrated', unawaited' \in BOOLEAN, unawaited => unawaited',
             to = "activate" => migrated' \/ unawaited',
             result' = result \/ result' = [result EXCEPT ![d] = "failed"],
             IF to \in Migrating THEN migrationLock = NoDeploy /\ migrationLock' = d
             ELSE IF DeployAt(d) \in Migrating THEN migrationLock' = NoDeploy ELSE migrationLock' = migrationLock
      PROVE  ProvInv'
  <2>1. pstatus' \in Maintained \cup {"deleting", "gone"} /\ (pstatus \in Maintained => pstatus' \in Maintained)
    BY <1>4, DeployTypes DEF Maintained
  <2>2. migrationLock' \in Deploys \cup {NoDeploy}
    BY <1>4, DeployTypes
  <2>3. DeployShape' /\ Moved(d, to)
    BY <1>1, <1>2, <1>4, <2>1, <2>2, DeployTypes, ShapeAfter
  <2>4. SeedIsAlone'
    BY <1>1, <1>2, <1>4, <2>1, <2>3, SeedsAfter
  <2>5. MigrationIsAlone'
    BY <1>1, <1>4, <2>3, MigrationAfter
  <2>6. ActivatesSeeded'
    BY <1>1, <1>2, <1>3, <1>4, <2>3, ActivatesAfter
  <2> QED
    BY <2>3, <2>4, <2>5, <2>6 DEF ProvInv
<1>5. CASE StartMigrations(d)
  <2>1. UNCHANGED <<pstatus, migrated>> /\ DeployAt(d) \in {"migrate", "remigrate"}
    BY <1>5 DEF StartMigrations
  <2>2. CASE migrated \/ migrationLock # NoDeploy
    <3>1. PICK to \in {"remigrate", "activate"} :
            /\ Moves(d, to) /\ UNCHANGED <<migrationLock, result>>
            /\ unawaited' = (unawaited \/ (~migrated /\ DeployAt(d) = "remigrate"))
            /\ to = "activate" => DeployAt(d) = "remigrate"
      BY <1>5, <2>2 DEF StartMigrations
    <3>2. unawaited' \in BOOLEAN /\ (unawaited => unawaited') /\ (to = "activate" => migrated \/ unawaited')
      BY <3>1
    <3> QED
      BY <1>4, <2>1, <3>1, <3>2, DeployTypes DEF Migrating
  <2>3. CASE ~migrated /\ migrationLock = NoDeploy /\ schema = Blank
    <3>1. Moves(d, "idle") /\ result' = [result EXCEPT ![d] = "failed"] /\ UNCHANGED <<migrationLock, unawaited>>
      BY <1>5, <2>3 DEF StartMigrations, Ends
    <3> QED
      BY <1>4, <2>1, <3>1, DeployTypes DEF Migrating
  <2>4. CASE ~migrated /\ migrationLock = NoDeploy /\ schema # Blank
    <3>1. PICK to \in {"migrating", "remigrating"} :
            Moves(d, to) /\ migrationLock' = d /\ UNCHANGED <<result, unawaited>>
      BY <1>5, <2>4 DEF StartMigrations
    <3> QED
      BY <1>4, <2>1, <2>4, <3>1, DeployTypes DEF Migrating
  <2> QED
    BY <2>2, <2>3, <2>4
<1>6. CASE FinishMigrations(d)
  <2>1. /\ UNCHANGED <<pstatus, unawaited>> /\ migrationLock' = NoDeploy /\ DeployAt(d) \in Migrating
    BY <1>6 DEF FinishMigrations
  <2>2. CASE pstatus = "gone"
    <3>1. Moves(d, "idle") /\ result' = [result EXCEPT ![d] = "failed"] /\ UNCHANGED migrated
      BY <1>6, <2>2 DEF FinishMigrations, Ends
    <3> QED
      BY <1>4, <2>1, <3>1, DeployTypes DEF Migrating
  <2>3. CASE pstatus # "gone"
    <3>1. PICK to \in {"remigrate", "activate"} : Moves(d, to) /\ UNCHANGED result /\ migrated' = TRUE
      BY <1>6, <2>3 DEF FinishMigrations
    <3> QED
      BY <1>4, <2>1, <3>1, DeployTypes DEF Migrating
  <2> QED
    BY <2>2, <2>3
<1>7. CASE MigrationsFail(d)
  <2>1. /\ Moves(d, "idle") /\ result' = [result EXCEPT ![d] = "failed"] /\ migrationLock' = NoDeploy
        /\ UNCHANGED <<pstatus, migrated, unawaited>> /\ DeployAt(d) \in Migrating
    BY <1>7 DEF MigrationsFail, Ends
  <2> QED
    BY <1>4, <2>1, DeployTypes DEF Migrating
<1>8. CASE Activate(d)
  <2>1. UNCHANGED <<migrated, migrationLock, unawaited>> /\ DeployAt(d) = "activate"
    BY <1>8 DEF Activate
  <2>2. Moves(d, "idle") /\ (result' = result \/ result' = [result EXCEPT ![d] = "failed"])
    BY <1>8 DEF Activate, Ends
  <2>3. pstatus' = pstatus \/ (pstatus' = "active" /\ pstatus = "provisioning")
    BY <1>8 DEF Activate, Ends
  <2> QED
    BY <1>4, <2>1, <2>2, <2>3, DeployTypes DEF Migrating
<1> QED
  BY <1>5, <1>6, <1>7, <1>8

LEMMA OthersKeepProv ==
  ASSUME ProvInv, \/ \E to \in {"suspended", "active", "deleting"} : TransitionStatus(to)
                  \/ Erased \/ UNCHANGED provVars
  PROVE  ProvInv'
<1> USE DEF ProvInv, DeployShape, SeedIsAlone, MigrationIsAlone, ActivatesSeeded, DeployAt, Migrating,
            seedCounters, SeedIsWhole, Maintained
<1>1. ASSUME NEW to \in {"suspended", "active", "deleting"}, TransitionStatus(to) PROVE ProvInv'
  BY <1>1 DEF TransitionStatus
<1>2. CASE Erased
  BY <1>2 DEF Erased
<1>3. CASE UNCHANGED provVars
  BY <1>3 DEF provVars
<1> QED
  BY <1>1, <1>2, <1>3

LEMMA ProvKept == ProvInv /\ [ProvNext]_provVars => ProvInv'
  BY StartKeepsProv, LockTenantKeepsProv, SeedPartKeepsProv, SeedEnds, MigrationsKeepProv, OthersKeepProv DEF ProvNext, DeployStep

LEMMA ProvInvMeans == ProvInv => SeedIsWhole /\ SeedersAgree
  BY DEF ProvInv, DeployShape, SeedersAgree

(* Seeding a tenant (seedSystem, provisionTenant): what it serves is       *)
(* nothing or the whole set of locked databases, and of two concurrent     *)
(* deploys none runs into the other's, for any number of deploys, faults   *)
(* and changes of the tenant's status.                                     *)
THEOREM SeedsAreWhole == ProvSpec => [](SeedIsWhole /\ SeedersAgree)
<1> QED
  BY ProvInitially, ProvKept, ProvInvMeans, PTL DEF ProvSpec

LEMMA ActivationStep ==
  ProvInv /\ [ProvNext]_provVars =>
    [pstatus = "provisioning" /\ pstatus' = "active" => Whole(schema) /\ (migrated \/ unawaited)]_provVars
<1> SUFFICES ASSUME ProvInv, ProvNext, pstatus = "provisioning", pstatus' = "active"
             PROVE  Whole(schema) /\ (migrated \/ unawaited)
  BY DEF provVars
<1>1. PICK d \in Deploys : Activate(d)
  BY DEF ProvNext, DeployStep, ListTenants, TakeSeedLock, LockTenant, SeedPart, CommitSeed, SeedFails, CommitAnswerLost,
     StartMigrations, FinishMigrations, MigrationsFail, TransitionStatus, Erased
<1>2. DeployAt(d) = "activate"
  BY <1>1 DEF Activate
<1> QED
  BY <1>2 DEF ProvInv, ActivatesSeeded, DeployShape, SeedIsWhole

(* ... a tenant is activated only with all of it, and with the migrations  *)
(* of its modules applied unless another deploy was applying them.         *)
THEOREM ActivationIsSeeded == ProvSpec => ActivatedIsSeeded
<1> QED
  BY ProvInitially, ProvKept, ActivationStep, PTL DEF ProvSpec, ActivatedIsSeeded

LEMMA SeedingStep ==
  ProvInv /\ [ProvNext]_provVars => [schema' # schema /\ schema' # Blank => pstatus \in Maintained]_provVars
<1> SUFFICES ASSUME ProvInv, ProvNext, schema' # schema, schema' # Blank PROVE pstatus \in Maintained
  BY DEF provVars
<1>1. PICK d \in Deploys : CommitSeed(d) \/ CommitAnswerLost(d)
  BY DEF ProvNext, DeployStep, ListTenants, TakeSeedLock, LockTenant, SeedPart, SeedFails, Activate,
     StartMigrations, FinishMigrations, MigrationsFail, TransitionStatus, Erased
<1>2. DeployAt(d) = "seeding"
  BY <1>1 DEF CommitSeed, CommitAnswerLost
<1> QED
  BY <1>2 DEF ProvInv, SeedIsAlone

(* ... and no seed is written into a tenant that is being deleted.         *)
THEOREM DeletedGetsNoSeed == ProvSpec => DeletedIsNotSeeded
<1> QED
  BY ProvInitially, ProvKept, SeedingStep, PTL DEF ProvSpec, DeletedIsNotSeeded

-----------------------------------------------------------------------------
(* The data migration of a module. *)

ItemRecs == {r \in [shape : {"none", "old", "new"}, edits : Nat] : r.shape = "none" => r.edits = 0}

DMTyped ==
    /\ stored \in [ItemIds -> ItemRecs]
    /\ progress \in [pass : 0 .. 2, cursor : 0 .. MaxItem] /\ recorded \in BOOLEAN
    /\ runner \in [Migrators -> [at : {"idle", "checking", "batch", "locking", "converting", "record"},
                                 page : SUBSET ItemIds, rows : [ItemIds -> ItemRecs],
                                 read : [pass : 0 .. 2, cursor : 0 .. MaxItem]]]
    /\ sessionLock \in Migrators \cup {NoRunner}
    /\ itemLock \in [ItemIds -> Migrators \cup ItemEditors \cup {NoRunner}]
    /\ editor \in [ItemEditors -> [does : {"idle", "edit", "create"}, item : 0 .. MaxItem, row : ItemRecs]]
    /\ edited \in [ItemIds -> Nat] /\ slipped \subseteq ItemIds /\ lockLoss \in BOOLEAN
    /\ editsMade \in 0 .. MaxItemEdits

\* A request holds the row it edits as it read it; the item it creates is there for nobody yet.
EditorsHold ==
    \A e \in ItemEditors : editor[e] # NoEdit =>
        /\ editor[e].does # "idle" /\ editor[e].item \in ItemIds
        /\ editor[e].does = "edit" =>
             /\ itemLock[editor[e].item] = e /\ editor[e].row = stored[editor[e].item]
             /\ stored[editor[e].item].shape # "none"
        /\ editor[e].does = "create" =>
             /\ stored[editor[e].item].shape = "none" /\ editor[e].row = [shape |-> "old", edits |-> 0]
             /\ \A o \in ItemEditors \ {e} : editor[o].item # editor[e].item

InPage(m) == runner[m].at \in {"locking", "converting"}

\* A page is of rows after the cursor; the rows it converts are the committed ones.
PagesHeld ==
    \A m \in Migrators :
      /\ InPage(m) => /\ runner[m].read.pass \in {1, 2}
                      /\ \A i \in runner[m].page : stored[i].shape # "none" /\ i > runner[m].read.cursor
      /\ runner[m].at = "converting" =>
           \A i \in runner[m].page : itemLock[i] = m /\ runner[m].rows[i] = stored[i]

Converted(i) == i \in slipped \/ stored[i].shape # "old"

\* What the second pass has left behind it is converted, wherever its runner is.
PassesConvert ==
    /\ progress.pass = 2 => \A i \in 1 .. progress.cursor : Converted(i)
    /\ \A m \in Migrators : InPage(m) /\ runner[m].read.pass = 2 =>
         \A i \in ItemIds \ runner[m].page :
            (\/ i <= runner[m].read.cursor \/ Cardinality(runner[m].page) < MigrationPage
             \/ \E j \in runner[m].page : i < j) => Converted(i)
    /\ recorded \/ (\E m \in Migrators : runner[m].at = "record") => \A i \in ItemIds : Converted(i)
    /\ \A m \in Migrators : InPage(m) => Cardinality(runner[m].page) <= MigrationPage

\* While no lock is lost one runner runs, from the progress as it is.
OneRunner ==
    ~lockLoss => \A m \in Migrators : runner[m].at # "idle" =>
        sessionLock = m /\ (InPage(m) => runner[m].read = ReadProgress)

EditsFit == \A i \in ItemIds : edited[i] + (IF itemLock[i] \in ItemEditors THEN 1 ELSE 0) <= editsMade

DMInv == /\ DMTyped /\ EditorsHold /\ PagesHeld /\ PassesConvert /\ OneRunner /\ EditsFit
         /\ NoEditIsOverwritten

LEMMA ItemsAreNumbers ==
  /\ MaxItem \in Nat /\ MigrationPage \in Nat \ {0}
  /\ \A i \in ItemIds : i \in Nat /\ 1 <= i /\ i <= MaxItem
  BY DataMigrationAssumption DEF ItemIds

LEMMA GreatestItem ==
  ASSUME NEW S \in SUBSET ItemIds, S # {}
  PROVE  \E i \in S : \A j \in S : j <= i
<1> DEFINE T == {MaxItem - i : i \in S}
<1>0. \A i \in S : MaxItem - i \in Nat /\ i \in Nat
  BY ItemsAreNumbers
<1>1. T \in SUBSET Nat /\ T # {} /\ MaxItem \in Nat
  BY <1>0, ItemsAreNumbers
<1>2. PICK x \in T : \A y \in T : x <= y
  BY <1>1, LeastNat
<1>3. PICK i \in S : x = MaxItem - i
  BY <1>2
<1>4. ASSUME NEW j \in S PROVE j <= i
  <2>1. MaxItem - j \in T
    OBVIOUS
  <2>2. x <= MaxItem - j
    BY <1>2, <2>1
  <2> HIDE DEF T
  <2> QED
    BY <2>1, <2>2, <1>0, <1>1, <1>3
<1> QED
  BY <1>4

LEMMA LastOfPage ==
  ASSUME NEW page \in SUBSET ItemIds, page # {}, NEW c
  PROVE  LastOf(page, c) \in page /\ \A j \in page : j <= LastOf(page, c)
<1>1. \E i \in page : \A j \in page : j <= i
  BY GreatestItem
<1> QED
  BY <1>1 DEF LastOf

\* A page is the first rows of those there are, and all of them when it is short.
LEMMA FirstOfRows ==
  ASSUME NEW ids \in SUBSET ItemIds
  PROVE  /\ FirstOf(ids) \subseteq ids
         /\ Cardinality(FirstOf(ids)) \in Nat /\ Cardinality(FirstOf(ids)) <= MigrationPage
         /\ \A i \in ids \ FirstOf(ids), j \in FirstOf(ids) : ~(i < j)
         /\ Cardinality(FirstOf(ids)) < MigrationPage => FirstOf(ids) = ids
<1> DEFINE below(i) == {j \in ids : j < i}
           page == FirstOf(ids)
<1>1. IsFiniteSet(ids) /\ MaxItem \in Nat /\ MigrationPage \in Nat \ {0}
  <2>1. MaxItem \in Nat /\ MigrationPage \in Nat \ {0}
    BY DataMigrationAssumption
  <2>2. IsFiniteSet(1 .. MaxItem)
    BY <2>1, FS_Interval
  <2> QED
    BY <2>1, <2>2, FS_Subset DEF ItemIds
<1>2. page = {i \in ids : Cardinality(below(i)) < MigrationPage} /\ page \subseteq ids
  BY DEF FirstOf
<1>3. \A i \in ids : IsFiniteSet(below(i)) /\ Cardinality(below(i)) \in Nat
  <2> SUFFICES ASSUME NEW i \in ids PROVE IsFiniteSet(below(i)) /\ Cardinality(below(i)) \in Nat
    OBVIOUS
  <2>1. below(i) \subseteq ids
    OBVIOUS
  <2> HIDE DEF below
  <2> QED
    BY <2>1, <1>1, FS_Subset, FS_CardinalityType
<1>4. IsFiniteSet(page) /\ Cardinality(page) \in Nat
  BY <1>1, <1>2, FS_Subset, FS_CardinalityType
<1>5. \A i \in ids \ page, j \in page : ~(i < j)
  <2> SUFFICES ASSUME NEW i \in ids \ page, NEW j \in page, i < j PROVE FALSE
    OBVIOUS
  <2>1. below(i) \subseteq below(j)
    <3>1. i \in Nat /\ j \in Nat /\ \A x \in ids : x \in Nat
      BY <1>2, ItemsAreNumbers
    <3>2. ASSUME NEW x \in below(i) PROVE x \in below(j)
      <4>1. x \in ids /\ x < i /\ x \in Nat
        BY <3>1
      <4>2. x < j
        BY <4>1, <3>1
      <4> QED
        BY <4>1, <4>2
    <3> HIDE DEF below
    <3> QED
      BY <3>2
  <2>2. Cardinality(below(i)) <= Cardinality(below(j)) /\ Cardinality(below(j)) < MigrationPage
    BY <2>1, <1>2, <1>3, FS_Subset
  <2>3. ~(Cardinality(below(i)) < MigrationPage)
    BY <1>2
  <2>4. Cardinality(below(i)) \in Nat /\ Cardinality(below(j)) \in Nat
    BY <1>2, <1>3
  <2> HIDE DEF below
  <2> QED
    BY <2>2, <2>3, <2>4, <1>1
<1>6. Cardinality(page) <= MigrationPage
  <2>1. CASE page = {}
    BY <2>1, <1>1, FS_EmptySet
  <2>2. CASE page # {}
    <3>1. PICK e \in page : \A j \in page : j <= e
      BY <1>2, <2>2, GreatestItem
    <3>2. page \ {e} \subseteq below(e)
      <4>1. e \in Nat /\ \A x \in page : x \in Nat
        BY <1>2, ItemsAreNumbers
      <4>2. ASSUME NEW x \in page \ {e} PROVE x \in below(e)
        <5>1. x \in ids /\ x <= e /\ x # e /\ x \in Nat
          BY <1>2, <3>1, <4>1
        <5>2. x < e
          BY <5>1, <4>1
        <5> QED
          BY <5>1, <5>2
      <4> HIDE DEF below, page
      <4> QED
        BY <4>2
    <3>3. Cardinality(page \ {e}) = Cardinality(page) - 1 /\ IsFiniteSet(page \ {e})
      BY <1>4, <3>1, FS_RemoveElement
    <3>4. Cardinality(page \ {e}) <= Cardinality(below(e)) /\ Cardinality(below(e)) \in Nat
      BY <1>2, <1>3, <3>2, FS_Subset
    <3>5. Cardinality(below(e)) < MigrationPage
      BY <1>2
    <3> QED
      BY <3>3, <3>4, <3>5, <1>1, <1>4
  <2> QED
    BY <2>1, <2>2
<1>7. ASSUME Cardinality(page) < MigrationPage PROVE page = ids
  <2> SUFFICES ASSUME ids \ page # {} PROVE FALSE
    BY <1>2
  <2>1. ids \ page \in SUBSET Nat /\ ids \in SUBSET Nat
    BY ItemsAreNumbers
  <2>2. PICK e \in ids \ page : \A j \in ids \ page : e <= j
    BY <2>1, LeastNat
  <2>3. below(e) \subseteq page
    BY <2>1, <2>2
  <2>4. Cardinality(below(e)) <= Cardinality(page) /\ Cardinality(below(e)) \in Nat
    BY <2>3, <1>3, <1>4, FS_Subset
  <2>5. ~(Cardinality(below(e)) < MigrationPage)
    BY <1>2
  <2> QED
    BY <2>4, <2>5, <1>1, <1>4, <1>7
<1> QED
  BY <1>2, <1>4, <1>5, <1>6, <1>7

LEMMA NoRowIsRec == NoRow \in ItemRecs /\ [shape |-> "old", edits |-> 0] \in ItemRecs
  BY DEF NoRow, ItemRecs

LEMMA ThereIsShape ==
  ASSUME DMTyped, NEW i \in ItemIds
  PROVE  There(i) <=> stored[i].shape # "none"
<1>1. stored[i] \in ItemRecs
  BY DEF DMTyped
<1> QED
  BY <1>1 DEF There, NoRow, ItemRecs

RunnerRecs ==
    [at : {"idle", "checking", "batch", "locking", "converting", "record"},
     page : SUBSET ItemIds, rows : [ItemIds -> ItemRecs], read : [pass : 0 .. 2, cursor : 0 .. MaxItem]]

LEMMA RestingIsRec ==
  /\ RunnerResting \in RunnerRecs
  /\ \A at \in {"idle", "checking", "batch", "record"} :
       [RunnerResting EXCEPT !.at = at] \in RunnerRecs /\ [RunnerResting EXCEPT !.at = at].at = at
  BY NoRowIsRec, DataMigrationAssumption DEF RunnerResting, RunnerRecs

LEMMA MigrationInitially == DMInit => DMInv
<1> SUFFICES ASSUME DMInit PROVE DMInv
  OBVIOUS
<1>1. NoEdit \in [does : {"idle", "edit", "create"}, item : 0 .. MaxItem, row : ItemRecs] /\ MaxItem \in Nat /\ MaxItemEdits \in Nat
  BY NoRowIsRec, DataMigrationAssumption DEF NoEdit
<1>2. stored \in [ItemIds -> ItemRecs] /\ \A i \in ItemIds : stored[i].edits = 0
  BY NoRowIsRec DEF DMInit, NoRow
<1>3. DMTyped
  <2>1. runner \in [Migrators -> RunnerRecs]
    BY RestingIsRec DEF DMInit
  <2>2. editor \in [ItemEditors -> [does : {"idle", "edit", "create"}, item : 0 .. MaxItem, row : ItemRecs]]
    BY <1>1 DEF DMInit
  <2>3. progress \in [pass : 0 .. 2, cursor : 0 .. MaxItem] /\ editsMade \in 0 .. MaxItemEdits
    BY <1>1 DEF DMInit
  <2> QED
    BY <1>2, <2>1, <2>2, <2>3 DEF DMInit, DMTyped, RunnerRecs
<1>4. \A m \in Migrators : runner[m].at = "idle"
  BY DEF DMInit, RunnerResting
<1>5. EditorsHold /\ PagesHeld /\ PassesConvert /\ OneRunner
  BY <1>4 DEF DMInit, EditorsHold, PagesHeld, PassesConvert, OneRunner, InPage
<1>6. EditsFit /\ NoEditIsOverwritten
  BY <1>2, DataMigrationAssumption DEF DMInit, EditsFit, NoEditIsOverwritten
<1> QED
  BY <1>3, <1>5, <1>6 DEF DMInv

LEMMA RunnerIsRec ==
  ASSUME DMTyped, NEW m \in Migrators
  PROVE  runner[m] \in RunnerRecs
  BY DEF DMTyped, RunnerRecs

\* A runner without a page leaves the rows and the requests alone.
LEMMA QuietRunnerKeeps ==
  ASSUME DMInv, NEW m \in Migrators,
         UNCHANGED <<stored, editor, edited, slipped, editsMade>>,
         runner' \in [Migrators -> RunnerRecs], \A n \in Migrators \ {m} : runner'[n] = runner[n],
         runner'[m].at \in {"idle", "checking", "batch", "record"},
         runner'[m].at = "record" => \A i \in ItemIds : Converted(i),
         \A i \in ItemIds : itemLock'[i] = itemLock[i] \/ (itemLock[i] = m /\ itemLock'[i] = NoRunner),
         itemLock' \in [ItemIds -> Migrators \cup ItemEditors \cup {NoRunner}],
         sessionLock' \in Migrators \cup {NoRunner}, lockLoss' \in BOOLEAN,
         progress' \in [pass : 0 .. 2, cursor : 0 .. MaxItem],
         progress'.pass = 2 => \A i \in 1 .. progress'.cursor : Converted(i),
         recorded' \in BOOLEAN, recorded' => \A i \in ItemIds : Converted(i)
  PROVE  DMTyped' /\ EditorsHold' /\ PagesHeld' /\ PassesConvert' /\ EditsFit' /\ NoEditIsOverwritten'
<1> USE DEF DMInv
<1>1. DMTyped'
  BY DEF DMTyped, RunnerRecs
<1>2. Migrators \cap ItemEditors = {} /\ NoRunner \notin Migrators \cup ItemEditors
  BY DataMigrationAssumption
<1>3. EditorsHold'
  <2> SUFFICES ASSUME NEW e \in ItemEditors, editor[e] # NoEdit
               PROVE  /\ editor[e].does # "idle" /\ editor[e].item \in ItemIds
                      /\ editor[e].does = "edit" =>
                           /\ itemLock'[editor[e].item] = e /\ editor[e].row = stored[editor[e].item]
                           /\ stored[editor[e].item].shape # "none"
                      /\ editor[e].does = "create" =>
                           /\ stored[editor[e].item].shape = "none" /\ editor[e].row = [shape |-> "old", edits |-> 0]
                           /\ \A o \in ItemEditors \ {e} : editor[o].item # editor[e].item
    BY DEF EditorsHold, NoEdit, NoRow
  <2> QED
    BY <1>2 DEF EditorsHold
<1>4. \A i \in ItemIds : Converted(i)' <=> Converted(i)
  BY DEF Converted
<1>5. PagesHeld'
  <2> SUFFICES ASSUME NEW n \in Migrators, n # m PROVE
      /\ InPage(n)' => /\ runner'[n].read.pass \in {1, 2}
                      /\ \A i \in runner'[n].page : stored'[i].shape # "none" /\ i > runner'[n].read.cursor
      /\ runner'[n].at = "converting" =>
           \A i \in runner'[n].page : itemLock'[i] = n /\ runner'[n].rows[i] = stored'[i]
    BY DEF PagesHeld, InPage
  <2>1. runner'[n] = runner[n] /\ runner[n].page \subseteq ItemIds
    BY RunnerIsRec DEF RunnerRecs
  <2> QED
    BY <2>1 DEF PagesHeld, InPage
<1>6. PassesConvert'
  <2>1. progress'.pass = 2 => \A i \in 1 .. progress'.cursor : Converted(i)'
    <3>1. \A i \in 1 .. progress'.cursor : i \in ItemIds
      BY ItemsAreNumbers DEF ItemIds
    <3> QED
      BY <3>1, <1>4
  <2>2. ASSUME NEW n \in Migrators, InPage(n)'
        PROVE  /\ runner'[n].read.pass = 2 => \A i \in ItemIds \ runner'[n].page :
                  (\/ i <= runner'[n].read.cursor \/ Cardinality(runner'[n].page) < MigrationPage
                   \/ \E j \in runner'[n].page : i < j) => Converted(i)'
               /\ Cardinality(runner'[n].page) <= MigrationPage
    <3>1. n # m /\ runner'[n] = runner[n] /\ InPage(n)
      BY <2>2 DEF InPage
    <3> QED
      BY <3>1, <1>4 DEF PassesConvert
  <2>3. ASSUME recorded' \/ (\E n \in Migrators : runner'[n].at = "record") PROVE \A i \in ItemIds : Converted(i)'
    BY <2>3, <1>4 DEF PassesConvert
  <2> QED
    BY <2>1, <2>2, <2>3 DEF PassesConvert
<1>7. EditsFit' /\ NoEditIsOverwritten'
  BY <1>2 DEF EditsFit, NoEditIsOverwritten
<1> QED
  BY <1>1, <1>3, <1>5, <1>6, <1>7

LEMMA LocksReleased ==
  ASSUME DMTyped, NEW m \in Migrators
  PROVE  /\ ReleasePage(m) =>
              /\ \A i \in ItemIds : itemLock'[i] = itemLock[i] \/ (itemLock[i] = m /\ itemLock'[i] = NoRunner)
              /\ \A i \in ItemIds : itemLock[i] # m => itemLock'[i] = itemLock[i]
              /\ itemLock' \in [ItemIds -> Migrators \cup ItemEditors \cup {NoRunner}]
         /\ UnlockSession(m) =>
              /\ sessionLock' \in Migrators \cup {NoRunner}
              /\ sessionLock # m => sessionLock' = sessionLock
         /\ \A at \in {"idle", "checking", "batch", "record"} : Goes(m, at) =>
              /\ runner' \in [Migrators -> RunnerRecs] /\ runner'[m].at = at
              /\ \A n \in Migrators \ {m} : runner'[n] = runner[n]
<1>1. runner \in [Migrators -> RunnerRecs]
  BY DEF DMTyped, RunnerRecs
<1>2. ReleasePage(m) =>
              /\ \A i \in ItemIds : itemLock'[i] = itemLock[i] \/ (itemLock[i] = m /\ itemLock'[i] = NoRunner)
              /\ \A i \in ItemIds : itemLock[i] # m => itemLock'[i] = itemLock[i]
              /\ itemLock' \in [ItemIds -> Migrators \cup ItemEditors \cup {NoRunner}]
  BY DEF DMTyped, ReleasePage
<1>3. UnlockSession(m) =>
              /\ sessionLock' \in Migrators \cup {NoRunner}
              /\ sessionLock # m => sessionLock' = sessionLock
  BY DEF DMTyped, UnlockSession
<1>4. \A at \in {"idle", "checking", "batch", "record"} : Goes(m, at) =>
              /\ runner' \in [Migrators -> RunnerRecs] /\ runner'[m].at = at
              /\ \A n \in Migrators \ {m} : runner'[n] = runner[n]
  BY <1>1, RestingIsRec DEF Goes
<1> QED
  BY <1>2, <1>3, <1>4

\* A runner starts, finds the migration recorded or not, records it, or stops.
LEMMA RunnersKeepMigration ==
  ASSUME DMInv, NEW m \in Migrators,
         StartRunner(m) \/ CheckRecorded(m) \/ RecordMigration(m) \/ RunnerFails(m)
  PROVE  DMInv'
<1> USE DEF DMInv
<1>1. /\ UNCHANGED <<stored, editor, edited, slipped, editsMade, lockLoss>>
      /\ \E at \in {"idle", "checking", "batch"} : Goes(m, at)
      /\ itemLock' = itemLock \/ ReleasePage(m)
      /\ \/ progress' = progress /\ recorded' = recorded
         \/ runner[m].at = "record" /\ recorded' = TRUE /\ progress' = [pass |-> 0, cursor |-> 0]
      /\ sessionLock' = sessionLock \/ sessionLock' = m \/ UnlockSession(m)
  BY DEF StartRunner, CheckRecorded, RecordMigration, RunnerFails
<1>2. /\ runner' \in [Migrators -> RunnerRecs] /\ runner'[m].at \in {"idle", "checking", "batch"}
      /\ \A n \in Migrators \ {m} : runner'[n] = runner[n]
  BY <1>1, LocksReleased
<1>3. /\ \A i \in ItemIds : itemLock'[i] = itemLock[i] \/ (itemLock[i] = m /\ itemLock'[i] = NoRunner)
      /\ itemLock' \in [ItemIds -> Migrators \cup ItemEditors \cup {NoRunner}]
      /\ sessionLock' \in Migrators \cup {NoRunner}
  BY <1>1, LocksReleased DEF DMTyped
<1>4. /\ progress' \in [pass : 0 .. 2, cursor : 0 .. MaxItem]
      /\ progress'.pass = 2 => \A i \in 1 .. progress'.cursor : Converted(i)
      /\ recorded' \in BOOLEAN
      /\ recorded' => \A i \in ItemIds : Converted(i)
  <2>1. CASE progress' = progress /\ recorded' = recorded
    BY <2>1 DEF DMTyped, PassesConvert
  <2>2. CASE runner[m].at = "record" /\ recorded' = TRUE /\ progress' = [pass |-> 0, cursor |-> 0]
    BY <2>2, ItemsAreNumbers DEF PassesConvert
  <2> QED
    BY <1>1, <2>1, <2>2
<1>5. DMTyped' /\ EditorsHold' /\ PagesHeld' /\ PassesConvert' /\ EditsFit' /\ NoEditIsOverwritten'
  BY <1>1, <1>2, <1>3, <1>4, QuietRunnerKeeps DEF DMTyped
<1>6. OneRunner'
  <2> SUFFICES ASSUME ~lockLoss, NEW n \in Migrators, runner'[n].at # "idle"
               PROVE  sessionLock' = n /\ (InPage(n)' => runner'[n].read = ReadProgress')
    BY <1>1 DEF OneRunner
  <2>1. CASE StartRunner(m)
    <3>1. sessionLock = NoRunner /\ sessionLock' = m /\ NoRunner \notin Migrators
      BY <2>1, DataMigrationAssumption DEF StartRunner
    <3>2. n = m
      BY <3>1, <1>2 DEF OneRunner
    <3> QED
      BY <3>1, <3>2, <1>2 DEF InPage
  <2>2. CASE CheckRecorded(m) \/ RecordMigration(m) \/ RunnerFails(m)
    <3>1. runner[m].at # "idle"
      BY <2>2 DEF CheckRecorded, RecordMigration, RunnerFails
    <3>2. sessionLock = m /\ \A u \in Migrators \ {m} : runner[u].at = "idle"
      BY <3>1 DEF OneRunner
    <3>3. n = m
      BY <3>2, <1>2
    <3>4. runner'[m].at = "batch" /\ sessionLock' = sessionLock
      <4>1. ~Goes(m, "idle")
        BY <3>3, LocksReleased
      <4> QED
        BY <4>1, <2>2, LocksReleased DEF CheckRecorded, RecordMigration, RunnerFails
    <3> QED
      BY <3>2, <3>3, <3>4 DEF InPage
  <2> QED
    BY <2>1, <2>2
<1> QED
  BY <1>5, <1>6

LEMMA LockLossKeepsMigration ==
  ASSUME DMInv, NEW m \in Migrators, LosesSessionLock(m)
  PROVE  DMInv'
<1>1. UNCHANGED <<stored, progress, recorded, runner, itemLock, editor, edited, slipped, editsMade>>
      /\ sessionLock' = NoRunner /\ lockLoss' = TRUE
  BY DEF LosesSessionLock
<1>2. DMTyped' /\ EditorsHold' /\ PagesHeld' /\ PassesConvert' /\ EditsFit' /\ NoEditIsOverwritten' /\ OneRunner'
  BY <1>1 DEF DMInv, DMTyped, EditorsHold, PagesHeld, PassesConvert, EditsFit, NoEditIsOverwritten, OneRunner, Converted, InPage
<1> QED
  BY <1>2 DEF DMInv

\* A request begins: it locks the row it edits, or has an id of its own.
LEMMA StartsKeepMigration ==
  ASSUME DMInv, NEW e \in ItemEditors, NEW i \in ItemIds, StartEdit(e, i) \/ StartCreate(e, i)
  PROVE  DMInv'
<1> USE DEF DMInv
<1>1. /\ UNCHANGED <<stored, progress, recorded, runner, sessionLock, edited, slipped, lockLoss>>
      /\ editor[e] = NoEdit /\ editsMade < MaxItemEdits /\ editsMade' = editsMade + 1
      /\ editsMade \in Nat /\ editsMade' \in 0 .. MaxItemEdits
      /\ There(i) <=> stored[i].shape # "none"
  BY ThereIsShape, DataMigrationAssumption DEF StartEdit, StartCreate, DMTyped
<1>2. \A j \in ItemIds : Converted(j)' <=> Converted(j)
  BY <1>1 DEF Converted
<1>3. PassesConvert'
  <2>1. progress.pass = 2 => \A j \in 1 .. progress.cursor : Converted(j)'
    <3>1. \A j \in 1 .. progress.cursor : j \in ItemIds
      BY ItemsAreNumbers DEF ItemIds, DMTyped
    <3> QED
      BY <3>1, <1>2 DEF PassesConvert
  <2> QED
    BY <2>1, <1>1, <1>2 DEF PassesConvert, InPage
<1>4. OneRunner'
  BY <1>1 DEF OneRunner, InPage, ReadProgress
<1>5. CASE StartEdit(e, i)
  <2>1. /\ stored[i].shape # "none" /\ itemLock[i] = NoRunner
        /\ itemLock' = [itemLock EXCEPT ![i] = e]
        /\ editor' = [editor EXCEPT ![e] = [does |-> "edit", item |-> i, row |-> stored[i]]]
    BY <1>5, <1>1 DEF StartEdit
  <2>2. /\ itemLock'[i] = e /\ \A j \in ItemIds \ {i} : itemLock'[j] = itemLock[j]
        /\ editor'[e] = [does |-> "edit", item |-> i, row |-> stored[i]]
        /\ \A o \in ItemEditors \ {e} : editor'[o] = editor[o]
    BY <2>1 DEF DMTyped
  <2>3. DMTyped'
    <3>1. [does |-> "edit", item |-> i, row |-> stored[i]]
             \in [does : {"idle", "edit", "create"}, item : 0 .. MaxItem, row : ItemRecs]
      BY ItemsAreNumbers DEF DMTyped
    <3> QED
      BY <1>1, <2>1, <3>1 DEF DMTyped
  <2>4. NoRunner \notin Migrators \cup ItemEditors
    BY DataMigrationAssumption
  <2>5. EditorsHold'
    <3> SUFFICES ASSUME NEW o \in ItemEditors, editor'[o] # NoEdit
                 PROVE  /\ editor'[o].does # "idle" /\ editor'[o].item \in ItemIds
                        /\ editor'[o].does = "edit" =>
                             /\ itemLock'[editor'[o].item] = o /\ editor'[o].row = stored[editor'[o].item]
                             /\ stored[editor'[o].item].shape # "none"
                        /\ editor'[o].does = "create" =>
                             /\ stored[editor'[o].item].shape = "none" /\ editor'[o].row = [shape |-> "old", edits |-> 0]
                             /\ \A u \in ItemEditors \ {o} : editor'[u].item # editor'[o].item
      BY <1>1 DEF EditorsHold, NoEdit, NoRow
    <3>1. CASE o = e
      BY <3>1, <2>1, <2>2
    <3>2. CASE o # e
      <4>1. editor'[o] = editor[o] /\ editor[o] # NoEdit
        BY <3>2, <2>2
      <4>2. editor[o].does = "edit" => editor[o].item # i
        BY <4>1, <2>1, <2>4 DEF EditorsHold
      <4>3. editor[o].does = "create" => editor[o].item # i
        BY <4>1, <2>1 DEF EditorsHold
      <4> QED
        BY <4>1, <4>2, <4>3, <2>2 DEF EditorsHold
    <3> QED
      BY <3>1, <3>2
  <2>6. PagesHeld'
    <3> SUFFICES ASSUME NEW n \in Migrators, runner[n].at = "converting", NEW j \in runner[n].page
                 PROVE  itemLock'[j] = n
      BY <1>1 DEF PagesHeld, InPage
    <3>1. itemLock[j] = n /\ j \in ItemIds
      BY RunnerIsRec DEF PagesHeld, RunnerRecs
    <3> QED
      BY <3>1, <2>1, <2>2, <2>4
  <2>7. EditsFit'
    <3> SUFFICES ASSUME NEW j \in ItemIds
                 PROVE  edited[j] + (IF itemLock'[j] \in ItemEditors THEN 1 ELSE 0) <= editsMade + 1
      BY <1>1 DEF EditsFit
    <3>1. edited[j] + (IF itemLock[j] \in ItemEditors THEN 1 ELSE 0) <= editsMade /\ edited[j] \in Nat
      BY DEF EditsFit, DMTyped
    <3> QED
      BY <3>1, <2>1, <2>2, <2>4, <1>1
  <2> QED
    BY <1>1, <1>3, <1>4, <2>3, <2>5, <2>6, <2>7 DEF NoEditIsOverwritten
<1>6. CASE StartCreate(e, i)
  <2>1. /\ stored[i].shape = "none" /\ \A o \in ItemEditors : editor[o].item # i
        /\ editor' = [editor EXCEPT ![e] = [does |-> "create", item |-> i, row |-> [shape |-> "old", edits |-> 0]]]
        /\ itemLock' = itemLock
    BY <1>6, <1>1 DEF StartCreate
  <2>2. /\ editor'[e] = [does |-> "create", item |-> i, row |-> [shape |-> "old", edits |-> 0]]
        /\ \A o \in ItemEditors \ {e} : editor'[o] = editor[o]
    BY <2>1 DEF DMTyped
  <2>3. DMTyped'
    <3>1. [does |-> "create", item |-> i, row |-> [shape |-> "old", edits |-> 0]]
             \in [does : {"idle", "edit", "create"}, item : 0 .. MaxItem, row : ItemRecs]
      BY ItemsAreNumbers, NoRowIsRec
    <3> QED
      BY <1>1, <2>1, <3>1 DEF DMTyped
  <2>5. EditorsHold'
    <3> SUFFICES ASSUME NEW o \in ItemEditors, editor'[o] # NoEdit
                 PROVE  /\ editor'[o].does # "idle" /\ editor'[o].item \in ItemIds
                        /\ editor'[o].does = "edit" =>
                             /\ itemLock[editor'[o].item] = o /\ editor'[o].row = stored[editor'[o].item]
                             /\ stored[editor'[o].item].shape # "none"
                        /\ editor'[o].does = "create" =>
                             /\ stored[editor'[o].item].shape = "none" /\ editor'[o].row = [shape |-> "old", edits |-> 0]
                             /\ \A u \in ItemEditors \ {o} : editor'[u].item # editor'[o].item
      BY <1>1, <2>1 DEF EditorsHold, NoEdit, NoRow
    <3>1. CASE o = e
      BY <3>1, <2>1, <2>2
    <3>2. CASE o # e
      <4>1. editor'[o] = editor[o] /\ editor[o] # NoEdit
        BY <3>2, <2>2
      <4> QED
        BY <4>1, <2>1, <2>2 DEF EditorsHold
    <3> QED
      BY <3>1, <3>2
  <2>6. PagesHeld'
    BY <1>1, <2>1 DEF PagesHeld, InPage
  <2>7. EditsFit'
    <3> SUFFICES ASSUME NEW j \in ItemIds
                 PROVE  edited[j] + (IF itemLock[j] \in ItemEditors THEN 1 ELSE 0) <= editsMade + 1
      BY <1>1, <2>1 DEF EditsFit
    <3>1. edited[j] + (IF itemLock[j] \in ItemEditors THEN 1 ELSE 0) <= editsMade /\ edited[j] \in Nat
      BY DEF EditsFit, DMTyped
    <3> QED
      BY <3>1, <1>1
  <2> QED
    BY <1>1, <1>3, <1>4, <2>3, <2>5, <2>6, <2>7 DEF NoEditIsOverwritten
<1> QED
  BY <1>5, <1>6

\* The edit is written over the row it read, which nobody else could touch meanwhile.
LEMMA EditsKeepMigration ==
  ASSUME DMInv, NEW e \in ItemEditors, CommitEdit(e), editor[e].does = "edit"
  PROVE  DMInv'
<1> DEFINE i == editor[e].item
<1> USE DEF DMInv
<1>1. /\ UNCHANGED <<progress, recorded, runner, sessionLock, slipped, lockLoss, editsMade>>
      /\ stored' = [stored EXCEPT ![i] = [editor[e].row EXCEPT !.edits = @ + 1]]
      /\ edited' = [edited EXCEPT ![i] = @ + 1]
      /\ itemLock' = [itemLock EXCEPT ![i] = NoRunner]
      /\ editor' = [editor EXCEPT ![e] = NoEdit]
  BY DEF CommitEdit
<1>2. i \in ItemIds /\ itemLock[i] = e /\ editor[e].row = stored[i] /\ stored[i].shape # "none"
  BY DEF CommitEdit, EditorsHold
<1>3. NoRunner \notin Migrators \cup ItemEditors /\ Migrators \cap ItemEditors = {}
  BY DataMigrationAssumption
<1>4. /\ stored'[i].shape = stored[i].shape /\ stored'[i].edits = stored[i].edits + 1
      /\ \A j \in ItemIds \ {i} : stored'[j] = stored[j] /\ edited'[j] = edited[j] /\ itemLock'[j] = itemLock[j]
      /\ edited'[i] = edited[i] + 1 /\ itemLock'[i] = NoRunner
      /\ stored' \in [ItemIds -> ItemRecs]
  <2>1. stored[i] \in ItemRecs
    BY <1>2 DEF DMTyped
  <2>2. [stored[i] EXCEPT !.edits = @ + 1] \in ItemRecs
    BY <2>1, <1>2 DEF ItemRecs
  <2>3. stored' = [stored EXCEPT ![i] = [stored[i] EXCEPT !.edits = @ + 1]]
    BY <1>1, <1>2
  <2> HIDE DEF i
  <2> QED
    BY <1>1, <1>2, <2>1, <2>2, <2>3 DEF DMTyped, ItemRecs
<1>5. editor'[e] = NoEdit /\ \A o \in ItemEditors \ {e} : editor'[o] = editor[o]
  BY <1>1 DEF DMTyped
<1>6. DMTyped'
  <2>1. NoEdit \in [does : {"idle", "edit", "create"}, item : 0 .. MaxItem, row : ItemRecs]
    BY NoRowIsRec, ItemsAreNumbers DEF NoEdit
  <2>2. edited' \in [ItemIds -> Nat]
    BY <1>1, <1>2 DEF DMTyped
  <2>3. itemLock' \in [ItemIds -> Migrators \cup ItemEditors \cup {NoRunner}]
    BY <1>1, <1>2 DEF DMTyped
  <2> QED
    BY <1>1, <1>4, <2>1, <2>2, <2>3 DEF DMTyped
<1>7. \A o \in ItemEditors \ {e} : editor[o] # NoEdit => editor[o].item # i
  BY <1>2 DEF EditorsHold, DMTyped
<1>8. EditorsHold'
  <2> SUFFICES ASSUME NEW o \in ItemEditors, editor'[o] # NoEdit
                 PROVE  /\ editor'[o].does # "idle" /\ editor'[o].item \in ItemIds
                        /\ editor'[o].does = "edit" =>
                             /\ itemLock'[editor'[o].item] = o /\ editor'[o].row = stored'[editor'[o].item]
                             /\ stored'[editor'[o].item].shape # "none"
                        /\ editor'[o].does = "create" =>
                             /\ stored'[editor'[o].item].shape = "none" /\ editor'[o].row = [shape |-> "old", edits |-> 0]
                             /\ \A u \in ItemEditors \ {o} : editor'[u].item # editor'[o].item
      BY DEF EditorsHold, NoEdit, NoRow
  <2>1. o # e /\ editor'[o] = editor[o] /\ editor[o].item # i
    BY <1>5, <1>7
  <2>2. editor'[e].item = 0 /\ 0 \notin ItemIds
    BY <1>5, ItemsAreNumbers DEF NoEdit
  <2> HIDE DEF i
  <2> QED
    BY <2>1, <2>2, <1>4, <1>5 DEF EditorsHold
<1>9. PagesHeld'
  <2> SUFFICES ASSUME NEW n \in Migrators
               PROVE  /\ InPage(n) => /\ runner[n].read.pass \in {1, 2}
                                      /\ \A j \in runner[n].page : stored'[j].shape # "none" /\ j > runner[n].read.cursor
                      /\ runner[n].at = "converting" =>
                           \A j \in runner[n].page : itemLock'[j] = n /\ runner[n].rows[j] = stored'[j]
    BY <1>1 DEF PagesHeld, InPage
  <2>1. runner[n].page \subseteq ItemIds
    BY RunnerIsRec DEF RunnerRecs
  <2>2. runner[n].at = "converting" => i \notin runner[n].page
    BY <1>2, <1>3 DEF PagesHeld
  <2> HIDE DEF i
  <2> QED
    BY <2>1, <2>2, <1>4 DEF PagesHeld
<1>10. \A j \in ItemIds : Converted(j)' <=> Converted(j)
  BY <1>1, <1>4 DEF Converted
<1>11. PassesConvert'
  <2>1. progress.pass = 2 => \A j \in 1 .. progress.cursor : Converted(j)'
    <3>1. \A j \in 1 .. progress.cursor : j \in ItemIds
      BY ItemsAreNumbers DEF ItemIds, DMTyped
    <3> QED
      BY <3>1, <1>10 DEF PassesConvert
  <2> QED
    BY <2>1, <1>1, <1>10 DEF PassesConvert, InPage
<1>12. OneRunner'
  BY <1>1 DEF OneRunner, InPage, ReadProgress
<1>13. EditsFit' /\ NoEditIsOverwritten'
  <2> SUFFICES ASSUME NEW j \in ItemIds
               PROVE  /\ edited'[j] + (IF itemLock'[j] \in ItemEditors THEN 1 ELSE 0) <= editsMade
                      /\ stored'[j].edits = edited'[j]
    BY <1>1 DEF EditsFit, NoEditIsOverwritten
  <2>1. /\ edited[j] + (IF itemLock[j] \in ItemEditors THEN 1 ELSE 0) <= editsMade /\ edited[j] \in Nat
        /\ stored[j].edits = edited[j]
    BY DEF EditsFit, DMTyped, NoEditIsOverwritten
  <2> HIDE DEF i
  <2> QED
    BY <2>1, <1>2, <1>3, <1>4
<1> QED
  BY <1>6, <1>8, <1>9, <1>11, <1>12, <1>13

\* An item is created in the old shape: ahead of the second pass, or behind it.
LEMMA CreatesKeepMigration ==
  ASSUME DMInv, NEW e \in ItemEditors, CommitEdit(e), editor[e].does # "edit"
  PROVE  DMInv'
<1> DEFINE i == editor[e].item
<1> USE DEF DMInv
<1>1. /\ UNCHANGED <<progress, recorded, runner, sessionLock, edited, itemLock, lockLoss, editsMade>>
      /\ stored' = [stored EXCEPT ![i] = editor[e].row]
      /\ slipped' = IF Behind(i) THEN slipped \cup {i} ELSE slipped
      /\ editor' = [editor EXCEPT ![e] = NoEdit]
  BY DEF CommitEdit
<1>2. /\ i \in ItemIds /\ stored[i].shape = "none" /\ editor[e].row = [shape |-> "old", edits |-> 0]
      /\ \A o \in ItemEditors \ {e} : editor[o].item # i
  BY DEF CommitEdit, EditorsHold, DMTyped
<1>4. /\ stored'[i] = [shape |-> "old", edits |-> 0]
      /\ \A j \in ItemIds \ {i} : stored'[j] = stored[j]
      /\ stored' \in [ItemIds -> ItemRecs]
  BY <1>1, <1>2, NoRowIsRec DEF DMTyped
<1>5. editor'[e] = NoEdit /\ \A o \in ItemEditors \ {e} : editor'[o] = editor[o]
  BY <1>1 DEF DMTyped
<1>6. DMTyped'
  <2>1. NoEdit \in [does : {"idle", "edit", "create"}, item : 0 .. MaxItem, row : ItemRecs]
    BY NoRowIsRec, ItemsAreNumbers DEF NoEdit
  <2> HIDE DEF i
  <2> QED
    BY <1>1, <1>2, <1>4, <2>1 DEF DMTyped
<1>8. EditorsHold'
  <2> SUFFICES ASSUME NEW o \in ItemEditors, editor'[o] # NoEdit
                 PROVE  /\ editor'[o].does # "idle" /\ editor'[o].item \in ItemIds
                        /\ editor'[o].does = "edit" =>
                             /\ itemLock[editor'[o].item] = o /\ editor'[o].row = stored'[editor'[o].item]
                             /\ stored'[editor'[o].item].shape # "none"
                        /\ editor'[o].does = "create" =>
                             /\ stored'[editor'[o].item].shape = "none" /\ editor'[o].row = [shape |-> "old", edits |-> 0]
                             /\ \A u \in ItemEditors \ {o} : editor'[u].item # editor'[o].item
      BY <1>1 DEF EditorsHold, NoEdit, NoRow
  <2>1. o # e /\ editor'[o] = editor[o] /\ editor[o].item # i
    BY <1>5, <1>2
  <2>2. editor'[e].item = 0 /\ 0 \notin ItemIds
    BY <1>5, ItemsAreNumbers DEF NoEdit
  <2> HIDE DEF i
  <2> QED
    BY <2>1, <2>2, <1>4, <1>5 DEF EditorsHold
<1>9. PagesHeld'
  <2> SUFFICES ASSUME NEW n \in Migrators
               PROVE  /\ InPage(n) => /\ runner[n].read.pass \in {1, 2}
                                      /\ \A j \in runner[n].page : stored'[j].shape # "none" /\ j > runner[n].read.cursor
                      /\ runner[n].at = "converting" =>
                           \A j \in runner[n].page : itemLock[j] = n /\ runner[n].rows[j] = stored'[j]
    BY <1>1 DEF PagesHeld, InPage
  <2>1. runner[n].page \subseteq ItemIds
    BY RunnerIsRec DEF RunnerRecs
  <2>2. InPage(n) => i \notin runner[n].page
    BY <1>2 DEF PagesHeld
  <2> HIDE DEF i
  <2> QED
    BY <2>1, <2>2, <1>4 DEF PagesHeld, InPage
<1>10. \A j \in ItemIds : Converted(j) /\ (j = i => Behind(i)) => Converted(j)'
  <2> HIDE DEF i
  <2> QED
    BY <1>1, <1>4 DEF Converted
<1>11. PassesConvert'
  <2>1. progress.pass = 2 => \A j \in 1 .. progress.cursor : Converted(j)'
    <3> SUFFICES ASSUME progress.pass = 2, NEW j \in 1 .. progress.cursor PROVE Converted(j)'
      OBVIOUS
    <3>1. j \in ItemIds /\ progress.cursor >= j
      BY ItemsAreNumbers DEF ItemIds, DMTyped
    <3>2. j = i => Behind(i)
      BY <3>1 DEF Behind
    <3> HIDE DEF i
    <3> QED
      BY <3>1, <3>2, <1>10 DEF PassesConvert
  <2>2. ASSUME NEW n \in Migrators, InPage(n), runner[n].read.pass = 2, NEW j \in ItemIds \ runner[n].page,
               \/ j <= runner[n].read.cursor \/ Cardinality(runner[n].page) < MigrationPage
               \/ \E k \in runner[n].page : j < k
        PROVE  Converted(j)'
    <3>1. j = i => Behind(i)
      BY <2>2 DEF Behind, InPage
    <3> HIDE DEF i
    <3> QED
      BY <2>2, <3>1, <1>10 DEF PassesConvert
  <2>3. ASSUME recorded \/ \E n \in Migrators : runner[n].at = "record" PROVE \A j \in ItemIds : Converted(j)'
    <3>1. Behind(i)
      BY <2>3 DEF Behind
    <3> HIDE DEF i
    <3> QED
      BY <2>3, <3>1, <1>10 DEF PassesConvert
  <2>4. \A n \in Migrators : InPage(n) => Cardinality(runner[n].page) <= MigrationPage
    BY DEF PassesConvert
  <2> QED
    BY <2>1, <2>2, <2>3, <2>4, <1>1 DEF PassesConvert, InPage
<1>12. OneRunner'
  BY <1>1 DEF OneRunner, InPage, ReadProgress
<1>13. EditsFit' /\ NoEditIsOverwritten'
  <2>1. stored[i].edits = 0
    BY <1>2 DEF DMTyped, ItemRecs
  <2>2. NoEditIsOverwritten'
    <3> HIDE DEF i
    <3> QED
      BY <2>1, <1>1, <1>2, <1>4 DEF NoEditIsOverwritten
  <2> QED
    BY <2>2, <1>1 DEF EditsFit
<1> QED
  BY <1>6, <1>8, <1>9, <1>11, <1>12, <1>13

LEMMA RowsOfPage ==
  ASSUME DMTyped, NEW page \in SUBSET ItemIds
  PROVE  /\ ItemRows(page) \in [ItemIds -> ItemRecs]
         /\ \A i \in page : ItemRows(page)[i] = stored[i]
  BY NoRowIsRec DEF DMTyped, ItemRows

\* What a runner that takes a page leaves to the requests, and to the other runners.
LEMMA LocksKeepOthers ==
  ASSUME DMInv, NEW m \in Migrators, NEW page \in SUBSET ItemIds,
         UNCHANGED <<stored, editor, edited, slipped, editsMade, progress, recorded>>,
         runner' \in [Migrators -> RunnerRecs], \A n \in Migrators \ {m} : runner'[n] = runner[n],
         runner'[m].at \in {"locking", "converting"},
         \A i \in ItemIds : itemLock'[i] = IF i \in page THEN m ELSE itemLock[i],
         \A i \in page : itemLock[i] = NoRunner,
         itemLock' \in [ItemIds -> Migrators \cup ItemEditors \cup {NoRunner}],
         sessionLock' \in Migrators \cup {NoRunner}, lockLoss' \in BOOLEAN,
         /\ runner'[m].read.pass \in {1, 2}
         /\ \A i \in runner'[m].page : stored[i].shape # "none" /\ i > runner'[m].read.cursor,
         runner'[m].at = "converting" =>
           \A i \in runner'[m].page : i \in page /\ runner'[m].rows[i] = stored[i],
         Cardinality(runner'[m].page) <= MigrationPage,
         runner'[m].read.pass = 2 =>
            \A i \in ItemIds \ runner'[m].page :
              (\/ i <= runner'[m].read.cursor \/ Cardinality(runner'[m].page) < MigrationPage
               \/ \E j \in runner'[m].page : i < j) => Converted(i)
  PROVE  DMTyped' /\ EditorsHold' /\ PagesHeld' /\ PassesConvert' /\ EditsFit' /\ NoEditIsOverwritten'
<1> USE DEF DMInv
<1>1. DMTyped'
  BY DEF DMTyped, RunnerRecs
<1>2. Migrators \cap ItemEditors = {} /\ NoRunner \notin Migrators \cup ItemEditors
  BY DataMigrationAssumption
<1>3. EditorsHold'
  <2> SUFFICES ASSUME NEW e \in ItemEditors, editor[e] # NoEdit
               PROVE  /\ editor[e].does # "idle" /\ editor[e].item \in ItemIds
                      /\ editor[e].does = "edit" =>
                           /\ itemLock'[editor[e].item] = e /\ editor[e].row = stored[editor[e].item]
                           /\ stored[editor[e].item].shape # "none"
                      /\ editor[e].does = "create" =>
                           /\ stored[editor[e].item].shape = "none" /\ editor[e].row = [shape |-> "old", edits |-> 0]
                           /\ \A o \in ItemEditors \ {e} : editor[o].item # editor[e].item
    BY DEF EditorsHold, NoEdit, NoRow
  <2> QED
    BY <1>2 DEF EditorsHold
<1>4. \A i \in ItemIds : Converted(i)' <=> Converted(i)
  BY DEF Converted
<1>5. PagesHeld'
  <2> SUFFICES ASSUME NEW n \in Migrators PROVE
      /\ InPage(n)' => /\ runner'[n].read.pass \in {1, 2}
                      /\ \A i \in runner'[n].page : stored[i].shape # "none" /\ i > runner'[n].read.cursor
      /\ runner'[n].at = "converting" =>
           \A i \in runner'[n].page : itemLock'[i] = n /\ runner'[n].rows[i] = stored[i]
    BY DEF PagesHeld, InPage
  <2>1. CASE n = m
    BY <2>1
  <2>2. CASE n # m
    <3>1. runner'[n] = runner[n] /\ runner[n].page \subseteq ItemIds
      BY <2>2, RunnerIsRec DEF RunnerRecs
    <3> QED
      BY <3>1, <1>2 DEF PagesHeld, InPage
  <2> QED
    BY <2>1, <2>2
<1>6. PassesConvert'
  <2>1. progress.pass = 2 => \A i \in 1 .. progress.cursor : Converted(i)'
    <3>1. \A i \in 1 .. progress.cursor : i \in ItemIds
      BY ItemsAreNumbers DEF ItemIds, DMTyped
    <3> QED
      BY <3>1, <1>4 DEF PassesConvert
  <2>2. ASSUME NEW n \in Migrators, InPage(n)'
        PROVE  /\ runner'[n].read.pass = 2 => \A i \in ItemIds \ runner'[n].page :
                  (\/ i <= runner'[n].read.cursor \/ Cardinality(runner'[n].page) < MigrationPage
                   \/ \E j \in runner'[n].page : i < j) => Converted(i)'
               /\ Cardinality(runner'[n].page) <= MigrationPage
    <3>1. CASE n = m
      BY <3>1, <1>4
    <3>2. CASE n # m
      <4>1. runner'[n] = runner[n] /\ InPage(n)
        BY <2>2, <3>2 DEF InPage
      <4> QED
        BY <4>1, <1>4 DEF PassesConvert
    <3> QED
      BY <3>1, <3>2
  <2>3. ASSUME recorded \/ (\E n \in Migrators : runner'[n].at = "record") PROVE \A i \in ItemIds : Converted(i)'
    BY <2>3, <1>4 DEF PassesConvert
  <2> QED
    BY <2>1, <2>2, <2>3 DEF PassesConvert
<1>7. EditsFit' /\ NoEditIsOverwritten'
  BY <1>2 DEF EditsFit, NoEditIsOverwritten
<1> QED
  BY <1>1, <1>3, <1>5, <1>6, <1>7

\* A page is locked, by the first pass as far as nobody holds its rows.
LEMMA PagesKeepMigration ==
  ASSUME DMInv, NEW m \in Migrators, LockItemBatch(m)
  PROVE  DMInv'
<1> DEFINE p == ReadProgress
           ids == Eligible(p)
           page == FirstOf(ids)
           taken == IF p.pass = 1 THEN page ELSE {}
<1> USE DEF DMInv
<1>1. p \in [pass : 1 .. 2, cursor : 0 .. MaxItem] /\ p \in [pass : 0 .. 2, cursor : 0 .. MaxItem]
      /\ (p.pass = 2 => p = progress)
  BY ItemsAreNumbers DEF ReadProgress, DMTyped
<1>2. ids \in SUBSET ItemIds
  BY DEF Eligible
<1>3. /\ page \subseteq ids /\ Cardinality(page) <= MigrationPage
      /\ \A i \in ids \ page, j \in page : ~(i < j)
      /\ Cardinality(page) < MigrationPage => page = ids
  BY <1>2, FirstOfRows
<1>4. page \in SUBSET ItemIds
  BY <1>2, <1>3
<1>5. /\ UNCHANGED <<stored, editor, edited, slipped, editsMade, progress, recorded, sessionLock, lockLoss>>
      /\ runner[m].at = "batch"
      /\ runner' = [runner EXCEPT ![m] = [at |-> IF p.pass = 1 THEN "converting" ELSE "locking",
                                        page |-> page, rows |-> ItemRows(page), read |-> p]]
      /\ itemLock' = [i \in ItemIds |-> IF p.pass = 1 /\ i \in page THEN m ELSE itemLock[i]]
  BY DEF LockItemBatch
<1>6. /\ runner' \in [Migrators -> RunnerRecs]
      /\ \A n \in Migrators \ {m} : runner'[n] = runner[n]
      /\ runner'[m].at = (IF p.pass = 1 THEN "converting" ELSE "locking")
      /\ runner'[m].page = page /\ runner'[m].rows = ItemRows(page) /\ runner'[m].read = p
  <2>1. [at |-> IF p.pass = 1 THEN "converting" ELSE "locking", page |-> page, rows |-> ItemRows(page), read |-> p]
           \in RunnerRecs
    <3>1. ItemRows(page) \in [ItemIds -> ItemRecs]
      BY <1>4, RowsOfPage
    <3> HIDE DEF page, p
    <3> QED
      BY <3>1, <1>1, <1>4 DEF RunnerRecs
  <2>2. runner \in [Migrators -> RunnerRecs]
    BY DEF DMTyped, RunnerRecs
  <2> HIDE DEF page, p
  <2> QED
    BY <2>1, <2>2, <1>5
<1>7. \A i \in ids : stored[i].shape # "none" /\ i > p.cursor /\ (p.pass = 1 => itemLock[i] = NoRunner)
  BY ThereIsShape DEF Eligible
<1>8. \A i \in ItemIds \ ids : p.pass = 2 /\ i > p.cursor => stored[i].shape = "none"
  BY ThereIsShape DEF Eligible
<1>9. taken \in SUBSET ItemIds /\ \A i \in taken : itemLock[i] = NoRunner
  BY <1>3, <1>4, <1>7
<1>10. /\ \A i \in ItemIds : itemLock'[i] = IF i \in taken THEN m ELSE itemLock[i]
       /\ itemLock' \in [ItemIds -> Migrators \cup ItemEditors \cup {NoRunner}]
  <2> HIDE DEF page, p
  <2> QED
    BY <1>5 DEF DMTyped
<1>11. runner'[m].at = "converting" =>
           \A i \in runner'[m].page : i \in taken /\ runner'[m].rows[i] = stored[i]
  <2>1. \A i \in page : ItemRows(page)[i] = stored[i]
    BY <1>4, RowsOfPage
  <2> HIDE DEF page, p
  <2> QED
    BY <2>1, <1>6
<1>12. /\ runner'[m].read.pass \in {1, 2}
       /\ \A i \in runner'[m].page : stored[i].shape # "none" /\ i > runner'[m].read.cursor
  <2> HIDE DEF page, p, ids
  <2> QED
    BY <1>1, <1>3, <1>6, <1>7
<1>13. runner'[m].read.pass = 2 =>
            \A i \in ItemIds \ runner'[m].page :
              (\/ i <= runner'[m].read.cursor \/ Cardinality(runner'[m].page) < MigrationPage
               \/ \E j \in runner'[m].page : i < j) => Converted(i)
  <2> SUFFICES ASSUME p.pass = 2, NEW i \in ItemIds \ page,
                      i <= p.cursor \/ Cardinality(page) < MigrationPage \/ \E j \in page : i < j
               PROVE  Converted(i)
    BY <1>6
  <2>1. p.pass = 2 /\ i \in ItemIds /\ i \notin page /\ i \in Nat /\ 1 <= i /\ p.cursor \in Nat
    BY <1>1, ItemsAreNumbers
  <2>2. CASE i <= p.cursor
    <3>1. progress.pass = 2 /\ i \in 1 .. progress.cursor
      BY <1>1, <2>1, <2>2
    <3> QED
      BY <3>1 DEF PassesConvert
  <2>3. CASE ~(i <= p.cursor)
    <3>1. i \notin ids
      <4> HIDE DEF page, ids, p
      <4> QED
        BY <1>3, <2>1, <2>3
    <3>2. stored[i].shape = "none"
      BY <1>8, <2>1, <2>3, <3>1
    <3> QED
      BY <3>2 DEF Converted
  <2> QED
    BY <2>2, <2>3
<1>14. DMTyped' /\ EditorsHold' /\ PagesHeld' /\ PassesConvert' /\ EditsFit' /\ NoEditIsOverwritten'
  <2>1. /\ Cardinality(runner'[m].page) <= MigrationPage /\ runner'[m].at \in {"locking", "converting"}
        /\ sessionLock' \in Migrators \cup {NoRunner} /\ lockLoss' \in BOOLEAN
    <3> HIDE DEF page, p
    <3> QED
      BY <1>3, <1>5, <1>6 DEF DMTyped
  <2> HIDE DEF page, p, taken, ids
  <2> QED
    BY <1>5, <1>6, <1>9, <1>10, <1>11, <1>12, <1>13, <2>1, LocksKeepOthers
<1>15. OneRunner'
  <2> SUFFICES ASSUME ~lockLoss, NEW n \in Migrators, runner'[n].at # "idle"
               PROVE  sessionLock = n /\ (InPage(n)' => runner'[n].read = ReadProgress')
    BY <1>5 DEF OneRunner
  <2>1. sessionLock = m
    BY <1>5 DEF OneRunner
  <2>2. n = m
    BY <2>1, <1>6 DEF OneRunner
  <2>3. ReadProgress' = p
    BY <1>5 DEF ReadProgress
  <2> QED
    BY <2>1, <2>2, <2>3, <1>6
<1> QED
  BY <1>14, <1>15

\* The second pass has waited for the rows of its page, and reads them again.
LEMMA AwaitsKeepMigration ==
  ASSUME DMInv, NEW m \in Migrators, AwaitRows(m)
  PROVE  DMInv'
<1> DEFINE page == runner[m].page
<1> USE DEF DMInv
<1>0. page \in SUBSET ItemIds /\ runner[m] \in RunnerRecs
  BY RunnerIsRec DEF RunnerRecs
<1>1. /\ UNCHANGED <<stored, editor, edited, slipped, editsMade, progress, recorded, sessionLock, lockLoss>>
      /\ runner[m].at = "locking" /\ \A i \in page : itemLock[i] = NoRunner
      /\ runner' = [runner EXCEPT ![m].at = "converting", ![m].rows = ItemRows(page)]
      /\ itemLock' = [i \in ItemIds |-> IF i \in page THEN m ELSE itemLock[i]]
  BY DEF AwaitRows
<1>2. ItemRows(page) \in [ItemIds -> ItemRecs] /\ \A i \in page : ItemRows(page)[i] = stored[i]
  BY <1>0, RowsOfPage
<1>3. /\ runner' \in [Migrators -> RunnerRecs]
      /\ \A n \in Migrators \ {m} : runner'[n] = runner[n]
      /\ runner'[m].at = "converting" /\ runner'[m].rows = ItemRows(page)
      /\ runner'[m].page = page /\ runner'[m].read = runner[m].read
  <2>1. runner \in [Migrators -> RunnerRecs]
    BY DEF DMTyped, RunnerRecs
  <2>2. runner' = [runner EXCEPT ![m] = [runner[m] EXCEPT !.at = "converting", !.rows = ItemRows(page)]]
    BY <1>1, <2>1
  <2>3. [runner[m] EXCEPT !.at = "converting", !.rows = ItemRows(page)] \in RunnerRecs
    BY <1>0, <1>2 DEF RunnerRecs
  <2> QED
    BY <1>0, <2>1, <2>2, <2>3 DEF RunnerRecs
<1>4. itemLock' \in [ItemIds -> Migrators \cup ItemEditors \cup {NoRunner}]
      /\ \A i \in ItemIds : itemLock'[i] = IF i \in page THEN m ELSE itemLock[i]
  BY <1>1 DEF DMTyped
<1>5. InPage(m)
  BY <1>1 DEF InPage
<1>6. /\ runner[m].read.pass \in {1, 2}
      /\ \A i \in page : stored[i].shape # "none" /\ i > runner[m].read.cursor
      /\ Cardinality(page) <= MigrationPage
      /\ runner[m].read.pass = 2 =>
            \A i \in ItemIds \ page :
              (\/ i <= runner[m].read.cursor \/ Cardinality(page) < MigrationPage
               \/ \E j \in page : i < j) => Converted(i)
  BY <1>5 DEF PagesHeld, PassesConvert
<1>7. DMTyped' /\ EditorsHold' /\ PagesHeld' /\ PassesConvert' /\ EditsFit' /\ NoEditIsOverwritten'
  <2>1. /\ sessionLock' \in Migrators \cup {NoRunner} /\ lockLoss' \in BOOLEAN
        /\ runner'[m].at \in {"locking", "converting"}
    BY <1>1, <1>3 DEF DMTyped
  <2>2. runner'[m].at = "converting" => \A i \in runner'[m].page : i \in page /\ runner'[m].rows[i] = stored[i]
    BY <1>2, <1>3
  <2>3. PICK q \in SUBSET ItemIds : q = page
    BY <1>0
  <2>4. /\ \A i \in ItemIds : itemLock'[i] = IF i \in q THEN m ELSE itemLock[i]
        /\ \A i \in q : itemLock[i] = NoRunner
        /\ runner'[m].at = "converting" => \A i \in runner'[m].page : i \in q /\ runner'[m].rows[i] = stored[i]
    BY <1>1, <1>4, <2>2, <2>3
  <2>5. /\ runner'[m].read.pass \in {1, 2}
        /\ \A i \in runner'[m].page : stored[i].shape # "none" /\ i > runner'[m].read.cursor
        /\ Cardinality(runner'[m].page) <= MigrationPage
    BY <1>3, <1>6
  <2>6. runner'[m].read.pass = 2 =>
            \A i \in ItemIds \ runner'[m].page :
              (\/ i <= runner'[m].read.cursor \/ Cardinality(runner'[m].page) < MigrationPage
               \/ \E j \in runner'[m].page : i < j) => Converted(i)
    BY <1>3, <1>6
  <2>7. UNCHANGED <<stored, editor, edited, slipped, editsMade, progress, recorded>>
    BY <1>1
  <2>8. runner' \in [Migrators -> RunnerRecs] /\ \A n \in Migrators \ {m} : runner'[n] = runner[n]
    BY <1>3
  <2>9. itemLock' \in [ItemIds -> Migrators \cup ItemEditors \cup {NoRunner}]
    BY <1>4
  <2> HIDE DEF page
  <2> QED
    BY <2>1, <2>4, <2>5, <2>6, <2>7, <2>8, <2>9, LocksKeepOthers
<1>8. OneRunner'
  <2> SUFFICES ASSUME ~lockLoss, NEW n \in Migrators, runner'[n].at # "idle"
               PROVE  sessionLock = n /\ (InPage(n)' => runner'[n].read = ReadProgress')
    BY <1>1 DEF OneRunner
  <2>1. sessionLock = m /\ runner[m].read = ReadProgress
    BY <1>1, <1>5 DEF OneRunner
  <2>2. n = m
    BY <2>1, <1>3 DEF OneRunner
  <2>3. ReadProgress' = ReadProgress
    BY <1>1 DEF ReadProgress
  <2> QED
    BY <2>1, <2>2, <2>3, <1>3
<1> QED
  BY <1>7, <1>8

\* The page is converted and the progress with it: what is before its last row is done.
LEMMA BatchesKeepMigration ==
  ASSUME DMInv, NEW m \in Migrators, CommitBatch(m)
  PROVE  /\ DMInv'
         /\ recorded' = recorded
         /\ ~lockLoss => \/ progress'.pass > progress.pass
                         \/ progress'.pass = progress.pass /\ progress'.cursor >= progress.cursor
<1> DEFINE p == runner[m].read
           page == runner[m].page
           full == Cardinality(page) = MigrationPage
           last == LastOf(page, p.cursor)
<1> USE DEF DMInv
<1>0. runner[m] \in RunnerRecs /\ page \in SUBSET ItemIds /\ p \in [pass : 0 .. 2, cursor : 0 .. MaxItem]
  BY RunnerIsRec DEF RunnerRecs
<1>1. /\ UNCHANGED <<recorded, sessionLock, editor, edited, slipped, lockLoss, editsMade>>
      /\ runner[m].at = "converting"
      /\ stored' = [i \in ItemIds |-> IF i \in page THEN [runner[m].rows[i] EXCEPT !.shape = "new"] ELSE stored[i]]
      /\ progress' = NextProgress(full, p, last)
      /\ ReleasePage(m)
      /\ Goes(m, IF ~full /\ p.pass = 2 THEN "record" ELSE "batch")
  BY DEF CommitBatch
<1>2. /\ runner' \in [Migrators -> RunnerRecs]
      /\ runner'[m].at = (IF ~full /\ p.pass = 2 THEN "record" ELSE "batch")
      /\ \A n \in Migrators \ {m} : runner'[n] = runner[n]
      /\ \A i \in ItemIds : itemLock'[i] = itemLock[i] \/ (itemLock[i] = m /\ itemLock'[i] = NoRunner)
      /\ \A i \in ItemIds : itemLock[i] # m => itemLock'[i] = itemLock[i]
      /\ itemLock' \in [ItemIds -> Migrators \cup ItemEditors \cup {NoRunner}]
  BY <1>1, LocksReleased
<1>3. /\ p.pass \in {1, 2}
      /\ \A i \in page : /\ stored[i].shape # "none" /\ i > p.cursor
                         /\ itemLock[i] = m /\ runner[m].rows[i] = stored[i]
  BY <1>1 DEF PagesHeld, InPage
<1>4. /\ stored' \in [ItemIds -> ItemRecs]
      /\ \A i \in page : stored'[i].shape = "new" /\ stored'[i].edits = stored[i].edits
      /\ \A i \in ItemIds \ page : stored'[i] = stored[i]
  <2>1. \A i \in page : [stored[i] EXCEPT !.shape = "new"] \in ItemRecs
             /\ [stored[i] EXCEPT !.shape = "new"].shape = "new" /\ [stored[i] EXCEPT !.shape = "new"].edits = stored[i].edits
    <3> SUFFICES ASSUME NEW i \in page PROVE [stored[i] EXCEPT !.shape = "new"] \in ItemRecs
             /\ [stored[i] EXCEPT !.shape = "new"].shape = "new" /\ [stored[i] EXCEPT !.shape = "new"].edits = stored[i].edits
      OBVIOUS
    <3>1. stored[i] \in ItemRecs
      BY <1>0 DEF DMTyped
    <3> HIDE DEF page
    <3> QED
      BY <3>1 DEF ItemRecs
  <2>2. \A i \in ItemIds : stored'[i] = IF i \in page THEN [stored[i] EXCEPT !.shape = "new"] ELSE stored[i]
    BY <1>1, <1>3
  <2>3. stored' = [i \in ItemIds |-> stored'[i]]
    BY <1>1
  <2> HIDE DEF page
  <2>5. stored \in [ItemIds -> ItemRecs]
    BY DEF DMTyped
  <2>4. \A i \in ItemIds : stored'[i] \in ItemRecs
    <3> SUFFICES ASSUME NEW i \in ItemIds PROVE stored'[i] \in ItemRecs
      OBVIOUS
    <3>1. CASE i \in page
      BY <3>1, <2>1, <2>2
    <3>2. CASE i \notin page
      BY <3>2, <2>2, <2>5
    <3> QED
      BY <3>1, <3>2
  <2> QED
    BY <1>0, <2>1, <2>2, <2>3, <2>4
<1>5. \A i \in ItemIds : (Converted(i) \/ i \in page) => Converted(i)'
  BY <1>1, <1>4 DEF Converted
<1>6. /\ last \in 0 .. MaxItem /\ last >= p.cursor
      /\ \A j \in page : j <= last
      /\ page # {} => last \in page
      /\ page = {} => last = p.cursor
  <2>1. CASE page = {}
    <3>1. last = p.cursor
      BY <2>1 DEF LastOf
    <3> HIDE DEF last, p
    <3> QED
      BY <3>1, <2>1, <1>0, ItemsAreNumbers
  <2>2. CASE page # {}
    <3>1. last \in page /\ \A j \in page : j <= last
      BY <2>2, <1>0, LastOfPage
    <3>2. last \in ItemIds /\ last > p.cursor /\ last \in Nat /\ last <= MaxItem /\ p.cursor \in Nat
      BY <3>1, <1>0, <1>3, ItemsAreNumbers
    <3> HIDE DEF last, p, page
    <3> QED
      BY <2>2, <3>1, <3>2, ItemsAreNumbers
  <2> QED
    BY <2>1, <2>2
<1>7. /\ progress' \in [pass : 0 .. 2, cursor : 0 .. MaxItem]
      /\ \/ progress'.pass = p.pass /\ progress'.cursor = last
         \/ p.pass = 1 /\ progress'.pass = 2 /\ progress'.cursor = 0
  <2>1. NextProgress(full, p, last) = IF full \/ p.pass = 2 THEN [pass |-> p.pass, cursor |-> last] ELSE [pass |-> 2, cursor |-> 0]
    BY DEF NextProgress
  <2> HIDE DEF full, p, last
  <2> QED
    BY <1>1, <1>3, <1>6, <2>1, ItemsAreNumbers
<1>8. p.pass = 2 => \A i \in ItemIds : i <= last \/ ~full => Converted(i)'
  <2> SUFFICES ASSUME p.pass = 2, NEW i \in ItemIds, i <= last \/ ~full PROVE Converted(i)'
    OBVIOUS
  <2>1. InPage(m) /\ Cardinality(page) <= MigrationPage
    BY <1>1 DEF InPage, PassesConvert
  <2>2. CASE i \in page
    BY <2>2, <1>5
  <2>3. CASE i \notin page
    <3>1. Cardinality(page) \in Nat /\ MigrationPage \in Nat
      <4>1. IsFiniteSet(1 .. MaxItem)
        BY FS_Interval, ItemsAreNumbers
      <4>2. IsFiniteSet(page)
        BY <1>0, <4>1, FS_Subset DEF ItemIds
      <4> QED
        BY <4>2, FS_CardinalityType, ItemsAreNumbers
    <3>2. i <= p.cursor \/ Cardinality(page) < MigrationPage \/ \E j \in page : i < j
      <4>1. CASE ~full
        BY <2>1, <3>1, <4>1
      <4>2. CASE i <= last /\ page = {}
        BY <4>2, <1>6
      <4>3. CASE i <= last /\ page # {}
        <5>1. last \in page /\ i # last
          BY <4>3, <2>3, <1>6
        <5>2. i \in Nat /\ last \in Nat
          BY <1>6, ItemsAreNumbers
        <5>3. i < last
          <6> HIDE DEF last
          <6> QED
            BY <4>3, <5>1, <5>2
        <5> QED
          BY <5>1, <5>3
      <4> QED
        BY <4>1, <4>2, <4>3
    <3>3. Converted(i)
      BY <2>1, <2>3, <3>2 DEF PassesConvert
    <3> QED
      BY <3>3, <1>5
  <2> QED
    BY <2>2, <2>3
<1>9. Migrators \cap ItemEditors = {} /\ NoRunner \notin Migrators \cup ItemEditors
  BY DataMigrationAssumption
<1>10. DMTyped'
  <2> HIDE DEF page, p, full, last
  <2> QED
    BY <1>1, <1>2, <1>4, <1>7 DEF DMTyped, RunnerRecs
<1>11. EditorsHold'
  <2>0. UNCHANGED editor
    BY <1>1
  <2> SUFFICES ASSUME NEW e \in ItemEditors, editor[e] # NoEdit
               PROVE  /\ editor[e].does # "idle" /\ editor[e].item \in ItemIds
                      /\ editor[e].does = "edit" =>
                           /\ itemLock'[editor[e].item] = e /\ editor[e].row = stored'[editor[e].item]
                           /\ stored'[editor[e].item].shape # "none"
                      /\ editor[e].does = "create" =>
                           /\ stored'[editor[e].item].shape = "none" /\ editor[e].row = [shape |-> "old", edits |-> 0]
                           /\ \A o \in ItemEditors \ {e} : editor[o].item # editor[e].item
    BY <2>0 DEF EditorsHold, NoEdit, NoRow
  <2>1. editor[e].item \in ItemIds /\ editor[e].does # "idle"
    BY DEF EditorsHold
  <2>2. editor[e].item \notin page
    <3>1. CASE editor[e].does = "edit"
      BY <3>1, <1>3, <1>9 DEF EditorsHold
    <3>2. CASE editor[e].does = "create"
      BY <3>2, <1>3 DEF EditorsHold
    <3> QED
      BY <2>1, <3>1, <3>2 DEF DMTyped
  <2> HIDE DEF page, p, full, last
  <2> QED
    BY <2>1, <2>2, <1>2, <1>4, <1>9 DEF EditorsHold
<1>12. PagesHeld'
  <2> SUFFICES ASSUME NEW n \in Migrators, n # m PROVE
      /\ InPage(n)' => /\ runner'[n].read.pass \in {1, 2}
                      /\ \A i \in runner'[n].page : stored'[i].shape # "none" /\ i > runner'[n].read.cursor
      /\ runner'[n].at = "converting" =>
           \A i \in runner'[n].page : itemLock'[i] = n /\ runner'[n].rows[i] = stored'[i]
    BY <1>2 DEF PagesHeld, InPage
  <2>1. runner'[n] = runner[n] /\ runner[n].page \subseteq ItemIds
    BY <1>2, RunnerIsRec DEF RunnerRecs
  <2>2. \A i \in ItemIds : stored[i].shape # "none" => stored'[i].shape # "none"
    BY <1>4
  <2>3. \A i \in ItemIds : itemLock[i] = n => itemLock'[i] = n /\ stored'[i] = stored[i]
    <3> HIDE DEF page, p, full, last
    <3> QED
      BY <1>2, <1>3, <1>4
  <2> HIDE DEF page, p, full, last
  <2> QED
    BY <2>1, <2>2, <2>3 DEF PagesHeld, InPage
<1>13. PassesConvert'
  <2>1. progress'.pass = 2 => \A i \in 1 .. progress'.cursor : Converted(i)'
    <3> SUFFICES ASSUME progress'.pass = 2, NEW i \in 1 .. progress'.cursor PROVE Converted(i)'
      OBVIOUS
    <3>1. i \in ItemIds /\ i <= progress'.cursor /\ 1 <= i
      <4> HIDE DEF page, p, full, last
      <4> QED
        BY <1>7, ItemsAreNumbers DEF ItemIds
    <3>2. p.pass = 2 /\ progress'.cursor = last
      <4> HIDE DEF page, p, full, last
      <4> QED
        BY <1>7, <3>1
    <3> QED
      BY <3>1, <3>2, <1>8
  <2>2. ASSUME NEW n \in Migrators, InPage(n)'
        PROVE  /\ runner'[n].read.pass = 2 => \A i \in ItemIds \ runner'[n].page :
                  (\/ i <= runner'[n].read.cursor \/ Cardinality(runner'[n].page) < MigrationPage
                   \/ \E j \in runner'[n].page : i < j) => Converted(i)'
               /\ Cardinality(runner'[n].page) <= MigrationPage
    <3>1. n # m /\ runner'[n] = runner[n] /\ InPage(n)
      BY <2>2, <1>2 DEF InPage
    <3> HIDE DEF page, p, full, last
    <3> QED
      BY <3>1, <1>5 DEF PassesConvert
  <2>3. ASSUME recorded' \/ (\E n \in Migrators : runner'[n].at = "record") PROVE \A i \in ItemIds : Converted(i)'
    <3>1. CASE recorded \/ \E n \in Migrators : runner[n].at = "record"
      BY <3>1, <1>5 DEF PassesConvert
    <3>2. CASE ~full /\ p.pass = 2
      BY <3>2, <1>8
    <3> HIDE DEF page, p, full, last
    <3> QED
      BY <2>3, <3>1, <3>2, <1>1, <1>2
  <2> QED
    BY <2>1, <2>2, <2>3 DEF PassesConvert
<1>14. EditsFit' /\ NoEditIsOverwritten'
  <2>1. NoEditIsOverwritten'
    <3> HIDE DEF page, p, full, last
    <3> QED
      BY <1>1, <1>4 DEF NoEditIsOverwritten
  <2>2. EditsFit'
    <3> HIDE DEF page, p, full, last
    <3> QED
      BY <1>1, <1>2, <1>9 DEF EditsFit
  <2> QED
    BY <2>1, <2>2
<1>15. ASSUME ~lockLoss PROVE sessionLock = m /\ p = ReadProgress
  BY <1>1, <1>15 DEF OneRunner, InPage
<1>16. OneRunner'
  <2> SUFFICES ASSUME ~lockLoss, NEW n \in Migrators, runner'[n].at # "idle"
               PROVE  sessionLock = n /\ (InPage(n)' => runner'[n].read = ReadProgress')
    BY <1>1 DEF OneRunner
  <2>1. n = m
    BY <1>2, <1>15 DEF OneRunner
  <2>2. ~InPage(m)'
    BY <1>2 DEF InPage
  <2> QED
    BY <2>1, <2>2, <1>15
<1>17. ASSUME ~lockLoss
       PROVE  \/ progress'.pass > progress.pass
              \/ progress'.pass = progress.pass /\ progress'.cursor >= progress.cursor
  <2>1. /\ p = IF progress.pass = 0 THEN [pass |-> 1, cursor |-> 0] ELSE progress
        /\ progress.pass \in 0 .. 2 /\ progress.cursor \in 0 .. MaxItem
    BY <1>15, <1>17 DEF ReadProgress, DMTyped
  <2>2. CASE progress.pass = 0
    <3>1. p.pass = 1
      BY <2>1, <2>2
    <3> HIDE DEF page, p, full, last
    <3> QED
      BY <2>2, <3>1, <1>7
  <2>3. CASE progress.pass # 0
    <3>1. p.pass = progress.pass /\ p.cursor = progress.cursor
      BY <2>1, <2>3
    <3> HIDE DEF page, p, full, last
    <3> QED
      BY <2>1, <3>1, <1>6, <1>7
  <2> QED
    BY <2>2, <2>3
<1> QED
  BY <1>1, <1>10, <1>11, <1>12, <1>13, <1>14, <1>16, <1>17

LEMMA MigrationStep ==
  ASSUME DMInv, [DMNext]_dmVars
  PROVE  DMInv'
<1>1. CASE UNCHANGED dmVars
  BY <1>1 DEF DMInv, dmVars, DMTyped, EditorsHold, PagesHeld, PassesConvert, EditsFit, NoEditIsOverwritten, OneRunner,
              Converted, InPage, ReadProgress
<1>2. CASE DMNext
  BY <1>2, StartsKeepMigration, EditsKeepMigration, CreatesKeepMigration, RunnersKeepMigration, LockLossKeepsMigration,
     PagesKeepMigration, AwaitsKeepMigration, BatchesKeepMigration DEF DMNext, MigratorStep
<1> QED
  BY <1>1, <1>2

LEMMA MigrationInvMeans == DMInv => RecordedMeansConverted /\ NoEditIsOverwritten
  BY DEF DMInv, PassesConvert, Converted, RecordedMeansConverted

\* A recorded migration has converted every item but those created behind its second pass, and
\* no edit is lost to a converted row, with any number of runners (runModuleDataMigration).
THEOREM MigrationConverts == DMSpec => [](RecordedMeansConverted /\ NoEditIsOverwritten)
<1> QED
  BY MigrationInitially, MigrationStep, MigrationInvMeans, PTL DEF DMSpec

LEMMA ProgressStep ==
  DMInv /\ [DMNext]_dmVars =>
    [progress' # progress /\ ~lockLoss =>
     \/ progress'.pass = 0 /\ recorded'
     \/ progress'.pass > progress.pass
     \/ progress'.pass = progress.pass /\ progress'.cursor >= progress.cursor]_dmVars
<1> SUFFICES ASSUME DMInv, DMNext, progress' # progress, ~lockLoss
             PROVE  \/ progress'.pass = 0 /\ recorded'
                    \/ progress'.pass > progress.pass
                    \/ progress'.pass = progress.pass /\ progress'.cursor >= progress.cursor
  OBVIOUS
<1>1. PICK m \in Migrators : CommitBatch(m) \/ RecordMigration(m)
  BY DEF DMNext, MigratorStep, StartRunner, CheckRecorded, LockItemBatch, AwaitRows, RunnerFails, LosesSessionLock,
         StartEdit, StartCreate, CommitEdit
<1>2. CASE CommitBatch(m)
  BY <1>2, BatchesKeepMigration
<1>3. CASE RecordMigration(m)
  BY <1>3 DEF RecordMigration
<1> QED
  BY <1>1, <1>2, <1>3

\* While no session lock is lost the progress of runModuleDataMigration only advances, up to
\* the record of the migration.
THEOREM MigrationAdvances == DMSpec => ProgressAdvances
<1> QED
  BY MigrationInitially, MigrationStep, ProgressStep, PTL DEF DMSpec, ProgressAdvances
-----------------------------------------------------------------------------
(* The module registry. *)

Loaded == DOMAIN modulesById

\* Every map names loaded modules.
MapsAreOfLoaded ==
    /\ DOMAIN catalogsById = Loaded
    /\ \A i \in Loaded : modulesById[i] \in Manifests /\ modulesById[i].id = i /\ catalogsById[i] = modulesById[i].texts
    /\ \A n \in DOMAIN moduleIdByName : moduleIdByName[n] \in Loaded /\ modulesById[moduleIdByName[n]].name = n
    /\ \A k \in DOMAIN owners : owners[k] \in Loaded /\ k \in ToSet(modulesById[owners[k]].claims)
    /\ \A k \in DOMAIN customRouteOwners :
         customRouteOwners[k] \in Loaded /\ k \in ToSet(modulesById[customRouteOwners[k]].routes)
    /\ \A k \in DOMAIN catalogKeyOwners :
         catalogKeyOwners[k] \in Loaded /\ k \in modulesById[catalogKeyOwners[k]].texts
    /\ DOMAIN owners \cap ReservedKeys = {}

\* What a loaded module declares it owns, alone.
LoadedOwnTheirs ==
    \A i \in Loaded :
      /\ \A k \in ToSet(modulesById[i].claims) : k \in DOMAIN owners /\ owners[k] = i
      /\ \A k \in ToSet(modulesById[i].routes) : k \in DOMAIN customRouteOwners /\ customRouteOwners[k] = i
      /\ \A k \in modulesById[i].texts : k \in DOMAIN catalogKeyOwners /\ catalogKeyOwners[k] = i

\* What is being loaded was checked, and nothing else is loaded meanwhile.
LoadingIsNew ==
    loading # Unloaded =>
      loading \in Manifests /\ loading.id \notin Loaded /\ loading.name \notin DOMAIN moduleIdByName

\* A row shows an identifier of a loaded module, whose it is.
RowsAreOwned ==
    \A r \in projection.rows : \E i \in Loaded : r \in Rows(modulesById[i])

\* What a projection was told is active was so at some moment of it.
AnsweredWereActive == projection.step = "asked" => projection.active \subseteq sinceAsked \cap Ids

MapsInv == MapsAreOfLoaded /\ LoadedOwnTheirs
RegInv == RegTypeOK /\ MapsInv /\ LoadingIsNew /\ RowsAreOwned /\ AnsweredWereActive

LEMMA RegInitially == RegInit => RegInv
<1> SUFFICES ASSUME RegInit PROVE RegInv
  OBVIOUS
<1>1. /\ Loaded = {} /\ DOMAIN catalogsById = {} /\ DOMAIN moduleIdByName = {} /\ DOMAIN owners = {}
      /\ DOMAIN customRouteOwners = {} /\ DOMAIN catalogKeyOwners = {}
  BY DEF RegInit, Loaded
<1>2. MapsInv /\ LoadingIsNew /\ RowsAreOwned /\ AnsweredWereActive
  BY <1>1 DEF RegInit, MapsInv, MapsAreOfLoaded, LoadedOwnTheirs, LoadingIsNew, RowsAreOwned, AnsweredWereActive, NoRows
<1>3. switches \in 0 .. MaxSwitches /\ reads \in 0 .. MaxReads
  BY RegistryAssumption DEF RegInit
<1>4. RegTypeOK
  BY <1>1, <1>3 DEF RegInit, RegTypeOK, NoRows, Loaded
<1> QED
  BY <1>2, <1>4 DEF RegInv

\* Rows of a loaded module, by what they show.
LEMMA RowIsOwned ==
  ASSUME MapsInv, NEW i \in Loaded, NEW r \in Rows(modulesById[i])
  PROVE  /\ r = <<i, r[2]>>
         /\ \/ r[2] \in DOMAIN owners /\ owners[r[2]] = i /\ r[2][1] \notin {"route", "label"}
            \/ /\ r[2] = <<"route", r[2][2]>> /\ r[2][2] \in DOMAIN customRouteOwners
               /\ customRouteOwners[r[2][2]] = i
            \/ /\ r[2] = <<"label", r[2][2]>> /\ r[2][2] \in DOMAIN catalogKeyOwners
               /\ catalogKeyOwners[r[2][2]] = i
<1> DEFINE m == modulesById[i]
<1>1. m \in Manifests /\ m.id = i /\ catalogsById[i] = m.texts
  BY DEF MapsInv, MapsAreOfLoaded
<1>2. PICK k \in ToSet(m.claims) \cup {<<"route", x>> : x \in ToSet(m.routes)}
                             \cup {<<"label", t>> : t \in m.texts} : r = <<i, k>>
  BY <1>1 DEF Rows
<1>3. CASE k \in ToSet(m.claims)
  <2>1. k \in DOMAIN owners /\ owners[k] = i
    BY <1>3 DEF MapsInv, LoadedOwnTheirs
  <2>2. k[1] \in {"database", "tool", "task", "worker", "kind"}
    BY <1>1, <1>3, RegistryAssumption DEF ModuleManifest
  <2> QED
    BY <1>2, <2>1, <2>2
<1>4. CASE k \in {<<"route", x>> : x \in ToSet(m.routes)}
  <2>1. PICK x \in ToSet(m.routes) : k = <<"route", x>>
    BY <1>4
  <2>2. x \in DOMAIN customRouteOwners /\ customRouteOwners[x] = i
    BY DEF MapsInv, LoadedOwnTheirs
  <2> QED
    BY <1>2, <2>1, <2>2
<1>5. CASE k \in {<<"label", t>> : t \in m.texts}
  <2>1. PICK x \in m.texts : k = <<"label", x>>
    BY <1>5
  <2>2. x \in DOMAIN catalogKeyOwners /\ catalogKeyOwners[x] = i
    BY DEF MapsInv, LoadedOwnTheirs
  <2> QED
    BY <1>2, <2>1, <2>2
<1> QED
  BY <1>2, <1>3, <1>4, <1>5

\* What a commit adds is new to every map, so what they had stays.
LEMMA CommitKeepsMaps ==
  ASSUME MapsInv, NEW m \in Manifests, m.id \notin Loaded, m.name \notin DOMAIN moduleIdByName,
         CatalogKeysAvailable(m), CustomRoutesAvailable(m), Claimable(m), CommitModule(m)
  PROVE  /\ MapsInv' /\ Loaded' = Loaded \cup {m.id} /\ modulesById'[m.id] = m
         /\ \A i \in Loaded : modulesById'[i] = modulesById[i] /\ catalogsById'[i] = catalogsById[i]
<1>1. /\ Loaded' = Loaded \cup {m.id} /\ modulesById'[m.id] = m
      /\ \A i \in Loaded : modulesById'[i] = modulesById[i]
  BY DEF CommitModule, OwnsAll, Loaded
<1>2. /\ DOMAIN catalogsById' = DOMAIN catalogsById \cup {m.id} /\ catalogsById'[m.id] = m.texts
      /\ \A i \in DOMAIN catalogsById \ {m.id} : catalogsById'[i] = catalogsById[i]
  BY DEF CommitModule, OwnsAll
<1>3. /\ DOMAIN moduleIdByName' = DOMAIN moduleIdByName \cup {m.name} /\ moduleIdByName'[m.name] = m.id
      /\ \A n \in DOMAIN moduleIdByName \ {m.name} : moduleIdByName'[n] = moduleIdByName[n]
  BY DEF CommitModule, OwnsAll
<1>4. /\ DOMAIN owners' = DOMAIN owners \cup ToSet(m.claims) /\ \A k \in ToSet(m.claims) : owners'[k] = m.id
      /\ \A k \in DOMAIN owners \ ToSet(m.claims) : owners'[k] = owners[k]
      /\ ToSet(m.claims) \cap (ReservedKeys \cup DOMAIN owners) = {}
  BY DEF CommitModule, OwnsAll, Claimable
<1>5. /\ DOMAIN customRouteOwners' = DOMAIN customRouteOwners \cup ToSet(m.routes)
      /\ \A k \in ToSet(m.routes) : customRouteOwners'[k] = m.id
      /\ \A k \in DOMAIN customRouteOwners \ ToSet(m.routes) : customRouteOwners'[k] = customRouteOwners[k]
      /\ ToSet(m.routes) \cap DOMAIN customRouteOwners = {}
  BY DEF CommitModule, OwnsAll, CustomRoutesAvailable
<1>6. /\ DOMAIN catalogKeyOwners' = DOMAIN catalogKeyOwners \cup m.texts
      /\ \A k \in m.texts : catalogKeyOwners'[k] = m.id
      /\ \A k \in DOMAIN catalogKeyOwners \ m.texts : catalogKeyOwners'[k] = catalogKeyOwners[k]
      /\ m.texts \cap DOMAIN catalogKeyOwners = {}
  BY DEF CommitModule, OwnsAll, CatalogKeysAvailable
<1>7. MapsAreOfLoaded'
  <2>1. /\ DOMAIN catalogsById' = Loaded'
        /\ \A i \in Loaded' : modulesById'[i] \in Manifests /\ modulesById'[i].id = i
                              /\ catalogsById'[i] = modulesById'[i].texts
    BY <1>1, <1>2 DEF MapsInv, MapsAreOfLoaded
  <2>2. \A n \in DOMAIN moduleIdByName' :
          moduleIdByName'[n] \in Loaded' /\ modulesById'[moduleIdByName'[n]].name = n
    BY <1>1, <1>3 DEF MapsInv, MapsAreOfLoaded
  <2>3. /\ \A k \in DOMAIN owners' : owners'[k] \in Loaded' /\ k \in ToSet(modulesById'[owners'[k]].claims)
        /\ DOMAIN owners' \cap ReservedKeys = {}
    BY <1>1, <1>4 DEF MapsInv, MapsAreOfLoaded
  <2>4. \A k \in DOMAIN customRouteOwners' :
          customRouteOwners'[k] \in Loaded' /\ k \in ToSet(modulesById'[customRouteOwners'[k]].routes)
    BY <1>1, <1>5 DEF MapsInv, MapsAreOfLoaded
  <2>5. \A k \in DOMAIN catalogKeyOwners' :
          catalogKeyOwners'[k] \in Loaded' /\ k \in modulesById'[catalogKeyOwners'[k]].texts
    BY <1>1, <1>6 DEF MapsInv, MapsAreOfLoaded
  <2> QED
    BY <2>1, <2>2, <2>3, <2>4, <2>5 DEF MapsAreOfLoaded
<1>8. LoadedOwnTheirs'
  <2>1. ASSUME NEW i \in Loaded' PROVE
          /\ \A k \in ToSet(modulesById'[i].claims) : k \in DOMAIN owners' /\ owners'[k] = i
          /\ \A k \in ToSet(modulesById'[i].routes) : k \in DOMAIN customRouteOwners' /\ customRouteOwners'[k] = i
          /\ \A k \in modulesById'[i].texts : k \in DOMAIN catalogKeyOwners' /\ catalogKeyOwners'[k] = i
    <3>1. CASE i = m.id
      BY <1>1, <1>4, <1>5, <1>6, <3>1
    <3>2. CASE i # m.id
      <4>1. i \in Loaded /\ modulesById'[i] = modulesById[i]
        BY <1>1, <3>2
      <4>2. /\ \A k \in ToSet(modulesById[i].claims) : k \in DOMAIN owners /\ owners[k] = i
            /\ \A k \in ToSet(modulesById[i].routes) : k \in DOMAIN customRouteOwners /\ customRouteOwners[k] = i
            /\ \A k \in modulesById[i].texts : k \in DOMAIN catalogKeyOwners /\ catalogKeyOwners[k] = i
        BY <4>1 DEF MapsInv, LoadedOwnTheirs
      <4> QED
        BY <4>1, <4>2, <1>4, <1>5, <1>6
    <3> QED
      BY <3>1, <3>2
  <2> QED
    BY <2>1 DEF LoadedOwnTheirs
<1> QED
  BY <1>1, <1>2, <1>7, <1>8 DEF MapsInv, MapsAreOfLoaded

LEMMA RegKept == RegInv /\ [RegNext]_regVars => RegInv'
<1> SUFFICES ASSUME RegInv, [RegNext]_regVars PROVE RegInv'
  OBVIOUS
<1> DEFINE Same == UNCHANGED regMaps
<1>1. ASSUME UNCHANGED regMaps PROVE MapsInv' /\ Loaded' = Loaded /\ \A i \in Loaded : Rows(modulesById[i])' = Rows(modulesById[i])
  BY <1>1 DEF RegInv, MapsInv, MapsAreOfLoaded, LoadedOwnTheirs, Loaded, regMaps, Rows
<1>2. ASSUME NEW m \in Manifests, ImportModule(m) PROVE RegInv'
  <2>1. UNCHANGED regMaps
    BY <1>2 DEF ImportModule
  <2>2. LoadingIsNew' /\ RowsAreOwned'
    BY <1>1, <1>2, <2>1 DEF RegInv, ImportModule, LoadingIsNew, RowsAreOwned, Loaded, regMaps
  <2>3. RegTypeOK'
    BY <1>2 DEF RegInv, RegTypeOK, ImportModule, regMaps
  <2>4. AnsweredWereActive'
    BY <1>2 DEF RegInv, AnsweredWereActive, ImportModule

  <2> QED
    BY <1>1, <2>1, <2>2, <2>3, <2>4 DEF RegInv
<1>3. CASE RegisterModule
  <2>1. loading \in Manifests /\ loading.id \notin Loaded /\ loading.name \notin DOMAIN moduleIdByName
    BY <1>3 DEF RegInv, LoadingIsNew, RegisterModule
  <2>2. /\ loading' = Unloaded /\ UNCHANGED <<activeIds, projection, sinceAsked, switches, reads>>
    BY <1>3 DEF RegisterModule
  <2>3. LoadingIsNew' /\ AnsweredWereActive'
    BY <2>2 DEF RegInv, LoadingIsNew, AnsweredWereActive
  <2>4. CASE UNCHANGED regMaps
    <3>1. RowsAreOwned'
      BY <1>1, <2>2, <2>4 DEF RegInv, RowsAreOwned, Loaded, regMaps
    <3>2. RegTypeOK'
      BY <2>2, <2>4 DEF RegInv, RegTypeOK, regMaps
    <3> QED
      BY <1>1, <2>3, <2>4, <3>1, <3>2 DEF RegInv
  <2>5. CASE CatalogKeysAvailable(loading) /\ CustomRoutesAvailable(loading) /\ Claimable(loading) /\ CommitModule(loading)
    <3>1. /\ MapsInv' /\ Loaded' = Loaded \cup {loading.id}
          /\ \A i \in Loaded : modulesById'[i] = modulesById[i] /\ catalogsById'[i] = catalogsById[i]
      BY <2>1, <2>5, CommitKeepsMaps DEF RegInv
    <3>2. RowsAreOwned'
      <4> SUFFICES ASSUME NEW r \in projection.rows PROVE \E i \in Loaded' : r \in Rows(modulesById[i])'
        BY <2>2 DEF RowsAreOwned
      <4>1. PICK i \in Loaded : r \in Rows(modulesById[i])
        BY DEF RegInv, RowsAreOwned
      <4>2. Rows(modulesById[i])' = Rows(modulesById[i])
        <5>1. modulesById[i].id = i
          BY DEF RegInv, MapsInv, MapsAreOfLoaded
        <5> QED
          BY <3>1, <5>1 DEF Rows
      <4> QED
        BY <3>1, <4>1, <4>2
    <3>3. RegTypeOK'
      <4>1. Loaded' \subseteq Ids
        BY <2>1, <3>1 DEF RegInv, RegTypeOK, Loaded, Ids
      <4> QED
        BY <2>2, <3>1, <4>1 DEF RegInv, RegTypeOK, Loaded, MapsInv, MapsAreOfLoaded
    <3> QED
      BY <2>3, <3>1, <3>2, <3>3 DEF RegInv
  <2> QED
    BY <1>3, <2>4, <2>5 DEF RegisterModule
<1>4. CASE CatalogUnreadable
  <2>1. UNCHANGED regMaps
    BY <1>4 DEF CatalogUnreadable
  <2>2. LoadingIsNew' /\ RowsAreOwned'
    BY <1>1, <1>4, <2>1 DEF RegInv, CatalogUnreadable, LoadingIsNew, RowsAreOwned, Loaded, regMaps
  <2>3. RegTypeOK'
    BY <1>4 DEF RegInv, RegTypeOK, CatalogUnreadable, regMaps
  <2>4. AnsweredWereActive'
    BY <1>4 DEF RegInv, AnsweredWereActive, CatalogUnreadable
  <2> QED
    BY <1>1, <2>1, <2>2, <2>3, <2>4 DEF RegInv
<1>5. ASSUME NEW i \in Ids, SwitchModule(i) PROVE RegInv'
  <2>1. UNCHANGED regMaps
    BY <1>5 DEF SwitchModule
  <2>2. LoadingIsNew' /\ RowsAreOwned'
    BY <1>1, <1>5, <2>1 DEF RegInv, SwitchModule, LoadingIsNew, RowsAreOwned, Loaded, regMaps
  <2>3. RegTypeOK'
    BY <1>5, RegistryAssumption DEF RegInv, RegTypeOK, SwitchModule, regMaps
  <2>4. AnsweredWereActive'
    BY <1>5 DEF RegInv, AnsweredWereActive, SwitchModule
  <2> QED
    BY <1>1, <2>1, <2>2, <2>3, <2>4 DEF RegInv
<1>6. CASE AskActiveModules
  <2>1. UNCHANGED regMaps
    BY <1>6 DEF AskActiveModules
  <2>2. LoadingIsNew' /\ RowsAreOwned'
    BY <1>6 DEF RegInv, AskActiveModules, LoadingIsNew, RowsAreOwned, Loaded, regMaps
  <2>3. RegTypeOK'
    BY <1>6, RegistryAssumption DEF RegInv, RegTypeOK, AskActiveModules, regMaps
  <2>4. AnsweredWereActive'
    BY <1>6 DEF RegInv, RegTypeOK, AnsweredWereActive, AskActiveModules
  <2> QED
    BY <1>1, <2>1, <2>2, <2>3, <2>4 DEF RegInv
<1>7. CASE Project
  <2>1. UNCHANGED regMaps
    BY <1>7 DEF Project
  <2>2. projection'.rows = UNION {Rows(modulesById[i]) : i \in DOMAIN modulesById \cap projection.active}
    BY <1>7 DEF Project, RegInv, RegTypeOK
  <2>3. RowsAreOwned'
    BY <1>1, <2>1, <2>2 DEF RowsAreOwned, Loaded
  <2>4. LoadingIsNew' /\ AnsweredWereActive'
    BY <1>7 DEF RegInv, Project, LoadingIsNew, AnsweredWereActive, RegTypeOK, Loaded, regMaps
  <2>5. RegTypeOK'
    BY <1>7 DEF RegInv, RegTypeOK, Project, regMaps
  <2> QED
    BY <1>1, <2>1, <2>3, <2>4, <2>5 DEF RegInv
<1>8. CASE UNCHANGED regVars
  <2>1. UNCHANGED regMaps
    BY <1>8 DEF regVars, regMaps
  <2>2. LoadingIsNew' /\ RowsAreOwned' /\ RegTypeOK' /\ AnsweredWereActive'
    BY <1>1, <1>8, <2>1 DEF RegInv, RegTypeOK, LoadingIsNew, RowsAreOwned, AnsweredWereActive, Loaded, regVars
  <2> QED
    BY <1>1, <2>1, <2>2 DEF RegInv
<1> QED
  BY <1>2, <1>3, <1>4, <1>5, <1>6, <1>7, <1>8 DEF RegNext

LEMMA RegInvMeans == RegInv => OwnersAreLoaded /\ ProjectionsAreUnambiguous
<1> SUFFICES ASSUME RegInv PROVE OwnersAreLoaded /\ ProjectionsAreUnambiguous
  OBVIOUS
<1>1. OwnersAreLoaded
  BY DEF RegInv, MapsInv, MapsAreOfLoaded, OwnersAreLoaded, Loaded
<1>2. ASSUME NEW r1 \in projection.rows, NEW r2 \in projection.rows, r1[2] = r2[2] PROVE r1 = r2
  <2>1. PICK i1 \in Loaded : r1 \in Rows(modulesById[i1])
    BY DEF RegInv, RowsAreOwned
  <2>2. PICK i2 \in Loaded : r2 \in Rows(modulesById[i2])
    BY DEF RegInv, RowsAreOwned
  <2>3. MapsInv
    BY DEF RegInv
  <2>4. i1 = i2
    BY <1>2, <2>1, <2>2, <2>3, RowIsOwned
  <2> QED
    BY <1>2, <2>1, <2>2, <2>3, <2>4, RowIsOwned
<1>3. ASSUME NEW r \in projection.rows PROVE r[2] \notin ReservedKeys
  <2>1. PICK i \in Loaded : r \in Rows(modulesById[i])
    BY DEF RegInv, RowsAreOwned
  <2>2. MapsInv /\ DOMAIN owners \cap ReservedKeys = {}
    BY DEF RegInv, MapsInv, MapsAreOfLoaded
  <2>3. \A k \in ReservedKeys : k[1] \notin {"route", "label"}
    BY RegistryAssumption
  <2> QED
    BY <2>1, <2>2, <2>3, RowIsOwned
<1> QED
  BY <1>1, <1>2, <1>3 DEF ProjectionsAreUnambiguous

(* The module registry (registry.ts): what is owned is owned by a loaded   *)
(* module that declares it, and no projection gives one identifier twice,  *)
(* or one that core owns, however loads, switches and projections cross.   *)
THEOREM IdentifiersAreOwned == RegSpec => [](OwnersAreLoaded /\ ProjectionsAreUnambiguous)
<1>1. RegInv => OwnersAreLoaded /\ ProjectionsAreUnambiguous
  BY RegInvMeans
<1> QED
  BY <1>1, RegInitially, RegKept, PTL DEF RegSpec

LEMMA AnswerShowsActive ==
  RegInv /\ [RegNext]_regVars =>
    [projection'.step = "answered" /\ projection.step = "asked" => \A r \in projection'.rows : r[1] \in sinceAsked]_regVars
<1> SUFFICES ASSUME RegInv, RegNext, projection'.step = "answered", projection.step = "asked",
                    NEW r \in projection'.rows
             PROVE  r[1] \in sinceAsked
  BY DEF regVars
<1>1. Project
  BY DEF RegNext, ImportModule, RegisterModule, CatalogUnreadable, AskActiveModules, SwitchModule
<1>2. projection'.rows = UNION {Rows(modulesById[i]) : i \in DOMAIN modulesById \cap projection.active}
  BY <1>1 DEF Project, RegInv, RegTypeOK
<1>3. PICK i \in DOMAIN modulesById \cap projection.active : r \in Rows(modulesById[i])
  BY <1>2
<1>4. r[1] = i
  BY <1>3 DEF Rows, RegInv, MapsInv, MapsAreOfLoaded, Loaded
<1> QED
  BY <1>3, <1>4 DEF RegInv, AnsweredWereActive

(* ... and no projection shows a module that was inactive all the while.   *)
THEOREM InactiveIsNotShown == RegSpec => DeactivationIsSeen
<1> QED
  BY RegInitially, RegKept, AnswerShowsActive, PTL DEF RegSpec, DeactivationIsSeen

-----------------------------------------------------------------------------
(* The types of the accounts: what bounds the reset tokens. *)

\* The requests that have consumed a token of the user and may yet give it back.
Resetting(u) == {r \in AcctRequests : Locked(r) /\ areq[r].op = "reset" /\ areq[r].user = u}
Answered == {r \in AcctRequests : areq[r].pc = "done"}
One(condition) == IF condition THEN 1 ELSE 0

\* A user had one token at first, a request has issued one at most, and a token is unused, consumed or gone.
TokensAreOfRequests ==
    /\ expired \subseteq SessionIds /\ confirmed \in BOOLEAN /\ tokens \in [Users -> Nat]
    /\ \A u \in Users : /\ tokens[u] + Cardinality(Resetting(u)) <= issued[u]
                        /\ issued[u] <= Cardinality(Answered) + 1

LEMMA CountedRequests ==
  ASSUME NEW u
  PROVE  /\ IsFiniteSet(Resetting(u)) /\ Cardinality(Resetting(u)) \in Nat
         /\ IsFiniteSet(Answered) /\ Cardinality(Answered) \in Nat
         /\ Cardinality(AcctRequests) \in Nat /\ Cardinality(Answered) <= Cardinality(AcctRequests)
<1>1. Resetting(u) \in SUBSET AcctRequests /\ Answered \in SUBSET AcctRequests
  BY DEF Resetting, Answered
<1> QED
  BY <1>1, RequestsAssumption, FS_Subset, FS_CardinalityType

LEMMA ResettingMoves ==
  ASSUME AccountsShape, NEW r \in AcctRequests, Stirs(r), NEW u \in Users
  PROVE  Cardinality(Resetting(u)') =
           Cardinality(Resetting(u)) + One(r \in Resetting(u)') - One(r \in Resetting(u))
<1>1. Resetting(u)' \ {r} = Resetting(u) \ {r}
  BY DEF Resetting, Stirs, Locked
<1>2. IsFiniteSet(Resetting(u)) /\ Cardinality(Resetting(u)) \in Nat
  BY CountedRequests
<1> DEFINE rest == Resetting(u) \ {r}
<1>3. /\ IsFiniteSet(rest) /\ Cardinality(rest) \in Nat
      /\ Cardinality(Resetting(u)) = Cardinality(rest) + One(r \in Resetting(u))
  <2>1. CASE r \in Resetting(u)
    <3>1. IsFiniteSet(rest) /\ Cardinality(rest) = Cardinality(Resetting(u)) - 1
      BY <1>2, <2>1, FS_RemoveElement
    <3>2. Cardinality(rest) \in Nat
      BY <3>1, FS_CardinalityType
    <3> HIDE DEF rest
    <3> QED
      BY <1>2, <2>1, <3>1, <3>2 DEF One
  <2>2. CASE r \notin Resetting(u)
    <3>1. rest = Resetting(u)
      BY <2>2
    <3> QED
      BY <1>2, <2>2, <3>1 DEF One
  <2> QED
    BY <2>1, <2>2
<1>4. Cardinality(Resetting(u)') = Cardinality(rest) + One(r \in Resetting(u)')
  <2>1. CASE r \in Resetting(u)'
    <3>1. Resetting(u)' = rest \cup {r} /\ r \notin rest
      BY <1>1, <2>1
    <3> HIDE DEF rest
    <3> QED
      BY <1>3, <2>1, <3>1, FS_AddElement DEF One
  <2>2. CASE r \notin Resetting(u)'
    <3>1. Resetting(u)' = rest
      BY <1>1, <2>2
    <3> QED
      BY <1>3, <2>2, <3>1 DEF One
  <2> QED
    BY <2>1, <2>2
<1> HIDE DEF rest
<1>5. One(r \in Resetting(u)) \in 0 .. 1 /\ One(r \in Resetting(u)') \in 0 .. 1
  BY DEF One
<1> QED
  BY <1>3, <1>4, <1>5

LEMMA AnsweredMoves ==
  ASSUME AccountsShape, NEW r \in AcctRequests, Stirs(r)
  PROVE  Cardinality(Answered') = Cardinality(Answered) + One(areq'[r].pc = "done")
<1>1. r \notin Answered /\ IsFiniteSet(Answered) /\ Cardinality(Answered) \in Nat
  BY CountedRequests DEF Answered, Stirs
<1>2. CASE areq'[r].pc = "done"
  <2>1. Answered' = Answered \cup {r}
    BY <1>2 DEF Answered, Stirs
  <2> QED
    BY <1>1, <1>2, <2>1, FS_AddElement DEF One
<1>3. CASE areq'[r].pc # "done"
  <2>1. Answered' = Answered
    BY <1>3 DEF Answered, Stirs
  <2> QED
    BY <1>1, <1>3, <2>1 DEF One
<1> QED
  BY <1>2, <1>3

\* What a request's step may do to the tokens keeps their count.
LEMMA TokensAfter ==
  ASSUME AccountsShape, TokensAreOfRequests, NEW r \in AcctRequests, Stirs(r),
         expired' \subseteq SessionIds, confirmed' \in BOOLEAN, tokens' \in [Users -> Nat],
         issued' \in [Users -> Nat],
         \A u \in Users :
           /\ tokens'[u] + One(r \in Resetting(u)') + issued[u] <= tokens[u] + One(r \in Resetting(u)) + issued'[u]
           /\ issued'[u] <= issued[u] + One(areq'[r].pc = "done")
  PROVE  TokensAreOfRequests'
<1> SUFFICES ASSUME NEW u \in Users
             PROVE  /\ tokens'[u] + Cardinality(Resetting(u)') <= issued'[u]
                    /\ issued'[u] <= Cardinality(Answered') + 1
  BY DEF TokensAreOfRequests
<1>1. /\ tokens[u] \in Nat /\ tokens'[u] \in Nat /\ issued[u] \in Nat /\ issued'[u] \in Nat
      /\ tokens[u] + Cardinality(Resetting(u)) <= issued[u] /\ issued[u] <= Cardinality(Answered) + 1
  BY DEF TokensAreOfRequests, AccountsShape
<1>2. Cardinality(Resetting(u)) \in Nat /\ Cardinality(Answered) \in Nat
  BY CountedRequests
<1>3. /\ One(r \in Resetting(u)) \in 0 .. 1 /\ One(r \in Resetting(u)') \in 0 .. 1
      /\ One(areq'[r].pc = "done") \in 0 .. 1
  BY DEF One
<1>4. /\ Cardinality(Resetting(u)') =
           Cardinality(Resetting(u)) + One(r \in Resetting(u)') - One(r \in Resetting(u))
      /\ Cardinality(Answered') = Cardinality(Answered) + One(areq'[r].pc = "done")
  BY ResettingMoves, AnsweredMoves
<1> QED
  BY <1>1, <1>2, <1>3, <1>4

LEMMA PreparingKeepsTokens ==
  ASSUME AccountsShape, TokensAreOfRequests, NEW r \in AcctRequests, Prepares(r)
  PROVE  TokensAreOfRequests'
<1>1. Unlocked(r) /\ UNCHANGED <<issued, expired, confirmed>>
  BY PreparesEffect
<1>2. tokens' = tokens /\ areq[r].pc = "idle"
  BY DEF Prepares, Verify, AuthenticatePush
<1>3. \A u \in Users : r \notin Resetting(u) /\ r \notin Resetting(u)'
  BY <1>1, <1>2 DEF Resetting, Unlocked, Locked
<1>4. One(areq'[r].pc = "done") \in 0 .. 1
  BY DEF One
<1> QED
  BY <1>1, <1>2, <1>3, <1>4, TokensAfter DEF TokensAreOfRequests, AccountsShape, Unlocked, One

LEMMA LockingKeepsTokens ==
  ASSUME AccountsShape, TokensAreOfRequests, NEW r \in AcctRequests, TakesLock(r)
  PROVE  TokensAreOfRequests'
<1>1. Stirs(r) /\ UNCHANGED <<issued, expired, confirmed>>
  BY TakesLockEffect
<1>2. /\ tokens \in [Users -> Nat] /\ issued \in [Users -> Nat] /\ areq \in [AcctRequests -> Requests]
      /\ expired \subseteq SessionIds /\ confirmed \in BOOLEAN
  BY DEF TokensAreOfRequests, AccountsShape
<1>3. One(areq'[r].pc = "done") \in 0 .. 1
  BY DEF One
<1>4. ASSUME NEW op \in BindingOps, NEW u \in Users, LockBinding(r, op, u)
      PROVE  /\ tokens' \in [Users -> Nat]
             /\ \A v \in Users : tokens'[v] + One(r \in Resetting(v)') <= tokens[v] + One(r \in Resetting(v))
  <2>1. ~Locked(r) /\ (op = "reset" => tokens[u] > 0)
    BY <1>4 DEF LockBinding, Locked
  <2>2. CASE tenantStatus[u] = "active"
    <3>1. /\ areq'[r].pc = "locked" /\ areq'[r].op = op /\ areq'[r].user = u
          /\ tokens' = [tokens EXCEPT ![u] = IF op = "reset" THEN @ - 1 ELSE @]
      BY <1>2, <1>4, <2>2 DEF LockBinding, AcctAt
    <3>2. tokens' \in [Users -> Nat]
      BY <1>2, <2>1, <3>1
    <3>3. \A v \in Users : r \notin Resetting(v) /\ (r \in Resetting(v)' <=> op = "reset" /\ v = u)
      BY <2>1, <3>1 DEF Resetting, Locked
    <3>4. \A v \in Users : tokens[v] \in Nat /\ tokens'[v] = IF op = "reset" /\ v = u THEN tokens[v] - 1 ELSE tokens[v]
      BY <1>2, <3>1
    <3> QED
      BY <3>2, <3>3, <3>4 DEF One
  <2>3. CASE tenantStatus[u] # "active"
    <3>1. Finish(r) /\ tokens' = tokens
      BY <1>4, <2>3 DEF LockBinding
    <3>2. \A v \in Users : r \notin Resetting(v) /\ r \notin Resetting(v)'
      BY <2>1, <3>1, FinishEffect DEF Resetting, Locked
    <3> QED
      BY <1>2, <3>1, <3>2 DEF One
  <2> QED
    BY <2>2, <2>3
<1>5. ASSUME NEW op \in AdminOps, NEW u \in Users, LockTarget(r, op, u)
      PROVE  /\ tokens' \in [Users -> Nat]
             /\ \A v \in Users : tokens'[v] + One(r \in Resetting(v)') <= tokens[v] + One(r \in Resetting(v))
  <2>1. ~Locked(r) /\ tokens' = tokens
    BY <1>5 DEF LockTarget, Locked
  <2>2. areq'[r].pc = "locked" => areq'[r].op \in AdminOps
    BY <1>5, LockTargetEffect DEF AtRest
  <2>3. \A v \in Users : r \notin Resetting(v) /\ r \notin Resetting(v)'
    BY <2>1, <2>2 DEF Resetting, Locked, AdminOps
  <2> QED
    BY <1>2, <2>1, <2>3 DEF One
<1>6. /\ tokens' \in [Users -> Nat]
      /\ \A v \in Users : tokens'[v] + One(r \in Resetting(v)') <= tokens[v] + One(r \in Resetting(v))
  BY <1>4, <1>5 DEF TakesLock
<1>7. \A v \in Users : /\ tokens[v] \in Nat /\ tokens'[v] \in Nat /\ issued[v] \in Nat
                       /\ One(r \in Resetting(v)) \in Nat /\ One(r \in Resetting(v)') \in Nat
  BY <1>2, <1>6 DEF One
<1>8. \A v \in Users :
        /\ tokens'[v] + One(r \in Resetting(v)') + issued[v] <= tokens[v] + One(r \in Resetting(v)) + issued'[v]
        /\ issued'[v] <= issued[v] + One(areq'[r].pc = "done")
  BY <1>1, <1>3, <1>6, <1>7
<1> QED
  BY <1>1, <1>2, <1>6, <1>8, TokensAfter

LEMMA EndingKeepsTokens ==
  ASSUME AccountsShape, TokensAreOfRequests, NEW r \in AcctRequests, EndsRequest(r)
  PROVE  TokensAreOfRequests'
<1>1. Stirs(r) /\ areq'[r].pc = "done"
  BY EndsEffect DEF AtRest, Unlocked
<1>2. /\ tokens \in [Users -> Nat] /\ issued \in [Users -> Nat]
      /\ expired \subseteq SessionIds /\ confirmed \in BOOLEAN
      /\ Locked(r) => areq[r].user \in Users
  BY DEF TokensAreOfRequests, AccountsShape, Locked
<1>3. \A v \in Users : r \notin Resetting(v)' /\ (r \in Resetting(v) <=> Locked(r) /\ areq[r].op = "reset" /\ areq[r].user = v)
  BY <1>1 DEF Resetting, Locked
<1>4. expired' = expired /\ confirmed' \in BOOLEAN
  BY <1>2 DEF EndsRequest, CreateSession, CreatePasswordResetToken, ResetPassword, SuspendAccount, ReactivateAccount,
     ChangeAccountRole, BeginTenantDeletion, RollBack, RegisterPush
<1>5. CASE CreatePasswordResetToken(r)
  <2>1. \/ UNCHANGED <<tokens, issued>>
        \/ /\ tokens' = [tokens EXCEPT ![areq[r].user] = @ + 1]
           /\ issued' = [issued EXCEPT ![areq[r].user] = @ + 1]
    BY <1>5 DEF CreatePasswordResetToken
  <2>2. /\ tokens' \in [Users -> Nat] /\ issued' \in [Users -> Nat]
        /\ \A v \in Users : \/ tokens'[v] = tokens[v] /\ issued'[v] = issued[v]
                            \/ tokens'[v] = tokens[v] + 1 /\ issued'[v] = issued[v] + 1
    BY <1>2, <2>1
  <2>3. \A v \in Users : r \notin Resetting(v)
    BY <1>3, <1>5 DEF CreatePasswordResetToken
  <2>4. \A v \in Users :
        /\ tokens'[v] + One(r \in Resetting(v)') + issued[v] <= tokens[v] + One(r \in Resetting(v)) + issued'[v]
        /\ issued'[v] <= issued[v] + One(areq'[r].pc = "done")
    BY <1>1, <1>2, <1>3, <2>2, <2>3 DEF One
  <2> QED
    BY <1>1, <1>2, <1>4, <2>2, <2>4, TokensAfter
<1>6. CASE RollBack(r)
  <2>1. /\ Locked(r) /\ UNCHANGED issued
        /\ tokens' = [tokens EXCEPT ![areq[r].user] = IF areq[r].op = "reset" THEN @ + 1 ELSE @]
    BY <1>6 DEF RollBack
  <2>2. /\ tokens' \in [Users -> Nat]
        /\ \A v \in Users : tokens'[v] = IF areq[r].op = "reset" /\ v = areq[r].user THEN tokens[v] + 1 ELSE tokens[v]
    BY <1>2, <2>1
  <2>3. \A v \in Users :
        /\ tokens'[v] + One(r \in Resetting(v)') + issued[v] <= tokens[v] + One(r \in Resetting(v)) + issued'[v]
        /\ issued'[v] <= issued[v] + One(areq'[r].pc = "done")
    BY <1>1, <1>2, <1>3, <2>1, <2>2 DEF One
  <2> QED
    BY <1>1, <1>2, <1>4, <2>1, <2>2, <2>3, TokensAfter
<1>7. CASE UNCHANGED <<tokens, issued>>
  <2>1. \A v \in Users :
        /\ tokens'[v] + One(r \in Resetting(v)') + issued[v] <= tokens[v] + One(r \in Resetting(v)) + issued'[v]
        /\ issued'[v] <= issued[v] + One(areq'[r].pc = "done")
    BY <1>1, <1>2, <1>3, <1>7 DEF One
  <2> QED
    BY <1>1, <1>2, <1>4, <1>7, <2>1, TokensAfter
<1> QED
  BY <1>5, <1>6, <1>7 DEF EndsRequest, CreateSession, ResetPassword, SuspendAccount, ReactivateAccount,
     ChangeAccountRole, BeginTenantDeletion, RegisterPush

LEMMA AsideKeepsTokens ==
  ASSUME AccountsShape, TokensAreOfRequests, Aside
  PROVE  TokensAreOfRequests'
<1>1. UNCHANGED <<areq, issued, confirmed>>
  BY AsideEffect
<1>2. expired' \subseteq SessionIds
  BY DEF Aside, EraseIdentity, Logout, SessionExpires, TokensAreOfRequests, AccountsShape
<1>3. tokens \in [Users -> Nat] /\ (tokens' = tokens \/ \E u \in Users : tokens' = [tokens EXCEPT ![u] = 0])
  BY DEF Aside, EraseIdentity, Logout, SessionExpires, TokensAreOfRequests
<1>4. tokens' \in [Users -> Nat] /\ \A v \in Users : tokens'[v] <= tokens[v]
  BY <1>3
<1>5. \A v \in Users : Resetting(v)' = Resetting(v) /\ Answered' = Answered
  BY <1>1 DEF Resetting, Answered, Locked
<1>6. \A v \in Users : /\ Cardinality(Resetting(v)) \in Nat /\ tokens[v] \in Nat /\ tokens'[v] \in Nat
                       /\ issued[v] \in Nat
  BY <1>3, <1>4, CountedRequests DEF AccountsShape
<1> QED
  BY <1>1, <1>2, <1>4, <1>5, <1>6 DEF TokensAreOfRequests

LEMMA TokensKept == AccountsShape /\ TokensAreOfRequests /\ [AcctNext]_acctVars => TokensAreOfRequests'
<1> SUFFICES ASSUME AccountsShape, TokensAreOfRequests, [AcctNext]_acctVars PROVE TokensAreOfRequests'
  OBVIOUS
<1>1. CASE UNCHANGED acctVars
  <2>1. UNCHANGED <<areq, issued, confirmed, tokens, expired>>
    BY <1>1 DEF acctVars
  <2>2. \A v \in Users : Resetting(v)' = Resetting(v) /\ Answered' = Answered
    BY <2>1 DEF Resetting, Answered, Locked
  <2> QED
    BY <2>1, <2>2 DEF TokensAreOfRequests
<1> QED
  BY <1>1, StepKinds, PreparingKeepsTokens, LockingKeepsTokens, EndingKeepsTokens, AsideKeepsTokens

LEMMA TokensInitially == AcctInit => TokensAreOfRequests
<1> SUFFICES ASSUME AcctInit, NEW u \in Users
             PROVE  tokens[u] + Cardinality(Resetting(u)) <= issued[u] /\ issued[u] <= Cardinality(Answered) + 1
  BY DEF AcctInit, TokensAreOfRequests
<1>1. Resetting(u) = {} /\ tokens[u] \in 0 .. 1 /\ issued[u] = tokens[u] /\ Cardinality(Answered) \in Nat
  BY CountedRequests DEF AcctInit, Resetting, Locked, IdleRequest
<1> QED
  BY <1>1, FS_EmptySet

LEMMA AccountsTyped == AcctInv /\ TokensAreOfRequests => AcctTypeOK
<1> SUFFICES ASSUME AccountsShape, TokensAreOfRequests PROVE AcctTypeOK
  BY DEF AcctInv
<1>1. ASSUME NEW u \in Users
      PROVE  /\ tokens[u] \in 0 .. Cardinality(AcctRequests) + 1
             /\ issued[u] \in 0 .. Cardinality(AcctRequests) + 1
  <2>1. tokens[u] \in Nat /\ issued[u] \in Nat
    BY DEF AccountsShape, TokensAreOfRequests
  <2>2. /\ Cardinality(Resetting(u)) \in Nat /\ Cardinality(Answered) \in Nat /\ Cardinality(AcctRequests) \in Nat
        /\ Cardinality(Answered) <= Cardinality(AcctRequests)
    BY CountedRequests
  <2> QED
    BY <2>1, <2>2 DEF TokensAreOfRequests
<1> QED
  BY <1>1 DEF AcctTypeOK, AccountsShape, TokensAreOfRequests

\* The clock and the arrays of the limiter stay within their bounds.
ArraysFit ==
    clock \in 0 .. LastTick /\ \A s \in DOMAIN windows : Len(windows[s].at) \in 1 .. MaxEvents

LEMMA AcquireKeepsArrays ==
  ASSUME LimiterInv, ArraysFit, NEW r \in AuthRequests, NEW s \in Slots, TryAcquire(r, s)
  PROVE  ArraysFit'
<1>1. /\ \A t \in DOMAIN windows : windows[t] \in [array : AuthRequests, at : Seq(Nat)]
      /\ clock \in 0 .. LastTick /\ clock \in Nat /\ MaxEvents \in Nat \ {0} /\ clock' = clock
  BY ThrottleAssumption DEF LimiterInv, LimiterShape, ArraysFit, TryAcquire
<1>2. InOrder(Pruned(s)) /\ (Pruned(s) # <<>> => s \in DOMAIN windows)
  BY RecentEvents DEF LimiterInv, Exact
<1>3. Pruned(s) \in Seq(Nat) /\ Len(Pruned(s)) \in Nat /\ (Pruned(s) # <<>> => Len(Pruned(s)) <= Len(windows[s].at))
  <2>1. Pruned(s) \in Seq(Nat)
    BY <1>2 DEF InOrder
  <2>2. ASSUME Pruned(s) # <<>> PROVE Len(Pruned(s)) <= Len(windows[s].at)
    <3>1. InOrder(Events(s)) /\ Events(s) = windows[s].at /\ Pruned(s) = Unexpired(Events(s))
      BY <1>2, <2>2, RecentEvents DEF LimiterInv, Exact, Events
    <3>2. /\ FirstLive(Events(s)) \in 1 .. Len(Events(s)) + 1 /\ Len(Events(s)) \in Nat
          /\ Len(Unexpired(Events(s))) = Len(Events(s)) - FirstLive(Events(s)) + 1
      BY <1>1, <3>1, PrunedArray DEF InOrder
    <3> QED
      BY <3>1, <3>2
  <2> QED
    BY <2>1, <2>2
<1>4. CASE Len(Pruned(s)) >= MaxEvents
  <2>1. windows' = [windows EXCEPT ![s].at = Pruned(s)] /\ Pruned(s) # <<>>
    BY <1>1, <1>4 DEF TryAcquire
  <2>2. Len(windows[s].at) <= MaxEvents
    BY <1>2, <2>1 DEF ArraysFit
  <2>3. Len(Pruned(s)) \in 1 .. MaxEvents
    BY <1>1, <1>2, <1>3, <1>4, <2>1, <2>2
  <2>4. \A t \in DOMAIN windows' : windows'[t].at = IF t = s THEN Pruned(s) ELSE windows[t].at
    BY <1>1, <2>1
  <2> QED
    BY <1>1, <2>1, <2>3, <2>4 DEF ArraysFit
<1>5. CASE ~(Len(Pruned(s)) >= MaxEvents)
  <2>1. /\ s \in DOMAIN windows' /\ windows'[s].at = Append(Pruned(s), clock)
        /\ \A t \in DOMAIN windows' \ {s} : t \in DOMAIN windows /\ windows'[t] = windows[t]
    <3> DEFINE recent == Pruned(s)
               kept == IF recent = <<>> THEN DOMAIN windows \ {s} ELSE DOMAIN windows
               left(gone) == Without(gone \cup (IF recent = <<>> THEN {s} ELSE {}))
               array == IF recent = <<>> THEN r ELSE windows[s].array
    <3>1. PICK gone \in SUBSET kept :
            windows' = [t \in DOMAIN left(gone) \cup {s} |->
                           IF t = s THEN [array |-> array, at |-> Append(recent, clock)] ELSE left(gone)[t]]
      BY <1>5 DEF TryAcquire
    <3>2. \A t \in DOMAIN left(gone) : t \in DOMAIN windows /\ left(gone)[t] = windows[t]
      BY DEF Without
    <3> HIDE DEF left, array, recent, kept
    <3> QED
      BY <3>1, <3>2 DEF recent
  <2>2. Len(Append(Pruned(s), clock)) = Len(Pruned(s)) + 1
    BY <1>1, <1>3
  <2> QED
    BY <1>1, <1>3, <1>5, <2>1, <2>2 DEF ArraysFit
<1> QED
  BY <1>4, <1>5

LEMMA ReleaseKeepsArrays ==
  ASSUME LimiterInv, ArraysFit, NEW r \in AuthRequests, Release(r)
  PROVE  ArraysFit'
<1> DEFINE s == asked[r].slot
<1>1. /\ \A t \in DOMAIN windows : windows[t] \in [array : AuthRequests, at : Seq(Nat)]
      /\ clock' = clock
  BY DEF LimiterInv, LimiterShape, Release
<1>2. \/ windows' = windows \/ windows' = Without({s})
      \/ /\ s \in DOMAIN windows /\ asked[r].at \in ToSet(windows[s].at) /\ Len(windows[s].at) # 1
         /\ windows' = [windows EXCEPT ![s].at = RemoveAt(@, LastIndex(@, asked[r].at))]
  BY DEF Release
<1>3. CASE windows' = windows \/ windows' = Without({s})
  BY <1>1, <1>3 DEF ArraysFit, Without
<1>4. CASE /\ s \in DOMAIN windows /\ asked[r].at \in ToSet(windows[s].at) /\ Len(windows[s].at) # 1
           /\ windows' = [windows EXCEPT ![s].at = RemoveAt(@, LastIndex(@, asked[r].at))]
  <2> DEFINE times == windows[s].at
             t == asked[r].at
  <2>1. s \in Slots /\ Events(s) = times /\ InOrder(times) /\ clock \in Nat
    BY <1>4 DEF LimiterInv, LimiterShape, Events
  <2>2. LastIndex(times, t) \in 1 .. Len(times)
    BY <1>4, <2>1, LastIndexIn
  <2>3. Len(RemoveAt(times, LastIndex(times, t))) = Len(times) - 1
    BY <2>1, <2>2, RemovedArray
  <2>4. \A x \in DOMAIN windows' : windows'[x].at = IF x = s THEN RemoveAt(times, LastIndex(times, t)) ELSE windows[x].at
    BY <1>1, <1>4
  <2>5. DOMAIN windows' = DOMAIN windows
    BY <1>4
  <2>6. Len(times) \in Nat /\ MaxEvents \in Nat
    BY <2>1, ThrottleAssumption DEF InOrder
  <2>7. Len(times) \in 1 .. MaxEvents /\ Len(times) # 1
    BY <1>4 DEF ArraysFit
  <2>8. ASSUME NEW n \in Nat, n \in 1 .. MaxEvents, n # 1 PROVE n - 1 \in 1 .. MaxEvents
    BY <2>6, <2>8
  <2>9. Len(times) - 1 \in 1 .. MaxEvents
    BY <2>6, <2>7, <2>8
  <2> HIDE DEF s, times, t
  <2> QED
    BY <1>1, <2>3, <2>4, <2>5, <2>9 DEF ArraysFit
<1> QED
  BY <1>2, <1>3, <1>4

LEMMA ArraysKept == LimiterInv /\ ArraysFit /\ [ThrottleNext]_throttleVars => ArraysFit'
<1> SUFFICES ASSUME LimiterInv, ArraysFit, [ThrottleNext]_throttleVars PROVE ArraysFit'
  OBVIOUS
<1>1. CASE UNCHANGED <<clock, windows>>
  BY <1>1 DEF ArraysFit
<1>2. CASE ThrottleTicks
  BY <1>2, ThrottleAssumption DEF ThrottleTicks, ArraysFit
<1>3. ASSUME NEW r \in AuthRequests, NEW s \in Slots, TryAcquire(r, s) PROVE ArraysFit'
  BY <1>3, AcquireKeepsArrays
<1>4. ASSUME NEW r \in AuthRequests, Release(r) PROVE ArraysFit'
  BY <1>4, ReleaseKeepsArrays
<1> QED
  BY <1>1, <1>2, <1>3, <1>4 DEF ThrottleNext, OutcomeCounts, throttleVars

LEMMA ThrottleTyped == LimiterInv /\ ArraysFit => ThrottleTypeOK
<1> SUFFICES ASSUME LimiterShape, ArraysFit PROVE ThrottleTypeOK
  BY DEF LimiterInv
<1>1. \A r \in AuthRequests : asked[r].step \in {"none", "refused", "granted", "counted", "released"}
  BY DEF LimiterShape, AskedRequests
<1> QED
  BY <1>1 DEF ThrottleTypeOK, LimiterShape, ArraysFit
-----------------------------------------------------------------------------
(* The platform: what each part keeps, all of it keeps. *)

LEMMA ProvisioningTyped == ProvInv => ProvTypeOK
<1> SUFFICES ASSUME ProvInv PROVE ProvTypeOK
  OBVIOUS
<1>1. schema.locked \subseteq schema.dbs /\ schema.dbs \subseteq Databases
  BY DEF ProvInv, DeployShape, SeedIsWhole, Whole, Blank
<1>2. \A d \in Deploys : deploy[d].at \in DeployStates /\ deploy[d].draft.parts \in 0 .. Len(SeedParts)
  BY DEF ProvInv, DeployShape, Drafts, PartCount
<1>3. \A d \in sharing : deploy[d].at = "seeding" /\ seedLock = d
  BY DEF ProvInv, SeedIsAlone, DeployAt
<1>4. \A d \in Deploys : migrationLock = d <=> deploy[d].at \in Migrating
  BY DEF ProvInv, MigrationIsAlone, DeployAt
<1>5. result \in [Deploys -> {"none", "created", "already", "refused", "conflict", "failed"}]
  BY DEF ProvInv, DeployShape
<1> QED
  BY <1>1, <1>2, <1>3, <1>4, <1>5 DEF ProvTypeOK, ProvInv, DeployShape

LEMMA MigrationTyped == DMInv => DMTypeOK
<1> SUFFICES ASSUME DMInv PROVE DMTypeOK
  OBVIOUS
<1>1. ASSUME NEW i \in ItemIds
      PROVE  stored[i].shape \in {"none", "old", "new"} /\ stored[i].edits \in 0 .. MaxItemEdits
  <2>1. /\ edited[i] \in Nat /\ editsMade \in 0 .. MaxItemEdits /\ MaxItemEdits \in Nat
        /\ edited[i] + (IF itemLock[i] \in ItemEditors THEN 1 ELSE 0) <= editsMade
        /\ stored[i].edits = edited[i] /\ stored[i] \in ItemRecs
    BY DataMigrationAssumption DEF DMInv, DMTyped, EditsFit, NoEditIsOverwritten
  <2>2. edited[i] \in 0 .. MaxItemEdits
    BY <2>1
  <2> QED
    BY <2>1, <2>2 DEF ItemRecs
<1>2. /\ progress.pass \in 0 .. 2 /\ progress.cursor \in 0 .. MaxItem /\ recorded \in BOOLEAN
      /\ sessionLock \in Migrators \cup {NoRunner} /\ slipped \subseteq ItemIds
      /\ itemLock \in [ItemIds -> Migrators \cup ItemEditors \cup {NoRunner}]
  BY DEF DMInv, DMTyped
<1>3. ASSUME NEW m \in Migrators
      PROVE  /\ runner[m].at \in {"idle", "checking", "batch", "locking", "converting", "record"}
             /\ runner[m].page \subseteq ItemIds
  BY DEF DMInv, DMTyped
<1>4. \A m \in Migrators : runner[m].at = "converting" => \A i \in runner[m].page : itemLock[i] = m
  BY DEF DMInv, PagesHeld
<1> QED
  BY <1>1, <1>2, <1>3, <1>4 DEF DMTypeOK

PlatformInv ==
    /\ AcctInv /\ TokensAreOfRequests
    /\ MapInv /\ LimiterInv /\ ArraysFit
    /\ PurgeInv /\ ExportInv /\ HInv /\ ProvInv /\ DMInv /\ RegInv

\* In every stage the part that moves takes a step of its own, and the others rest.
LEMMA EveryPartSteps ==
  [PlatformNext]_platformVars =>
    /\ [AcctNext]_acctVars /\ [ThrottleNext]_throttleVars /\ [PurgeNext]_purgeVars /\ [ExportNext]_exportVars
    /\ [HNext]_hVars /\ [ProvNext]_provVars /\ [DMNext]_dmVars /\ [RegNext]_regVars
<1> SUFFICES ASSUME [PlatformNext]_platformVars
             PROVE  /\ [AcctNext]_acctVars /\ [ThrottleNext]_throttleVars /\ [PurgeNext]_purgeVars
                    /\ [ExportNext]_exportVars /\ [HNext]_hVars /\ [ProvNext]_provVars /\ [DMNext]_dmVars
                    /\ [RegNext]_regVars
  OBVIOUS
<1>1. CASE UNCHANGED platformVars
  BY <1>1 DEF platformVars
<1>2. CASE PlatformNext
  BY <1>2 DEF PlatformNext
<1> QED
  BY <1>1, <1>2

LEMMA PlatformInitially == PlatformInit => PlatformInv
<1> SUFFICES ASSUME PlatformInit PROVE PlatformInv
  OBVIOUS
<1>1. AcctInit /\ ThrottleInit /\ PurgeInit /\ ExportInit /\ HInit /\ ProvInit /\ DMInit /\ RegInit
  BY DEF PlatformInit
<1>2. ArraysFit
  <2>1. DOMAIN <<>> = {}
    OBVIOUS
  <2> QED
    BY <1>1, <2>1, ThrottleAssumption DEF ThrottleInit, ArraysFit
<1> QED
  BY <1>1, <1>2, AcctInitially, TokensInitially, MapInitially, LimiterInit, PurgeInitially, ExportInitially,
     HealthInitially, ProvInitially, MigrationInitially, RegInitially DEF PlatformInv

LEMMA PlatformKept == PlatformInv /\ [PlatformNext]_platformVars => PlatformInv'
<1> SUFFICES ASSUME PlatformInv, [PlatformNext]_platformVars PROVE PlatformInv'
  OBVIOUS
<1>1. /\ [AcctNext]_acctVars /\ [ThrottleNext]_throttleVars /\ [PurgeNext]_purgeVars /\ [ExportNext]_exportVars
      /\ [HNext]_hVars /\ [ProvNext]_provVars /\ [DMNext]_dmVars /\ [RegNext]_regVars
  BY EveryPartSteps
<1>2. AcctInv' /\ TokensAreOfRequests'
  BY <1>1, AccountsKept, TokensKept DEF PlatformInv, AcctInv
<1>3. MapInv' /\ LimiterInv' /\ ArraysFit'
  BY <1>1, MapKept, LimiterKept, ArraysKept DEF PlatformInv
<1>4. PurgeInv' /\ ExportInv'
  BY <1>1, PurgeKept, ExportKept DEF PlatformInv
<1>5. HInv' /\ ProvInv'
  BY <1>1, HealthStep, ProvKept DEF PlatformInv
<1>6. DMInv' /\ RegInv'
  BY <1>1, MigrationStep, RegKept DEF PlatformInv
<1> QED
  BY <1>2, <1>3, <1>4, <1>5, <1>6 DEF PlatformInv

LEMMA PlatformInvMeans == PlatformInv => PlatformIsSafe
<1> SUFFICES ASSUME PlatformInv PROVE PlatformIsSafe
  OBVIOUS
<1>1. PlatformTypeOK
  BY AccountsTyped, ThrottleTyped, ProvisioningTyped, MigrationTyped
  DEF PlatformInv, PlatformTypeOK, PurgeInv, ExportInv, HInv, TicksAreSound, RegInv
<1>2. /\ KeysAreBounded /\ AnActiveAdminRemains /\ NoSessionOutlivesSuspension /\ ResetEndsSessions
      /\ DeletionIsConfirmed /\ PushEndsWithRevocation
  BY DEF PlatformInv, MapInv, AcctInv
<1>3. ErasedMeansNoRows /\ ErasedMeansNoBytes /\ ErasedMeansNoPartitions
  BY PurgeInvMeans DEF PlatformInv
<1>4. ReadyHasArchive /\ StrandedExportLostItsTask /\ NoLeakedArchives
  BY ExportInvMeans DEF PlatformInv
<1>5. AlertedOncePerFault /\ AlertingIsKnownToAll
  BY HealthInvMeans DEF PlatformInv
<1>6. SeedIsWhole /\ SeedersAgree
  BY ProvInvMeans DEF PlatformInv
<1>7. RecordedMeansConverted /\ NoEditIsOverwritten
  BY MigrationInvMeans DEF PlatformInv
<1>8. OwnersAreLoaded /\ ProjectionsAreUnambiguous
  BY RegInvMeans DEF PlatformInv
<1> QED
  BY <1>1, <1>2, <1>3, <1>4, <1>5, <1>6, <1>7, <1>8 DEF PlatformIsSafe

(* Every part of the platform is safe, types included, for any number of   *)
(* users, requests, runs, operators, deploys, items and module files: the  *)
(* property the run of the platform checks on its bounds.                  *)
THEOREM PlatformSafety == PlatformSpec => []PlatformIsSafe
<1> QED
  BY PlatformInitially, PlatformKept, PlatformInvMeans, PTL DEF PlatformSpec

(* No step of the platform prunes a live job's row, activates a tenant     *)
(* that is not seeded, seeds a deleted one, takes a migration's progress   *)
(* back or shows a module that was inactive all the while.                 *)
THEOREM PlatformSteps == PlatformSpec => PlatformStepsAreSound
<1>1. PlatformInv /\ [PlatformNext]_platformVars =>
        [pruning # "no" /\ pruning' = "no" => world.job = "old"]_hVars
  BY EveryPartSteps, PruneStep DEF PlatformInv
<1>2. PlatformInv /\ [PlatformNext]_platformVars =>
        [pstatus = "provisioning" /\ pstatus' = "active" => Whole(schema) /\ (migrated \/ unawaited)]_provVars
  BY EveryPartSteps, ActivationStep DEF PlatformInv
<1>3. PlatformInv /\ [PlatformNext]_platformVars =>
        [schema' # schema /\ schema' # Blank => pstatus \in Maintained]_provVars
  BY EveryPartSteps, SeedingStep DEF PlatformInv
<1>4. PlatformInv /\ [PlatformNext]_platformVars =>
        [progress' # progress /\ ~lockLoss =>
         \/ progress'.pass = 0 /\ recorded'
         \/ progress'.pass > progress.pass
         \/ progress'.pass = progress.pass /\ progress'.cursor >= progress.cursor]_dmVars
  BY EveryPartSteps, ProgressStep DEF PlatformInv
<1>5. PlatformInv /\ [PlatformNext]_platformVars =>
        [projection'.step = "answered" /\ projection.step = "asked" => \A r \in projection'.rows : r[1] \in sinceAsked]_regVars
  BY EveryPartSteps, AnswerShowsActive DEF PlatformInv
<1> QED
  BY <1>1, <1>2, <1>3, <1>4, <1>5, PlatformInitially, PlatformKept, PTL
  DEF PlatformSpec, PlatformStepsAreSound, PruneTakesOnlyTheDead, ActivatedIsSeeded, DeletedIsNotSeeded,
      ProgressAdvances, DeactivationIsSeen
=============================================================================
