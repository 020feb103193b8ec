--------------------------- MODULE Authentication ---------------------------
(***************************************************************************)
(* Accounts and their sessions, and the limiter in front of the public     *)
(* authentication routes.                                                  *)
(***************************************************************************)
EXTENDS Naturals, Sequences, FiniteSets, SequencesExt

-----------------------------------------------------------------------------
(***************************************************************************)
(* Accounts under concurrent requests: logging in, asking for and using a  *)
(* password reset, registering a device for push, logging out, and the     *)
(* operations of an administrator (suspend, reactivate, change the role,   *)
(* delete). Every user is the one user of a tenant. A request that writes  *)
(* on the strength of what it has read runs in a transaction and holds row *)
(* locks between its read and its commit: lockUserTenantBinding a shared   *)
(* one, the admin operations an exclusive one and the membership lock.     *)
(***************************************************************************)

CONSTANTS
    Users,
    AcctRequests,   \* the requests that arrive
    Endpoints,      \* push endpoints of devices
    MaxPassword,    \* password changes of a user
    ResetCap,       \* PASSWORD_RESET_MAX_REQUESTS_PER_WINDOW
    NoEntry

ASSUME AccountsAssumption ==
    MaxPassword \in Nat /\ ResetCap \in Nat \ {0} /\ Users \cap AcctRequests = {}
ASSUME RequestsAssumption == IsFiniteSet(AcctRequests)

VARIABLES
    tenantStatus,   \* tenants.status of every user's tenant
    role,           \* users.role
    password,       \* which password users.password_hash holds
    live,           \* sessions neither revoked nor expired
    expired,        \* ids of sessions that ran out
    push,           \* the active registration of every endpoint
    tokens,         \* unused password-reset tokens
    issued,         \* tokens issued in the window
    areq,           \* the step of every request
    confirmed       \* history: the passwords that confirmed a self-deletion were current

acctVars == <<tenantStatus, role, password, live, expired, push, tokens, issued, areq, confirmed>>

SessionIds == Users \cup AcctRequests
SessionsOf(u) == {s \in live : s.user = u}
IdleRequest == [pc |-> "idle", op |-> "none", user |-> NoEntry, pw |-> 0, seen |-> 0]
AdminOps == {"suspend", "reactivate", "demote", "promote", "deleteOwn", "deleteAdmin"}
BindingOps == {"login", "requestReset", "reset"}

AcctInit ==
    /\ tenantStatus = [u \in Users |-> "active"]
    /\ role \in [Users -> {"admin", "member"}] /\ \E u \in Users : role[u] = "admin"
    /\ password = [u \in Users |-> 0]
    /\ live = {[id |-> u, user |-> u, pw |-> 0, overtaken |-> FALSE] : u \in Users}
    /\ expired = {} /\ push = [e \in Endpoints |-> NoEntry]
    /\ tokens \in [Users -> 0 .. 1] /\ issued = tokens \* a reset may have been asked for
    /\ areq = [r \in AcctRequests |-> IdleRequest]
    /\ confirmed = TRUE

AcctTypeOK ==
    /\ tenantStatus \in [Users -> {"active", "suspended", "deleting", "gone"}]
    /\ role \in [Users -> {"admin", "member"}]
    /\ password \in [Users -> 0 .. MaxPassword]
    /\ live \subseteq [id : SessionIds, user : Users, pw : 0 .. MaxPassword, overtaken : BOOLEAN]
    /\ expired \subseteq SessionIds
    /\ push \in [Endpoints -> {NoEntry} \cup [id : SessionIds, user : Users, late : BOOLEAN]]
    /\ tokens \in [Users -> 0 .. Cardinality(AcctRequests) + 1]
    /\ issued \in [Users -> 0 .. Cardinality(AcctRequests) + 1]
    /\ confirmed \in BOOLEAN

-----------------------------------------------------------------------------
(* Locks. A binding is held FOR KEY SHARE / FOR SHARE, a target FOR UPDATE *)
(* together with the advisory lock of admin membership.                    *)
Locked(r) == areq[r].pc = "locked"
ShareLocked(u) == \E r \in AcctRequests : Locked(r) /\ areq[r].user = u /\ areq[r].op \in BindingOps
TargetLocked(u) == \E r \in AcctRequests : Locked(r) /\ areq[r].user = u /\ areq[r].op \in AdminOps
MembershipLocked == \E r \in AcctRequests : Locked(r) /\ areq[r].op \in AdminOps

AcctAt(r, rec) == areq' = [areq EXCEPT ![r] = rec]
Finish(r) == areq' = [areq EXCEPT ![r] = [IdleRequest EXCEPT !.pc = "done"]]
RevokePushOf(u) == [e \in Endpoints |-> IF push[e] # NoEntry /\ push[e].user = u THEN NoEntry ELSE push[e]]

(* What is read and verified before the transaction: the tenant's status   *)
(* and the password of login, the password of deleteOwnAccount (whose      *)
(* caller has a session).                                                  *)
Verify(r, op, u) ==
    /\ areq[r].pc = "idle" /\ op \in {"login", "deleteOwn"}
    /\ op = "login" => tenantStatus[u] = "active"
    /\ op = "deleteOwn" => SessionsOf(u) # {}
    /\ AcctAt(r, [pc |-> "verified", op |-> op, user |-> u, pw |-> password[u], seen |-> 0])
    /\ UNCHANGED <<tenantStatus, role, password, live, expired, push, tokens, issued, confirmed>>

(* lockUserTenantBinding in the transaction of login, of the request for a *)
(* reset (which counts the recent tokens) and of the reset (which consumes *)
(* a token): it waits for an exclusive lock and re-reads the status. A     *)
(* tenant that is not active rolls back.                                   *)
LockBinding(r, op, u) ==
    /\ \/ op = "login" /\ areq[r].pc = "verified" /\ areq[r].op = op /\ areq[r].user = u
       \/ op = "requestReset" /\ areq[r].pc = "idle"
       \/ op = "reset" /\ areq[r].pc = "idle" /\ tokens[u] > 0 /\ password[u] < MaxPassword
    /\ ~TargetLocked(u)
    /\ IF tenantStatus[u] = "active"
       THEN /\ AcctAt(r, [pc |-> "locked", op |-> op, user |-> u, pw |-> areq[r].pw, seen |-> issued[u]])
            /\ tokens' = [tokens EXCEPT ![u] = IF op = "reset" THEN @ - 1 ELSE @]
       ELSE Finish(r) /\ UNCHANGED tokens
    /\ UNCHANGED <<tenantStatus, role, password, live, expired, push, issued, confirmed>>

(* The session of a login that has verified the password.                  *)
CreateSession(r) ==
    LET u == areq[r].user IN
    /\ Locked(r) /\ areq[r].op = "login"
    /\ live' = live \cup {[id |-> r, user |-> u, pw |-> areq[r].pw, overtaken |-> areq[r].pw # password[u]]}
    /\ Finish(r)
    /\ UNCHANGED <<tenantStatus, role, password, expired, push, tokens, issued, confirmed>>

(* A reset token, unless the count read before has reached the cap.        *)
CreatePasswordResetToken(r) ==
    LET u == areq[r].user IN
    /\ Locked(r) /\ areq[r].op = "requestReset"
    /\ IF areq[r].seen < ResetCap
       THEN tokens' = [tokens EXCEPT ![u] = @ + 1] /\ issued' = [issued EXCEPT ![u] = @ + 1]
       ELSE UNCHANGED <<tokens, issued>>
    /\ Finish(r)
    /\ UNCHANGED <<tenantStatus, role, password, live, expired, push, confirmed>>

(* The new hash, and every session and push registration of the user ends. *)
ResetPassword(r) ==
    LET u == areq[r].user IN
    /\ Locked(r) /\ areq[r].op = "reset" /\ password[u] < MaxPassword
    /\ password' = [password EXCEPT ![u] = @ + 1]
    /\ live' = live \ SessionsOf(u) /\ push' = RevokePushOf(u) /\ Finish(r)
    /\ UNCHANGED <<tenantStatus, role, expired, tokens, issued, confirmed>>

-----------------------------------------------------------------------------
(* assertAnotherActiveAdminRemains, when the target counts as an active    *)
(* admin and would cease to.                                               *)
AnotherActiveAdmin(u) == \E v \in Users \ {u} : role[v] = "admin" /\ tenantStatus[v] = "active"
GuardsLastAdmin(op, u) ==
    op \notin {"reactivate", "promote"} /\ role[u] = "admin" /\ tenantStatus[u] = "active"

(* The target row is locked, the membership is not.                        *)
LockTargetAlone(r, op, u) ==
    /\ op \in AdminOps
    /\ IF op = "deleteOwn" THEN areq[r].pc = "verified" /\ areq[r].op = op /\ areq[r].user = u
                           ELSE areq[r].pc = "idle"
    /\ ~ShareLocked(u) /\ ~TargetLocked(u) /\ tenantStatus[u] # "gone"
    /\ IF \/ GuardsLastAdmin(op, u) /\ ~AnotherActiveAdmin(u)
          \/ op = "deleteOwn" /\ areq[r].pw # password[u]
       THEN Finish(r)
       ELSE AcctAt(r, [areq[r] EXCEPT !.pc = "locked", !.op = op, !.user = u])
    /\ UNCHANGED <<tenantStatus, role, password, live, expired, push, tokens, issued, confirmed>>

(* lockTarget / lockUserAndGuardLastAdmin: the membership lock, the target *)
(* row FOR UPDATE, the last-admin guard, and for a self-deletion the hash  *)
(* as it is now. A refusal rolls back.                                     *)
LockTarget(r, op, u) ==
    /\ op \in AdminOps
    /\ IF op = "deleteOwn" THEN areq[r].pc = "verified" /\ areq[r].op = op /\ areq[r].user = u
                           ELSE areq[r].pc = "idle"
    /\ ~MembershipLocked /\ ~ShareLocked(u) /\ tenantStatus[u] # "gone"
    /\ IF \/ GuardsLastAdmin(op, u) /\ ~AnotherActiveAdmin(u)
          \/ op = "deleteOwn" /\ areq[r].pw # password[u]
       THEN Finish(r)
       ELSE AcctAt(r, [areq[r] EXCEPT !.pc = "locked", !.op = op, !.user = u])
    /\ UNCHANGED <<tenantStatus, role, password, live, expired, push, tokens, issued, confirmed>>

(* transitionTenantStatus with what leaves with the status; a status that  *)
(* does not allow the transition rolls back.                               *)
SuspendAccount(r) ==
    LET u == areq[r].user IN
    /\ Locked(r) /\ areq[r].op = "suspend"
    /\ IF tenantStatus[u] = "active"
       THEN /\ tenantStatus' = [tenantStatus EXCEPT ![u] = "suspended"]
            /\ live' = live \ SessionsOf(u) /\ push' = RevokePushOf(u)
       ELSE UNCHANGED <<tenantStatus, live, push>>
    /\ Finish(r)
    /\ UNCHANGED <<role, password, expired, tokens, issued, confirmed>>

ReactivateAccount(r) ==
    LET u == areq[r].user IN
    /\ Locked(r) /\ areq[r].op = "reactivate"
    /\ tenantStatus' = [tenantStatus EXCEPT ![u] = IF @ = "suspended" THEN "active" ELSE @]
    /\ Finish(r)
    /\ UNCHANGED <<role, password, live, expired, push, tokens, issued, confirmed>>

ChangeAccountRole(r) ==
    LET u == areq[r].user IN
    /\ Locked(r) /\ areq[r].op \in {"promote", "demote"}
    /\ role' = [role EXCEPT ![u] = IF areq[r].op = "promote" THEN "admin" ELSE "member"]
    /\ Finish(r)
    /\ UNCHANGED <<tenantStatus, password, live, expired, push, tokens, issued, confirmed>>

(* deleteOwnAccount / deleteAccountAsAdmin: beginTenantDeletion.           *)
BeginTenantDeletion(r) ==
    LET u == areq[r].user IN
    /\ Locked(r) /\ areq[r].op \in {"deleteOwn", "deleteAdmin"}
    /\ IF tenantStatus[u] \in {"active", "suspended"}
       THEN /\ tenantStatus' = [tenantStatus EXCEPT ![u] = "deleting"]
            /\ live' = live \ SessionsOf(u) /\ push' = RevokePushOf(u)
            /\ confirmed' = (confirmed /\ (areq[r].op = "deleteOwn" => areq[r].pw = password[u]))
       ELSE UNCHANGED <<tenantStatus, live, push, confirmed>>
    /\ Finish(r)
    /\ UNCHANGED <<role, password, expired, tokens, issued>>

(* A transaction fails or its process dies: what it did is rolled back.    *)
RollBack(r) ==
    LET u == areq[r].user IN
    /\ Locked(r) /\ Finish(r)
    /\ tokens' = [tokens EXCEPT ![u] = IF areq[r].op = "reset" THEN @ + 1 ELSE @]
    /\ UNCHANGED <<tenantStatus, role, password, live, expired, push, issued, confirmed>>

(* The purge's last step erases the identity of a deleted tenant.          *)
EraseIdentity(u) ==
    /\ tenantStatus[u] = "deleting" /\ ~ShareLocked(u) /\ ~TargetLocked(u)
    /\ tenantStatus' = [tenantStatus EXCEPT ![u] = "gone"]
    /\ live' = live \ SessionsOf(u) /\ push' = RevokePushOf(u)
    /\ tokens' = [tokens EXCEPT ![u] = 0]
    /\ UNCHANGED <<role, password, expired, issued, areq, confirmed>>

-----------------------------------------------------------------------------
(* A device registers: the request is authenticated by its session ...     *)
AuthenticatePush(r, s) ==
    /\ areq[r].pc = "idle" /\ s \in live /\ tenantStatus[s.user] = "active"
    /\ AcctAt(r, [pc |-> "push", op |-> "push", user |-> s.user, pw |-> 0, seen |-> s.id])
    /\ UNCHANGED <<tenantStatus, role, password, live, expired, push, tokens, issued, confirmed>>

(* ... and upserts the endpoint later, displacing another user's row.      *)
RegisterPush(r, e) ==
    LET u == areq[r].user
        ended == areq[r].seen \notin {s.id : s \in live} IN
    /\ areq[r].pc = "push" /\ Finish(r)
    /\ push' = IF tenantStatus[u] = "gone" THEN push
               ELSE [push EXCEPT ![e] = [id |-> areq[r].seen, user |-> u, late |-> ended]]
    /\ UNCHANGED <<tenantStatus, role, password, live, expired, tokens, issued, confirmed>>

(* logout, or revokeUserSession from another device.                       *)
Logout(s) ==
    /\ s \in live /\ live' = live \ {s}
    /\ push' = [e \in Endpoints |-> IF push[e] # NoEntry /\ push[e].id = s.id THEN NoEntry ELSE push[e]]
    /\ UNCHANGED <<tenantStatus, role, password, expired, tokens, issued, areq, confirmed>>

SessionExpires(s) ==
    /\ s \in live /\ live' = live \ {s} /\ expired' = expired \cup {s.id}
    /\ UNCHANGED <<tenantStatus, role, password, push, tokens, issued, areq, confirmed>>

AcctNext ==
    \/ \E r \in AcctRequests, u \in Users :
        \/ \E op \in {"login", "deleteOwn"} : Verify(r, op, u)
        \/ \E op \in BindingOps : LockBinding(r, op, u)
        \/ \E op \in AdminOps : LockTarget(r, op, u)
    \/ \E r \in AcctRequests :
        \/ CreateSession(r) \/ CreatePasswordResetToken(r) \/ ResetPassword(r)
        \/ SuspendAccount(r) \/ ReactivateAccount(r) \/ ChangeAccountRole(r)
        \/ BeginTenantDeletion(r) \/ RollBack(r)
        \/ \E s \in live : AuthenticatePush(r, s)
        \/ \E e \in Endpoints : RegisterPush(r, e)
    \/ \E u \in Users : EraseIdentity(u)
    \/ \E s \in live : Logout(s) \/ SessionExpires(s)

AcctSpec == AcctInit /\ [][AcctNext]_acctVars

-----------------------------------------------------------------------------
(* However the requests of several administrators interleave, an active    *)
(* admin remains: suspendAccount, changeAccountRole and the two deletions  *)
(* each check it against a state no other of them may change.              *)
AnActiveAdminRemains == \E u \in Users : role[u] = "admin" /\ tenantStatus[u] = "active"

(* A login that read an active tenant before the suspension leaves no      *)
(* session behind it: either it sees the suspension, or the suspension     *)
(* waits for its commit and revokes what it wrote.                         *)
NoSessionOutlivesSuspension == \A s \in live : tenantStatus[s.user] = "active"

(* A password reset ends the sessions of the old password; the only one    *)
(* left is of a login that had verified the old password before the reset  *)
(* and created its session after it.                                       *)
ResetEndsSessions == \A s \in live : s.pw = password[s.user] \/ s.overtaken

(* An account is deleted by its owner only on the password of that moment. *)
DeletionIsConfirmed == confirmed

(* A push registration ends with the revocation of its session; the only   *)
(* ones left are of a request that was authenticated before the revocation *)
(* and upserted after it, and of sessions that expired.                    *)
PushEndsWithRevocation ==
    \A e \in Endpoints : push[e] # NoEntry =>
        \/ push[e].late \/ push[e].id \in expired
        \/ push[e].id \in {s.id : s \in live}

-----------------------------------------------------------------------------
(* The inductive invariant behind them.                                    *)

Pcs == {"idle", "verified", "locked", "push", "done"}

Requests ==
    [pc : Pcs, op : {"none", "push"} \cup BindingOps \cup AdminOps,
     user : Users \cup {NoEntry}, pw : 0 .. MaxPassword, seen : Nat \cup SessionIds]

AccountsShape ==
    /\ tenantStatus \in [Users -> {"active", "suspended", "deleting", "gone"}]
    /\ role \in [Users -> {"admin", "member"}]
    /\ password \in [Users -> 0 .. MaxPassword]
    /\ live \subseteq [id : SessionIds, user : Users, pw : 0 .. MaxPassword, overtaken : BOOLEAN]
    /\ push \in [Endpoints -> {NoEntry} \cup [id : SessionIds, user : Users, late : BOOLEAN]]
    /\ issued \in [Users -> Nat]
    /\ areq \in [AcctRequests -> Requests]
    /\ \A r \in AcctRequests : areq[r].pc \in {"verified", "locked", "push"} => areq[r].user \in Users

(* At most one administrator's request is past its lock, and none of them  *)
(* is beside a request that has locked the same user's binding.            *)
LocksExclude ==
    \A r, q \in AcctRequests : Locked(r) /\ Locked(q) /\ areq[r].op \in AdminOps =>
        /\ areq[q].op \in AdminOps => r = q
        /\ areq[q].user = areq[r].user => areq[q].op \notin BindingOps

(* What was checked under the lock still holds when the request writes.    *)
CheckedStillHolds ==
    \A r \in AcctRequests : Locked(r) =>
        LET u == areq[r].user IN
        /\ areq[r].op \in BindingOps => tenantStatus[u] = "active"
        /\ areq[r].op \in AdminOps /\ GuardsLastAdmin(areq[r].op, u) => AnotherActiveAdmin(u)
        /\ areq[r].op = "deleteOwn" => areq[r].pw = password[u]

(* A session is created once, so an id stands for one user wherever it is. *)
Used(i) == i \in Users \/ (i \in AcctRequests /\ areq[i].pc = "done")
IdsAreUsed ==
    /\ \A s \in live : Used(s.id)
    /\ \A e \in Endpoints : push[e] # NoEntry => Used(push[e].id)
    /\ \A r \in AcctRequests : areq[r].pc = "push" => Used(areq[r].seen)
IdsHaveOneUser ==
    \A s \in live :
        /\ \A t \in live : t.id = s.id => t.user = s.user
        /\ \A e \in Endpoints : push[e] # NoEntry /\ push[e].id = s.id => push[e].user = s.user
        /\ \A r \in AcctRequests : areq[r].pc = "push" /\ areq[r].seen = s.id => areq[r].user = s.user

AcctInv ==
    /\ AccountsShape /\ LocksExclude /\ CheckedStillHolds /\ IdsAreUsed /\ IdsHaveOneUser
    /\ AnActiveAdminRemains /\ NoSessionOutlivesSuspension /\ ResetEndsSessions
    /\ DeletionIsConfirmed /\ PushEndsWithRevocation

-----------------------------------------------------------------------------
(***************************************************************************)
(* The public authentication routes of semprec-api and the limiter in      *)
(* front of them (authHandler.ts, clientIpThrottle.ts): a request is       *)
(* counted against its address before its body is read, and uncounted      *)
(* when its outcome must not count. Keys expire, are evicted at the limit  *)
(* of the map and begin again while requests are under way. One process    *)
(* serves them; every operation of the limiter is one synchronous step.    *)
(***************************************************************************)

CONSTANTS
    AuthRequests,
    Routes,         \* the ThrottledActions asked for
    AddressKeys,    \* throttleKeyForIp of the client addresses
    MaxEvents,      \* maxEvents of a route
    Window,         \* windowSeconds
    MaxKeys,        \* maxKeys
    LastTick        \* bound of the clock

ASSUME ThrottleAssumption ==
    /\ Routes \subseteq {"login", "passwordResetRequest", "passwordResetConsume"}
    /\ MaxEvents \in Nat \ {0} /\ Window \in Nat \ {0} /\ MaxKeys \in Nat \ {0} /\ LastTick \in Nat

VARIABLES
    clock,
    windows,        \* <<route, key>> -> [array, at]: the array by the request that began it
    keyCount,
    asked,          \* every request: [step, slot, at, array]
    evicted         \* history: requests whose key was evicted

throttleVars == <<clock, windows, keyCount, asked, evicted>>

Slots == Routes \X AddressKeys
NotAsked(r) == [step |-> "none", slot |-> CHOOSE s \in Slots : TRUE, at |-> 0, array |-> r]

ThrottleInit ==
    /\ clock = 0 /\ windows = <<>> /\ keyCount = 0 /\ evicted = {}
    /\ asked = [r \in AuthRequests |-> NotAsked(r)]

ThrottleTypeOK ==
    /\ clock \in 0 .. LastTick /\ DOMAIN windows \subseteq Slots
    /\ \A s \in DOMAIN windows : Len(windows[s].at) \in 1 .. MaxEvents /\ windows[s].array \in AuthRequests
    /\ \A r \in AuthRequests : asked[r].step \in {"none", "refused", "granted", "counted", "released"}

-----------------------------------------------------------------------------
IsLive(at) == at + Window > clock
(* The expired events at the front are dropped, up to the first live one.  *)
FirstLive(times) == CHOOSE i \in 1 .. Len(times) + 1 :
    /\ i <= Len(times) => IsLive(times[i])
    /\ \A j \in 1 .. i - 1 : ~IsLive(times[j])
Pruned(s) == IF s \in DOMAIN windows THEN SubSeq(windows[s].at, FirstLive(windows[s].at), Len(windows[s].at))
             ELSE <<>>
Without(gone) == [s \in DOMAIN windows \ gone |-> windows[s]]
Expired(kept) == {s \in kept : ~IsLive(Last(windows[s].at))}

(* At the limit a new key drops those whose events have all expired, then  *)
(* the one recorded least recently; a tie is left open.                    *)
MakesRoom(kept, gone) ==
    IF Cardinality(kept) < MaxKeys THEN gone = {}
    ELSE IF Cardinality(kept \ Expired(kept)) < MaxKeys THEN gone = Expired(kept)
    ELSE \E s \in kept \ Expired(kept) :
           /\ \A t \in kept \ Expired(kept) : Last(windows[s].at) <= Last(windows[t].at)
           /\ gone = Expired(kept) \cup {s}

Holders(gone) == {r \in AuthRequests : \E s \in gone : asked[r].slot = s /\ asked[r].step \in {"granted", "counted"}}

(* tryAcquire: check and count in one step.                                *)
TryAcquire(r, s) ==
    /\ asked[r].step = "none"
    /\ LET recent == Pruned(s)
           kept == IF recent = <<>> THEN DOMAIN windows \ {s} ELSE DOMAIN windows IN
       IF Len(recent) >= MaxEvents
       THEN /\ windows' = [windows EXCEPT ![s].at = recent] /\ UNCHANGED <<keyCount, evicted>>
            /\ asked' = [asked EXCEPT ![r].step = "refused", ![r].slot = s]
       ELSE \E gone \in SUBSET kept :
            /\ IF recent = <<>> THEN MakesRoom(kept, gone) ELSE gone = {}
            /\ LET left == Without(gone \cup (IF recent = <<>> THEN {s} ELSE {}))
                   array == IF recent = <<>> THEN r ELSE windows[s].array IN
               /\ windows' = [t \in DOMAIN left \cup {s} |->
                                 IF t = s THEN [array |-> array, at |-> Append(recent, clock)] ELSE left[t]]
               /\ keyCount' = Cardinality(DOMAIN left \cup {s})
               /\ asked' = [asked EXCEPT ![r] = [step |-> "granted", slot |-> s, at |-> clock, array |-> array]]
               /\ evicted' = evicted \cup Holders(gone)
    /\ UNCHANGED clock

(* A login is charged when its password is refused, a reset when it is     *)
(* asked for, whatever becomes of it, and a token when it is refused.      *)
LoginCounts(outcome) == outcome = "refused"
ResetRequestCounts(outcome) == outcome \in {"done", "broken"}
ResetConsumeCounts(outcome) == outcome = "refused"
Outcomes == {"done", "refused", "invalid", "broken"}
Counts(r, outcome) == CASE asked[r].slot[1] = "login" -> LoginCounts(outcome)
                        [] asked[r].slot[1] = "passwordResetRequest" -> ResetRequestCounts(outcome)
                        [] asked[r].slot[1] = "passwordResetConsume" -> ResetConsumeCounts(outcome)

OutcomeCounts(r) ==
    /\ asked[r].step = "granted" /\ \E o \in Outcomes : Counts(r, o)
    /\ asked' = [asked EXCEPT ![r].step = "counted"]
    /\ UNCHANGED <<clock, windows, keyCount, evicted>>

LastIndex(times, at) == CHOOSE i \in 1 .. Len(times) : times[i] = at /\ \A j \in i + 1 .. Len(times) : times[j] # at

(* The key is looked at, not the array.                                    *)
ReleaseByKey(r) ==
    LET s == asked[r].slot IN
    /\ asked[r].step = "granted" /\ \E o \in Outcomes : ~Counts(r, o)
    /\ asked' = [asked EXCEPT ![r].step = "released"]
    /\ IF s \in DOMAIN windows /\ asked[r].at \in ToSet(windows[s].at)
       THEN IF Len(windows[s].at) = 1
            THEN windows' = Without({s}) /\ keyCount' = keyCount - 1
            ELSE windows' = [windows EXCEPT ![s].at = RemoveAt(@, LastIndex(@, asked[r].at))] /\ UNCHANGED keyCount
       ELSE UNCHANGED <<windows, keyCount>>
    /\ UNCHANGED <<clock, evicted>>

(* Any other outcome releases the reservation: its own event of its own    *)
(* array, if both are still there.                                         *)
Release(r) ==
    LET s == asked[r].slot IN
    /\ asked[r].step = "granted" /\ \E o \in Outcomes : ~Counts(r, o)
    /\ asked' = [asked EXCEPT ![r].step = "released"]
    /\ IF s \in DOMAIN windows /\ windows[s].array = asked[r].array /\ asked[r].at \in ToSet(windows[s].at)
       THEN IF Len(windows[s].at) = 1
            THEN windows' = Without({s}) /\ keyCount' = keyCount - 1
            ELSE windows' = [windows EXCEPT ![s].at = RemoveAt(@, LastIndex(@, asked[r].at))] /\ UNCHANGED keyCount
       ELSE UNCHANGED <<windows, keyCount>>
    /\ UNCHANGED <<clock, evicted>>

ThrottleTicks == clock < LastTick /\ clock' = clock + 1 /\ UNCHANGED <<windows, keyCount, asked, evicted>>

ThrottleNext ==
    \/ ThrottleTicks
    \/ \E r \in AuthRequests : OutcomeCounts(r) \/ Release(r) \/ \E s \in Slots : TryAcquire(r, s)

ThrottleSpec == ThrottleInit /\ [][ThrottleNext]_throttleVars

-----------------------------------------------------------------------------
Counting(s) == {r \in AuthRequests \ evicted : asked[r].slot = s /\ asked[r].step \in {"granted", "counted"}
                                               /\ IsLive(asked[r].at)}

(* The limiter counts exactly the requests of the window whose outcome     *)
(* counts or is still open, however expiry, eviction and releases cross:   *)
(* no address gets a larger budget and none is charged for another's.      *)
CountsAreExact == \A s \in Slots : Len(Pruned(s)) = Cardinality(Counting(s))

(* The map never outgrows its limit, and its count is the keys it holds.   *)
KeysAreBounded == keyCount = Cardinality(DOMAIN windows) /\ keyCount <= MaxKeys
=============================================================================
