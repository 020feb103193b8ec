------------------------------ MODULE AiBudget ------------------------------
(***************************************************************************)
(* The AI gateway's budget: every provider call owns one ai_gateway_calls  *)
(* row, reserved at an estimate before the provider is called, then        *)
(* settled at the real cost or failed at cost 0.  The reservation is one   *)
(* READ COMMITTED transaction under a global advisory lock; its reads and  *)
(* its insert are separate actions, because settles, failures, cap changes *)
(* and suspensions commit in between without that lock.                    *)
(*                                                                         *)
(* complete(), embed(), transcribe() and diarize() run the same steps on   *)
(* different usage columns, so a call is a call of any of them.            *)
(***************************************************************************)
EXTENDS Naturals, Functions

CONSTANTS
  Calls,              \* gateway invocations (one request each)
  Tenants,
  TenantOf,           \* call -> the tenant it is attributed to
  Estimate,           \* call -> estimatedCostUsd
  Costs,              \* what a provider may charge for a call
  CapValues,          \* values an administrator may set a cap to
  NoCap,              \* a NULL cap: the window has no cap of its own
  NoCall,             \* absence of a call (the advisory lock is free)
  GlobalDaily,        \* AI_GLOBAL_DAILY_CAP_USD
  GlobalMonthly,      \* AI_GLOBAL_MONTHLY_CAP_USD
  Offset,             \* tenant -> ticks its timezone is ahead of UTC
  TicksPerDay, DaysPerMonth,
  SettleMaxAttempts,  \* SETTLE_MAX_ATTEMPTS
  MaxClock,           \* bound: ticks that pass
  MaxFailures,        \* bound: rejected queries, lost answers and crashes
  MaxChanges          \* bound: budgets set and tenants suspended

RowStatuses == {"none", "reserved", "settled", "failed"}
Pcs == {"idle", "lock", "active", "budget", "tenantSpend", "globalSpend",
        "insert", "invoke", "fail", "settle", "done"}

Caps == CapValues \cup {NoCap}
Budgets == [has : BOOLEAN, daily : Caps, monthly : Caps]
NoBudget == [has |-> FALSE, daily |-> NoCap, monthly |-> NoCap]

ASSUME BudgetAssumption ==
  /\ TenantOf \in [Calls -> Tenants]
  /\ Estimate \in [Calls -> Nat]
  /\ Costs \subseteq Nat
  /\ CapValues \subseteq Nat
  /\ NoCap \notin Nat
  /\ NoCall \notin Calls
  /\ GlobalDaily \in Nat /\ GlobalMonthly \in Nat
  /\ Offset \in [Tenants -> Nat]
  /\ TicksPerDay \in Nat \ {0} /\ DaysPerMonth \in Nat \ {0}
  /\ SettleMaxAttempts \in Nat \ {0}
  /\ MaxClock \in Nat /\ MaxFailures \in Nat /\ MaxChanges \in Nat

VARIABLES
  row,        \* ai_gateway_calls.status
  cost,       \* ai_gateway_calls.cost_usd
  at,         \* ai_gateway_calls.at: now(), the reservation's BEGIN
  pc,         \* where each call is
  lock,       \* holder of pg_advisory_xact_lock
  read,       \* the tenant_ai_budgets row the reservation has read
  tries,      \* settle attempts made
  charged,    \* history: what the provider charged for the call
  answered,   \* the provider's result reached the gateway
  budget,     \* tenant_ai_budgets
  active,     \* tenants.status = 'active'
  highest,    \* history: per tenant and window, the highest cap ever in force
  clock, failures, changes

rowVars == <<row, cost, at>>
callVars == <<pc, read, tries, charged, answered>>
adminVars == <<budget, active, highest>>
boundVars == <<failures, changes>>
vars == <<rowVars, callVars, lock, adminVars, clock, boundVars>>

----------------------------------------------------------------------------
(* Windows: date_trunc on the tenant's clock, and on UTC for the global caps *)

Day(k) == k \div TicksPerDay
Month(k) == Day(k) \div DaysPerMonth
Local(t, k) == k + Offset[t]

Rows == {c \in Calls : row[c] # "none"}
RowsOf(t) == {c \in Rows : TenantOf[c] = t}
Spent(S) == SumFunctionOnSet(cost, S)

(* getGatewaySpend and getGlobalGatewaySpend as the transaction of c reads
   them: every row counts at its cost_usd, whatever its status. *)
SpentToday(c) ==
  LET t == TenantOf[c] IN
  Spent({x \in RowsOf(t) : Day(Local(t, at[x])) >= Day(Local(t, at[c]))})
SpentMonth(c) ==
  LET t == TenantOf[c] IN
  Spent({x \in RowsOf(t) : Month(Local(t, at[x])) >= Month(Local(t, at[c]))})
GlobalSpentToday(c) == Spent({x \in Rows : Day(at[x]) >= Day(at[c])})
GlobalSpentMonth(c) == Spent({x \in Rows : Month(at[x]) >= Month(at[c])})

Reached(spent, cap) == cap # NoCap /\ spent >= cap

HighestOf(b, cap) == IF b.has THEN cap ELSE 0
Higher(a, b) == IF a = NoCap \/ b = NoCap THEN NoCap ELSE IF a >= b THEN a ELSE b

Goto(c, l) == pc' = [pc EXCEPT ![c] = l]

(* Mutant: a session-level lock outlives the transaction that rolls back *)
RefuseHoldingLock(c) == Goto(c, "done") /\ UNCHANGED lock

(* The reservation throws: its transaction rolls back and frees the lock *)
Refuse(c) == Goto(c, "done") /\ lock' = NoCall

----------------------------------------------------------------------------
Init ==
  /\ row = [c \in Calls |-> "none"]
  /\ cost = [c \in Calls |-> 0]
  /\ at = [c \in Calls |-> 0]
  /\ pc = [c \in Calls |-> "idle"]
  /\ lock = NoCall
  /\ read = [c \in Calls |-> NoBudget]
  /\ tries = [c \in Calls |-> 0]
  /\ charged = [c \in Calls |-> 0]
  /\ answered = [c \in Calls |-> FALSE]
  /\ budget \in [Tenants -> {b \in Budgets : b.has} \cup {NoBudget}]
  /\ active = [t \in Tenants |-> TRUE]
  /\ highest = [t \in Tenants |-> [daily |-> HighestOf(budget[t], budget[t].daily),
                                   monthly |-> HighestOf(budget[t], budget[t].monthly)]]
  /\ clock = 0
  /\ failures = 0
  /\ changes = 0

----------------------------------------------------------------------------
(* reserve() *)

Begin(c) ==
  /\ pc[c] = "idle"
  /\ at' = [at EXCEPT ![c] = clock]
  /\ Goto(c, "lock")
  /\ UNCHANGED <<row, cost, lock, read, tries, charged, answered, adminVars,
                 clock, boundVars>>

(* Mutant: the reservation does not take the advisory lock *)
TakeNoLock(c) ==
  /\ pc[c] = "lock"
  /\ Goto(c, "active")
  /\ UNCHANGED <<rowVars, lock, read, tries, charged, answered, adminVars,
                 clock, boundVars>>

TakeLock(c) ==
  /\ pc[c] = "lock"
  /\ lock = NoCall
  /\ lock' = c
  /\ Goto(c, "active")
  /\ UNCHANGED <<rowVars, read, tries, charged, answered, adminVars, clock,
                 boundVars>>

AssertGatewayTenantActive(c) ==
  /\ pc[c] = "active"
  /\ IF active[TenantOf[c]] THEN Goto(c, "budget") /\ UNCHANGED lock ELSE Refuse(c)
  /\ UNCHANGED <<rowVars, read, tries, charged, answered, adminVars, clock,
                 boundVars>>

(* assertWithinBudget: no budget row means the tenant may not spend *)
ReadBudget(c) ==
  /\ pc[c] = "budget"
  /\ read' = [read EXCEPT ![c] = budget[TenantOf[c]]]
  /\ IF budget[TenantOf[c]].has
       THEN Goto(c, "tenantSpend") /\ UNCHANGED lock ELSE Refuse(c)
  /\ UNCHANGED <<rowVars, tries, charged, answered, adminVars, clock, boundVars>>

CheckTenantSpend(c) ==
  /\ pc[c] = "tenantSpend"
  /\ IF \/ Reached(SpentToday(c), read[c].daily)
        \/ Reached(SpentMonth(c), read[c].monthly)
       THEN Refuse(c) ELSE Goto(c, "globalSpend") /\ UNCHANGED lock
  /\ UNCHANGED <<rowVars, read, tries, charged, answered, adminVars, clock,
                 boundVars>>

CheckGlobalSpend(c) ==
  /\ pc[c] = "globalSpend"
  /\ IF \/ GlobalSpentToday(c) >= GlobalDaily
        \/ GlobalSpentMonth(c) >= GlobalMonthly
       THEN Refuse(c) ELSE Goto(c, "insert") /\ UNCHANGED lock
  /\ UNCHANGED <<rowVars, read, tries, charged, answered, adminVars, clock,
                 boundVars>>

(* reserveGatewayCall's conditional INSERT, and COMMIT.  `visible`: the agent run
   and the project item the caller named are the tenant's.  The commit's answer
   may be lost: the caller then gives up and leaves the row it made. *)
InsertReserved(c, visible) ==
  /\ pc[c] = "insert"
  /\ lock' = NoCall
  /\ IF active[TenantOf[c]] /\ visible
       THEN /\ row' = [row EXCEPT ![c] = "reserved"]
            /\ cost' = [cost EXCEPT ![c] = Estimate[c]]
            /\ \/ Goto(c, "invoke") /\ UNCHANGED failures
               \/ Goto(c, "done") /\ failures < MaxFailures /\ failures' = failures + 1
       ELSE Goto(c, "done") /\ UNCHANGED <<row, cost, failures>>
  /\ UNCHANGED <<at, read, tries, charged, answered, adminVars, clock, changes>>

----------------------------------------------------------------------------
(* invokeReserved and settleWithRetry *)

(* The provider answers, at a price that may differ from the estimate *)
ProviderAnswers(c, price) ==
  /\ pc[c] = "invoke"
  /\ charged' = [charged EXCEPT ![c] = price]
  /\ answered' = [answered EXCEPT ![c] = TRUE]
  /\ Goto(c, "settle")
  /\ UNCHANGED <<rowVars, lock, read, tries, adminVars, clock, boundVars>>

(* The call rejects: a refusal, a timeout or a disconnect that aborted it.  The
   provider may have charged for work whose result never arrived. *)
ProviderRejects(c, price) ==
  /\ pc[c] = "invoke"
  /\ charged' = [charged EXCEPT ![c] = price]
  /\ Goto(c, "fail")
  /\ UNCHANGED <<rowVars, lock, read, tries, answered, adminVars, clock, boundVars>>

(* Mutant: the rejection is rethrown without failing the reservation *)
RethrowOnly(c) ==
  /\ pc[c] = "fail"
  /\ Goto(c, "done")
  /\ UNCHANGED <<rowVars, lock, read, tries, charged, answered, adminVars, clock,
                 boundVars>>

(* failGatewayCall, auto-committed; when the statement rejects, the row may stay
   reserved, and that is only logged. *)
FailGatewayCall(c) ==
  /\ pc[c] = "fail"
  /\ \/ /\ row[c] = "reserved"
        /\ row' = [row EXCEPT ![c] = "failed"]
        /\ cost' = [cost EXCEPT ![c] = 0]
        /\ UNCHANGED failures
     \/ failures < MaxFailures /\ failures' = failures + 1 /\ UNCHANGED <<row, cost>>
  /\ Goto(c, "done")
  /\ UNCHANGED <<at, lock, read, tries, charged, answered, adminVars, clock, changes>>

(* The UPDATE of settleTokenGatewayCall and settleAudioGatewayCall *)
Settle(c) ==
  IF row[c] = "reserved"
    THEN /\ row' = [row EXCEPT ![c] = "settled"]
         /\ cost' = [cost EXCEPT ![c] = charged[c]]
    ELSE UNCHANGED <<row, cost>>

(* A settle whose answer arrives ends the loop, a null one too *)
SettleAnswered(c) ==
  /\ pc[c] = "settle"
  /\ Settle(c)
  /\ Goto(c, "done")
  /\ UNCHANGED <<at, lock, read, tries, charged, answered, adminVars, clock,
                 boundVars>>

(* Mutant: when the attempts run out, the row is failed at cost 0 *)
SettleRejectedThenFailed(c) ==
  /\ pc[c] = "settle"
  /\ failures < MaxFailures
  /\ failures' = failures + 1
  /\ tries' = [tries EXCEPT ![c] = @ + 1]
  /\ IF tries[c] + 1 >= SettleMaxAttempts
       THEN /\ row' = [row EXCEPT ![c] = "failed"]
            /\ cost' = [cost EXCEPT ![c] = 0]
            /\ Goto(c, "done")
       ELSE /\ Settle(c) \/ UNCHANGED <<row, cost>>
            /\ UNCHANGED pc
  /\ UNCHANGED <<at, lock, read, charged, answered, adminVars, clock, changes>>

(* A settle that rejects, with or without having committed, is tried again until
   the attempts run out; then the row is left as it is. *)
SettleRejected(c) ==
  /\ pc[c] = "settle"
  /\ failures < MaxFailures
  /\ failures' = failures + 1
  /\ tries' = [tries EXCEPT ![c] = @ + 1]
  /\ Settle(c) \/ UNCHANGED <<row, cost>>
  /\ Goto(c, IF tries[c] + 1 >= SettleMaxAttempts THEN "done" ELSE "settle")
  /\ UNCHANGED <<at, lock, read, charged, answered, adminVars, clock, changes>>

----------------------------------------------------------------------------
(* The rest of the system *)

InFlight(c) == pc[c] \notin {"idle", "done"}

(* A query of the reservation rejects: ROLLBACK, and the call is answered 500 *)
ReservationError(c) ==
  /\ pc[c] \in {"lock", "active", "budget", "tenantSpend", "globalSpend", "insert"}
  /\ failures < MaxFailures
  /\ failures' = failures + 1
  /\ Goto(c, "done")
  /\ lock' = IF lock = c THEN NoCall ELSE lock
  /\ UNCHANGED <<rowVars, read, tries, charged, answered, adminVars, clock, changes>>

(* The gateway process dies with every call in flight; a provider that was
   being called may have charged for it. *)
GatewayCrash ==
  /\ \E c \in Calls : InFlight(c)
  /\ failures < MaxFailures
  /\ failures' = failures + 1
  /\ pc' = [c \in Calls |-> IF InFlight(c) THEN "done" ELSE pc[c]]
  /\ lock' = NoCall
  /\ UNCHANGED <<rowVars, read, tries, charged, answered, adminVars, clock, changes>>

(* setTenantAiBudget: an upsert that takes no lock the gateway waits for *)
SetTenantAiBudget(t, daily, monthly) ==
  /\ changes < MaxChanges
  /\ changes' = changes + 1
  /\ budget' = [budget EXCEPT ![t] = [has |-> TRUE, daily |-> daily, monthly |-> monthly]]
  /\ highest' = [highest EXCEPT ![t] = [daily |-> Higher(@.daily, daily),
                                        monthly |-> Higher(@.monthly, monthly)]]
  /\ UNCHANGED <<rowVars, callVars, lock, active, clock, failures>>

SetTenantStatus(t) ==
  /\ changes < MaxChanges
  /\ changes' = changes + 1
  /\ active' = [active EXCEPT ![t] = ~@]
  /\ UNCHANGED <<rowVars, callVars, lock, budget, highest, clock, failures>>

Tick ==
  /\ clock < MaxClock
  /\ clock' = clock + 1
  /\ UNCHANGED <<rowVars, callVars, lock, adminVars, boundVars>>

----------------------------------------------------------------------------
CallStep(c) ==
  \/ TakeLock(c) \/ AssertGatewayTenantActive(c) \/ ReadBudget(c)
  \/ CheckTenantSpend(c) \/ CheckGlobalSpend(c)
  \/ \E visible \in BOOLEAN : InsertReserved(c, visible)
  \/ \E price \in Costs : ProviderAnswers(c, price) \/ ProviderRejects(c, price)
  \/ FailGatewayCall(c) \/ SettleAnswered(c) \/ SettleRejected(c)

Administration ==
  \E t \in Tenants :
    \/ SetTenantStatus(t)
    \/ \E d, m \in Caps : SetTenantAiBudget(t, d, m)

Next ==
  \/ \E c \in Calls : Begin(c) \/ CallStep(c) \/ ReservationError(c)
  \/ GatewayCrash
  \/ Administration
  \/ Tick

Spec == Init /\ [][Next]_vars

(* A call that has begun goes on: the database answers, and a provider call
   ends (STREAM_TIMEOUT_MS and the providers' timeouts abort it).  A waiter gets
   the advisory lock once it is free: PostgreSQL queues waiters. *)
FairSpec == Spec /\ \A c \in Calls : WF_vars(CallStep(c))

----------------------------------------------------------------------------
(* Properties *)

TypeOK ==
  /\ row \in [Calls -> RowStatuses]
  /\ cost \in [Calls -> Nat]
  /\ at \in [Calls -> Nat]
  /\ pc \in [Calls -> Pcs]
  /\ lock \in Calls \cup {NoCall}
  /\ read \in [Calls -> Budgets]
  /\ tries \in [Calls -> Nat]
  /\ charged \in [Calls -> Nat]
  /\ answered \in [Calls -> BOOLEAN]
  /\ budget \in [Tenants -> Budgets]
  /\ active \in [Tenants -> BOOLEAN]
  /\ highest \in [Tenants -> [daily : Nat \cup {NoCap}, monthly : Nat \cup {NoCap}]]
  /\ clock \in Nat /\ failures \in Nat /\ changes \in Nat

(* What a row can add to a window: a provider may charge more than the estimate
   that was checked, and that excess is outside what the cap can bound. *)
Counted == [c \in Calls |-> IF cost[c] > Estimate[c] THEN Estimate[c] ELSE cost[c]]

(* S overshoots the cap by less than one call of its own: without some call of
   it, what is left was under the cap. *)
WithinOneCall(S, cap) ==
  \/ cap = NoCap
  \/ S = {}
  \/ \E c \in S : SumFunctionOnSet(Counted, S \ {c}) < cap

(* The caps hold however many calls run at once: in every day and month of the
   tenant's own calendar, and of UTC over all tenants, spend stays below the
   highest cap that was in force plus one call's estimate, apart from what
   providers charged beyond their estimates. *)
CapsHold ==
  /\ \A t \in Tenants, c \in Calls :
       LET Same(W(_)) == {x \in RowsOf(t) : W(Local(t, at[x])) = W(Local(t, at[c]))}
       IN /\ WithinOneCall(Same(Day), highest[t].daily)
          /\ WithinOneCall(Same(Month), highest[t].monthly)
  /\ \A c \in Calls :
       /\ WithinOneCall({x \in Rows : Day(at[x]) = Day(at[c])}, GlobalDaily)
       /\ WithinOneCall({x \in Rows : Month(at[x]) = Month(at[c])}, GlobalMonthly)

(* A call the provider answered is never written off: its row counts at its
   estimate until it is settled, and then at what was charged, through every
   rejected or half-answered settle. *)
AnsweredIsCounted ==
  \A c \in Calls :
    answered[c] => \/ row[c] = "reserved" /\ cost[c] = Estimate[c]
                   \/ row[c] = "settled" /\ cost[c] = charged[c]

(* Each transition is conditional on status = 'reserved': a row is settled or
   failed at most once and never leaves a terminal state. *)
RowsAreFinal ==
  [][\A c \in Calls :
       row[c] \in {"settled", "failed"} => row'[c] = row[c] /\ cost'[c] = cost[c]]_vars

(* An estimate stays charged against the budget only when something failed: a
   call that ends in a run without faults has settled or failed its row. *)
OnlyFaultsStrandReservations ==
  failures = 0 => \A c \in Calls : pc[c] = "done" => row[c] # "reserved"

(* No reservation waits for ever, and every call that began ends. *)
EveryCallEnds == \A c \in Calls : pc[c] = "lock" ~> pc[c] = "done"

----------------------------------------------------------------------------
(* The inductive invariant behind AnsweredIsCounted and RowsAreFinal *)

Reserving == {"lock", "active", "budget", "tenantSpend", "globalSpend", "insert"}

RowFollowsCall ==
  \A c \in Calls :
    /\ pc[c] \in Reserving \cup {"idle"} => row[c] = "none"
    /\ pc[c] \in {"invoke", "fail"} => row[c] = "reserved" /\ ~answered[c]
    /\ pc[c] = "settle" => answered[c]
    /\ row[c] = "reserved" => cost[c] = Estimate[c]
    /\ row[c] = "none" => ~answered[c]

IndInv == TypeOK /\ RowFollowsCall /\ AnsweredIsCounted
=============================================================================
