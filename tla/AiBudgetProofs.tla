--------------------------- MODULE AiBudgetProofs ---------------------------
(* Proofs that the ledger of provider calls is sound: whatever is retried, lost
   or interrupted, a row is final once settled or failed, and a call the
   provider answered is never written off; and that the caps hold however many
   calls reserve at once.  The caps need the laws of a sum over a finite set,
   which are proved first: SumFunctionOnSet chooses a function by its recursive
   equation, so that one exists has to be shown. *)
EXTENDS AiBudget, WellFoundedInduction, FiniteSetTheorems, TLAPS

-----------------------------------------------------------------------------
(* Sums over finite sets. *)

\* What SumFunctionOnSet(f, S) chooses: a partial sum for each subset of S.
IsSum(f, S, g) ==
  g = [s \in SUBSET S |-> IF s = {} THEN 0
                          ELSE f[CHOOSE x \in s : TRUE] + g[s \ {CHOOSE x \in s : TRUE}]]

LEMMA SumUnfolds ==
  ASSUME NEW f, NEW S
  PROVE  SumFunctionOnSet(f, S) = (CHOOSE g : IsSum(f, S, g))[S]
  BY DEF SumFunctionOnSet, FoldFunctionOnSet, MapThenFoldSet, IsSum

\* Induction, for a set of numbers.
LEMMA LeastNat ==
  ASSUME NEW T \in SUBSET Nat, T # {}
  PROVE  \E x \in T : \A y \in T : x <= y
<1>1. PICK x \in T : \A y \in T : ~(<<y, x>> \in OpToRel(<, Nat))
  BY NatLessThanWellFounded, WFMin
<1>2. \A y \in T : ~(y < x)
  BY <1>1 DEF OpToRel
<1> QED
  BY <1>2

LEMMA NatSet ==
  ASSUME NEW T, 0 \in T, \A n \in Nat : n \in T => n + 1 \in T
  PROVE  Nat \subseteq T
<1> SUFFICES ASSUME Nat \ T # {} PROVE FALSE
  OBVIOUS
<1>1. PICK n \in Nat \ T : \A m \in Nat \ T : n <= m
  BY LeastNat
<1>2. n # 0 /\ n - 1 \in Nat /\ n - 1 \notin Nat \ T /\ n = (n - 1) + 1
  BY <1>1
<1> QED
  BY <1>1, <1>2

\* The subsets of S with at most n elements.
UpTo(S, n) == {s \in SUBSET S : Cardinality(s) <= n}

LEMMA WithoutOne ==
  ASSUME NEW s, IsFiniteSet(s), NEW x \in s
  PROVE  /\ IsFiniteSet(s \ {x}) /\ Cardinality(s) \in Nat \ {0}
         /\ Cardinality(s \ {x}) = Cardinality(s) - 1
  BY FS_RemoveElement, FS_CardinalityType, FS_EmptySet

LEMMA SumExists ==
  ASSUME NEW f, NEW S, IsFiniteSet(S)
  PROVE  \E g : IsSum(f, S, g)
<1> DEFINE One(s) == CHOOSE x \in s : TRUE
           Fits(D, g) == g = [s \in D |-> IF s = {} THEN 0 ELSE f[One(s)] + g[s \ {One(s)}]]
           T == {n \in Nat : \E g : Fits(UpTo(S, n), g)}
<1>1. \A s \in SUBSET S : IsFiniteSet(s) /\ Cardinality(s) \in Nat /\ Cardinality(s) <= Cardinality(S)
  BY FS_Subset, FS_CardinalityType
<1>2. \A s \in SUBSET S : s # {} => One(s) \in s /\ Cardinality(s \ {One(s)}) = Cardinality(s) - 1
  BY <1>1, WithoutOne
<1>3. 0 \in T
  <2>1. \A s \in UpTo(S, 0) : s = {}
    BY <1>1, FS_EmptySet DEF UpTo
  <2>2. Fits(UpTo(S, 0), [s \in UpTo(S, 0) |-> 0])
    BY <2>1
  <2> QED
    BY <2>2
<1>4. ASSUME NEW n \in Nat, n \in T PROVE n + 1 \in T
  <2>1. PICK g : Fits(UpTo(S, n), g)
    BY <1>4
  <2> DEFINE h == [s \in UpTo(S, n + 1) |-> IF s = {} THEN 0 ELSE f[One(s)] + g[s \ {One(s)}]]
  <2>2. UpTo(S, n) \subseteq UpTo(S, n + 1)
    BY <1>1 DEF UpTo
  <2>3. \A s \in UpTo(S, n) : h[s] = g[s]
    BY <2>1, <2>2
  <2>4. \A s \in UpTo(S, n + 1) : s # {} => s \ {One(s)} \in UpTo(S, n)
    BY <1>1, <1>2 DEF UpTo
  <2>5. \A s \in UpTo(S, n + 1) : s # {} => h[s \ {One(s)}] = g[s \ {One(s)}]
    BY <2>3, <2>4
  <2>6. Fits(UpTo(S, n + 1), h)
    <3>1. \A s \in UpTo(S, n + 1) :
            (IF s = {} THEN 0 ELSE f[One(s)] + g[s \ {One(s)}])
              = IF s = {} THEN 0 ELSE f[One(s)] + h[s \ {One(s)}]
      <4> HIDE DEF One, h
      <4> QED
        BY <2>5
    <3> QED
      BY <3>1, ZenonT(30)
  <2> HIDE DEF h
  <2> QED
    BY <2>6
<1>5. Cardinality(S) \in T
  <2> HIDE DEF T
  <2> QED
    BY <1>1, <1>3, <1>4, NatSet
<1>6. UpTo(S, Cardinality(S)) = SUBSET S
  BY <1>1 DEF UpTo
<1> QED
  BY <1>5, <1>6 DEF IsSum

\* Induction over the subsets of a finite set, for a set of them.
LEMMA SubsetInduction ==
  ASSUME NEW S, IsFiniteSet(S), NEW P, {} \in P,
         \A s \in SUBSET S : s # {} /\ (\A x \in s : s \ {x} \in P) => s \in P
  PROVE  S \in P
<1> DEFINE T == {n \in Nat : \A s \in SUBSET S : Cardinality(s) = n => s \in P}
<1>1. \A s \in SUBSET S : IsFiniteSet(s) /\ Cardinality(s) \in Nat /\ (Cardinality(s) = 0 => s = {})
  BY FS_Subset, FS_CardinalityType, FS_EmptySet
<1>2. 0 \in T
  BY <1>1
<1>3. ASSUME NEW n \in Nat, n \in T PROVE n + 1 \in T
  <2> SUFFICES ASSUME NEW s \in SUBSET S, Cardinality(s) = n + 1 PROVE s \in P
    OBVIOUS
  <2>1. s # {}
    BY FS_EmptySet
  <2>2. ASSUME NEW x \in s PROVE s \ {x} \in P
    <3>1. Cardinality(s \ {x}) = n /\ s \ {x} \in SUBSET S
      BY <1>1, WithoutOne
    <3> QED
      BY <1>3, <3>1
  <2> QED
    BY <2>1, <2>2
<1>4. Cardinality(S) \in T
  <2> HIDE DEF T
  <2> QED
    BY <1>1, <1>2, <1>3, NatSet
<1> QED
  BY <1>4

\* The sum takes one element after the other.
LEMMA SumOfNone == ASSUME NEW f PROVE SumFunctionOnSet(f, {}) = 0
<1>1. PICK g : IsSum(f, {}, g) /\ SumFunctionOnSet(f, {}) = g[{}]
  BY SumUnfolds, SumExists, FS_EmptySet
<1> QED
  BY <1>1 DEF IsSum

LEMMA SumTakesOne ==
  ASSUME NEW f, NEW S, IsFiniteSet(S), S # {}
  PROVE  \E x \in S : SumFunctionOnSet(f, S) = f[x] + SumFunctionOnSet(f, S \ {x})
<1> DEFINE One(s) == CHOOSE x \in s : TRUE
           R == S \ {One(S)}
<1>1. PICK g : IsSum(f, S, g) /\ SumFunctionOnSet(f, S) = g[S]
  BY SumUnfolds, SumExists
<1>2. IsFiniteSet(R)
  BY FS_Subset
<1>3. PICK h : IsSum(f, R, h) /\ SumFunctionOnSet(f, R) = h[R]
  BY <1>2, SumUnfolds, SumExists
<1>4. \A s \in SUBSET S : g[s] = IF s = {} THEN 0 ELSE f[One(s)] + g[s \ {One(s)}]
  BY <1>1 DEF IsSum
<1>5. \A s \in SUBSET R : h[s] = IF s = {} THEN 0 ELSE f[One(s)] + h[s \ {One(s)}]
  BY <1>3 DEF IsSum
<1>6. \A s : s # {} => One(s) \in s
  OBVIOUS
<1>7. g[R] = h[R]
  <2> DEFINE P == {s \in SUBSET R : g[s] = h[s]}
  <2>1. R \subseteq S
    OBVIOUS
  <2> HIDE DEF One, R
  <2>2. {} \in P
    BY <1>4, <1>5
  <2>3. ASSUME NEW s \in SUBSET R, s # {}, \A x \in s : s \ {x} \in P PROVE s \in P
    <3>1. g[s \ {One(s)}] = h[s \ {One(s)}]
      BY <1>6, <2>3
    <3>2. g[s] = f[One(s)] + g[s \ {One(s)}] /\ h[s] = f[One(s)] + h[s \ {One(s)}]
      BY <1>4, <1>5, <2>1, <2>3
    <3> QED
      BY <3>1, <3>2
  <2>4. R \in P
    <3> HIDE DEF P
    <3> QED
      BY <1>2, <2>2, <2>3, SubsetInduction
  <2> QED
    BY <2>4
<1>8. g[S] = f[One(S)] + g[R]
  BY <1>4
<1> HIDE DEF One
<1> QED
  BY <1>1, <1>3, <1>6, <1>7, <1>8

LEMMA SumIsNat ==
  ASSUME NEW D, NEW f \in [D -> Nat], NEW S \in SUBSET D, IsFiniteSet(S)
  PROVE  SumFunctionOnSet(f, S) \in Nat
<1> DEFINE P == {s \in SUBSET S : SumFunctionOnSet(f, s) \in Nat}
<1>1. {} \in P
  BY SumOfNone
<1>2. ASSUME NEW s \in SUBSET S, s # {}, \A x \in s : s \ {x} \in P PROVE s \in P
  <2>1. PICK c \in s : SumFunctionOnSet(f, s) = f[c] + SumFunctionOnSet(f, s \ {c})
    BY <1>2, FS_Subset, SumTakesOne
  <2> QED
    BY <1>2, <2>1
<1>3. S \in P
  <2> HIDE DEF P
  <2> QED
    BY <1>1, <1>2, SubsetInduction
<1> QED
  BY <1>3

\* ... in whatever order.
LEMMA SumSplits ==
  ASSUME NEW D, NEW f \in [D -> Nat], NEW S \in SUBSET D, IsFiniteSet(S)
  PROVE  \A x \in S : SumFunctionOnSet(f, S) = f[x] + SumFunctionOnSet(f, S \ {x})
<1> DEFINE P == {s \in SUBSET S :
                   \A x \in s : SumFunctionOnSet(f, s) = f[x] + SumFunctionOnSet(f, s \ {x})}
<1>1. {} \in P
  OBVIOUS
<1>2. ASSUME NEW s \in SUBSET S, s # {}, \A x \in s : s \ {x} \in P PROVE s \in P
  <2>1. PICK c \in s : SumFunctionOnSet(f, s) = f[c] + SumFunctionOnSet(f, s \ {c})
    BY <1>2, FS_Subset, SumTakesOne
  <2>2. ASSUME NEW x \in s, x # c
        PROVE  SumFunctionOnSet(f, s) = f[x] + SumFunctionOnSet(f, s \ {x})
    <3> DEFINE u == (s \ {c}) \ {x}
    <3>1. SumFunctionOnSet(f, s \ {c}) = f[x] + SumFunctionOnSet(f, u)
      BY <1>2, <2>2
    <3>2. SumFunctionOnSet(f, s \ {x}) = f[c] + SumFunctionOnSet(f, (s \ {x}) \ {c})
      BY <1>2, <2>2
    <3>3. (s \ {x}) \ {c} = u
      OBVIOUS
    <3>4. SumFunctionOnSet(f, u) \in Nat /\ f[x] \in Nat /\ f[c] \in Nat
      BY FS_Subset, SumIsNat
    <3> HIDE DEF u
    <3>5. SumFunctionOnSet(f, s \ {x}) = f[c] + SumFunctionOnSet(f, u)
      BY <3>2, <3>3
    <3>6. \A a, b, k \in Nat : a + (b + k) = b + (a + k)
      OBVIOUS
    <3>7. f[c] + (f[x] + SumFunctionOnSet(f, u)) = f[x] + (f[c] + SumFunctionOnSet(f, u))
      BY <3>4, <3>6
    <3> QED
      BY <2>1, <3>1, <3>5, <3>7, Zenon
  <2> QED
    BY <2>1, <2>2
<1>3. S \in P
  <2> HIDE DEF P
  <2> QED
    BY <1>1, <1>2, SubsetInduction
<1> QED
  BY <1>3

LEMMA SumOfMore ==
  ASSUME NEW D, NEW f \in [D -> Nat], NEW S \in SUBSET D, IsFiniteSet(S), NEW R \in SUBSET S
  PROVE  SumFunctionOnSet(f, R) <= SumFunctionOnSet(f, S)
<1> DEFINE P == {s \in SUBSET S :
                   \A r \in SUBSET s : SumFunctionOnSet(f, r) <= SumFunctionOnSet(f, s)}
<1>0. \A s \in SUBSET S : SumFunctionOnSet(f, s) \in Nat
  BY FS_Subset, SumIsNat
<1>1. {} \in P
  BY <1>0
<1>2. ASSUME NEW s \in SUBSET S, s # {}, \A x \in s : s \ {x} \in P PROVE s \in P
  <2> SUFFICES ASSUME NEW r \in SUBSET s, r # s
               PROVE  SumFunctionOnSet(f, r) <= SumFunctionOnSet(f, s)
    BY <1>0
  <2>1. PICK x \in s : x \notin r
    OBVIOUS
  <2>2. SumFunctionOnSet(f, r) <= SumFunctionOnSet(f, s \ {x})
    BY <1>2, <2>1
  <2>3. SumFunctionOnSet(f, s) = f[x] + SumFunctionOnSet(f, s \ {x}) /\ f[x] \in Nat
    BY FS_Subset, SumSplits
  <2>4. /\ SumFunctionOnSet(f, r) \in Nat /\ SumFunctionOnSet(f, s) \in Nat
        /\ SumFunctionOnSet(f, s \ {x}) \in Nat
    BY <1>0
  <2> QED
    BY <2>2, <2>3, <2>4
<1>3. S \in P
  <2> HIDE DEF P
  <2> QED
    BY <1>1, <1>2, SubsetInduction
<1> QED
  BY <1>3

LEMMA SumOfGreater ==
  ASSUME NEW D, NEW f \in [D -> Nat], NEW g \in [D -> Nat], NEW S \in SUBSET D, IsFiniteSet(S),
         \A x \in S : f[x] <= g[x]
  PROVE  SumFunctionOnSet(f, S) <= SumFunctionOnSet(g, S)
<1> DEFINE P == {s \in SUBSET S : SumFunctionOnSet(f, s) <= SumFunctionOnSet(g, s)}
<1>1. {} \in P
  BY SumOfNone
<1>2. ASSUME NEW s \in SUBSET S, s # {}, \A x \in s : s \ {x} \in P PROVE s \in P
  <2>1. PICK x \in s : TRUE
    BY <1>2
  <2>2. SumFunctionOnSet(f, s) = f[x] + SumFunctionOnSet(f, s \ {x})
    BY FS_Subset, SumSplits
  <2>3. SumFunctionOnSet(g, s) = g[x] + SumFunctionOnSet(g, s \ {x})
    BY FS_Subset, SumSplits
  <2>4. SumFunctionOnSet(f, s \ {x}) \in Nat /\ SumFunctionOnSet(g, s \ {x}) \in Nat
    BY FS_Subset, SumIsNat
  <2>5. SumFunctionOnSet(f, s \ {x}) <= SumFunctionOnSet(g, s \ {x}) /\ f[x] <= g[x]
    BY <1>2
  <2>6. f[x] \in Nat /\ g[x] \in Nat
    OBVIOUS
  <2> QED
    BY <2>2, <2>3, <2>4, <2>5, <2>6
<1>3. S \in P
  <2> HIDE DEF P
  <2> QED
    BY <1>1, <1>2, SubsetInduction
<1> QED
  BY <1>3

-----------------------------------------------------------------------------
(* The ledger. *)

USE BudgetAssumption

LEMMA RowsInit == Init => IndInv
<1> SUFFICES ASSUME Init PROVE IndInv
  OBVIOUS
<1>1. NoBudget \in Budgets
  BY DEF NoBudget, Budgets, Caps
<1>2. budget \in [Tenants -> Budgets]
  BY <1>1 DEF Init
<1>3. \A t \in Tenants :
        /\ HighestOf(budget[t], budget[t].daily) \in Nat \cup {NoCap}
        /\ HighestOf(budget[t], budget[t].monthly) \in Nat \cup {NoCap}
  BY <1>2 DEF HighestOf, Budgets, Caps
<1>4. highest \in [Tenants -> [daily : Nat \cup {NoCap}, monthly : Nat \cup {NoCap}]]
  BY <1>3 DEF Init
<1>5. TypeOK
  BY <1>1, <1>2, <1>4 DEF Init, TypeOK, RowStatuses, Pcs
<1>6. RowFollowsCall /\ AnsweredIsCounted
  BY DEF Init, RowFollowsCall, AnsweredIsCounted, Reserving
<1> QED
  BY <1>5, <1>6 DEF IndInv

LEMMA HigherType ==
  \A a, b \in Nat \cup {NoCap} : Higher(a, b) \in Nat \cup {NoCap}
BY DEF Higher

(* Every step keeps the invariant, and changes no row that is final. *)
LEMMA RowsStep ==
  ASSUME IndInv, [Next]_vars
  PROVE  /\ IndInv'
         /\ \A c \in Calls : row[c] \in {"settled", "failed"}
                               => row'[c] = row[c] /\ cost'[c] = cost[c]
<1> USE DEF IndInv, TypeOK, RowFollowsCall, AnsweredIsCounted, RowStatuses, Pcs,
            Reserving, Goto
<1> DEFINE Final == \A c \in Calls : row[c] \in {"settled", "failed"}
                                       => row'[c] = row[c] /\ cost'[c] = cost[c]
<1>1. ASSUME NEW c \in Calls, Begin(c) PROVE IndInv' /\ Final
  BY <1>1 DEF Begin, adminVars, boundVars
<1>2. ASSUME NEW c \in Calls, TakeLock(c) PROVE IndInv' /\ Final
  BY <1>2 DEF TakeLock, rowVars, adminVars, boundVars
<1>3. ASSUME NEW c \in Calls, AssertGatewayTenantActive(c) PROVE IndInv' /\ Final
  <2>1. CASE active[TenantOf[c]]
    BY <1>3, <2>1 DEF AssertGatewayTenantActive, rowVars, adminVars, boundVars
  <2>2. CASE ~active[TenantOf[c]]
    BY <1>3, <2>2 DEF AssertGatewayTenantActive, Refuse, rowVars, adminVars, boundVars
  <2> QED
    BY <2>1, <2>2
<1>4. ASSUME NEW c \in Calls, ReadBudget(c) PROVE IndInv' /\ Final
  <2>1. read' \in [Calls -> Budgets]
    BY <1>4 DEF ReadBudget
  <2>2. CASE budget[TenantOf[c]].has
    BY ZenonT(60), <1>4, <2>1, <2>2 DEF ReadBudget, rowVars, adminVars, boundVars
  <2>3. CASE ~budget[TenantOf[c]].has
    BY ZenonT(60), <1>4, <2>1, <2>3 DEF ReadBudget, Refuse, rowVars, adminVars, boundVars
  <2> QED
    BY <2>2, <2>3
<1>5. ASSUME NEW c \in Calls, CheckTenantSpend(c) PROVE IndInv' /\ Final
  BY ZenonT(60), <1>5 DEF CheckTenantSpend, Refuse, rowVars, adminVars, boundVars
<1>6. ASSUME NEW c \in Calls, CheckGlobalSpend(c) PROVE IndInv' /\ Final
  BY ZenonT(60), <1>6 DEF CheckGlobalSpend, Refuse, rowVars, adminVars, boundVars
<1>7. ASSUME NEW c \in Calls, NEW visible \in BOOLEAN, InsertReserved(c, visible)
      PROVE  IndInv' /\ Final
  <2>1. CASE active[TenantOf[c]] /\ visible
    <3>1. /\ row' = [row EXCEPT ![c] = "reserved"]
          /\ cost' = [cost EXCEPT ![c] = Estimate[c]]
          /\ pc' = [pc EXCEPT ![c] = "invoke"] \/ pc' = [pc EXCEPT ![c] = "done"]
          /\ failures' \in Nat
          /\ lock' = NoCall
          /\ pc[c] = "insert"
          /\ UNCHANGED <<at, read, tries, charged, answered, budget, active,
                         highest, clock, changes>>
      BY <1>7, <2>1 DEF InsertReserved, adminVars
    <3> QED
      BY <3>1
  <2>2. CASE ~(active[TenantOf[c]] /\ visible)
    <3>1. /\ pc' = [pc EXCEPT ![c] = "done"] /\ lock' = NoCall /\ pc[c] = "insert"
          /\ UNCHANGED <<row, cost, at, read, tries, charged, answered, budget, active,
                         highest, clock, changes, failures>>
      BY <1>7, <2>2 DEF InsertReserved, adminVars
    <3> QED
      BY <3>1
  <2> QED
    BY <2>1, <2>2
<1>8. ASSUME NEW c \in Calls, NEW price \in Costs, ProviderAnswers(c, price)
      PROVE  IndInv' /\ Final
  BY <1>8 DEF ProviderAnswers, rowVars, adminVars, boundVars
<1>9. ASSUME NEW c \in Calls, NEW price \in Costs, ProviderRejects(c, price)
      PROVE  IndInv' /\ Final
  BY <1>9 DEF ProviderRejects, rowVars, adminVars, boundVars
<1>10. ASSUME NEW c \in Calls, FailGatewayCall(c) PROVE IndInv' /\ Final
  <2>1. row[c] = "reserved" /\ ~answered[c]
    BY <1>10 DEF FailGatewayCall
  <2>2. CASE row' = [row EXCEPT ![c] = "failed"] /\ cost' = [cost EXCEPT ![c] = 0]
    BY <1>10, <2>1, <2>2 DEF FailGatewayCall, adminVars
  <2>3. CASE UNCHANGED <<row, cost>>
    BY <1>10, <2>1, <2>3 DEF FailGatewayCall, adminVars
  <2> QED
    BY <1>10, <2>2, <2>3 DEF FailGatewayCall
<1>11. ASSUME NEW c \in Calls, SettleAnswered(c) PROVE IndInv' /\ Final
  <2>1. /\ pc[c] = "settle" /\ pc' = [pc EXCEPT ![c] = "done"]
        /\ UNCHANGED <<at, lock, read, tries, charged, answered, budget, active, highest,
                       clock, failures, changes>>
    BY <1>11 DEF SettleAnswered, adminVars, boundVars
  <2>2. CASE row[c] = "reserved" /\ row' = [row EXCEPT ![c] = "settled"]
                /\ cost' = [cost EXCEPT ![c] = charged[c]]
    BY <2>1, <2>2
  <2>3. CASE UNCHANGED <<row, cost>>
    BY <2>1, <2>3
  <2> QED
    BY <1>11, <2>2, <2>3 DEF SettleAnswered, Settle
<1>12. ASSUME NEW c \in Calls, SettleRejected(c) PROVE IndInv' /\ Final
  <2>1. pc[c] = "settle" /\ answered[c]
    BY <1>12 DEF SettleRejected
  <2>2. CASE row[c] = "reserved" /\ row' = [row EXCEPT ![c] = "settled"]
                /\ cost' = [cost EXCEPT ![c] = charged[c]]
    BY <1>12, <2>1, <2>2 DEF SettleRejected, adminVars
  <2>3. CASE UNCHANGED <<row, cost>>
    BY <1>12, <2>1, <2>3 DEF SettleRejected, adminVars
  <2> QED
    BY <1>12, <2>2, <2>3 DEF SettleRejected, Settle
<1>13. ASSUME NEW c \in Calls, ReservationError(c) PROVE IndInv' /\ Final
  BY <1>13 DEF ReservationError, rowVars, adminVars
<1>14. ASSUME GatewayCrash PROVE IndInv' /\ Final
  BY <1>14 DEF GatewayCrash, InFlight, rowVars, adminVars
<1>15. ASSUME NEW t \in Tenants, NEW d \in Caps, NEW m \in Caps,
              SetTenantAiBudget(t, d, m)
       PROVE  IndInv' /\ Final
  <2>1. /\ Higher(highest[t].daily, d) \in Nat \cup {NoCap}
        /\ Higher(highest[t].monthly, m) \in Nat \cup {NoCap}
    BY HigherType DEF Caps
  <2>2. TypeOK'
    BY <1>15, <2>1 DEF SetTenantAiBudget, Budgets, rowVars, callVars
  <2> QED
    BY <1>15, <2>2 DEF SetTenantAiBudget, rowVars, callVars
<1>16. ASSUME NEW t \in Tenants, SetTenantStatus(t) PROVE IndInv' /\ Final
  BY <1>16 DEF SetTenantStatus, rowVars, callVars
<1>17. ASSUME Tick PROVE IndInv' /\ Final
  BY <1>17 DEF Tick, rowVars, callVars, adminVars, boundVars
<1>18. ASSUME UNCHANGED vars PROVE IndInv' /\ Final
  BY <1>18 DEF vars, rowVars, callVars, adminVars, boundVars
<1> HIDE DEF IndInv, TypeOK, RowFollowsCall, AnsweredIsCounted, RowStatuses, Pcs,
             Reserving, Goto, Final
<1>19. IndInv' /\ Final
  BY <1>1, <1>2, <1>3, <1>4, <1>5, <1>6, <1>7, <1>8, <1>9, <1>10, <1>11, <1>12,
     <1>13, <1>14, <1>15, <1>16, <1>17, <1>18
     DEF Next, CallStep, Administration
<1> QED
  BY <1>19 DEF Final

(* The invariant of the reserve, settle and fail transitions. *)
THEOREM LedgerInvariance == Spec => []IndInv
BY RowsInit, RowsStep, PTL DEF Spec

(* For every number of calls, tenants and faults: a call the provider answered
   counts against the budget, at its estimate or at what was charged. *)
THEOREM AnsweredCallsAreCounted == Spec => []AnsweredIsCounted
<1>1. IndInv => AnsweredIsCounted
  BY DEF IndInv
<1> QED
  BY <1>1, LedgerInvariance, PTL

(* For every number of calls, tenants and faults: no step changes the status or
   the cost of a row that is settled or failed. *)
THEOREM TerminalRowsAreFinal == Spec => RowsAreFinal
<1>1. IndInv /\ [Next]_vars
        => [\A c \in Calls : row[c] \in {"settled", "failed"}
              => row'[c] = row[c] /\ cost'[c] = cost[c]]_vars
  BY RowsStep
<1> QED
  BY <1>1, LedgerInvariance, PTL DEF Spec, RowsAreFinal

(* Without a fault, no step ends a call whose row is still reserved. *)
LEMMA EndsStep ==
  ASSUME IndInv, OnlyFaultsStrandReservations, [Next]_vars
  PROVE  OnlyFaultsStrandReservations'
<1> SUFFICES ASSUME failures' = 0, NEW d \in Calls, pc'[d] = "done"
             PROVE  row'[d] # "reserved"
  BY DEF OnlyFaultsStrandReservations
<1> USE DEF IndInv, TypeOK, RowFollowsCall, Pcs, Reserving, Goto
<1>1. CASE UNCHANGED <<row, pc, failures>>
  BY <1>1 DEF OnlyFaultsStrandReservations
<1>2. ASSUME NEW c \in Calls, Begin(c) \/ TakeLock(c) PROVE row'[d] # "reserved"
  BY <1>2 DEF Begin, TakeLock, OnlyFaultsStrandReservations, rowVars, boundVars
<1>3. ASSUME NEW c \in Calls,
             \/ AssertGatewayTenantActive(c) \/ ReadBudget(c)
             \/ CheckTenantSpend(c) \/ CheckGlobalSpend(c)
      PROVE  row'[d] # "reserved"
  <2>1. UNCHANGED <<row, failures>> /\ row[c] = "none" /\ \A e \in Calls \ {c} : pc'[e] = pc[e]
    BY <1>3 DEF AssertGatewayTenantActive, ReadBudget, CheckTenantSpend, CheckGlobalSpend, Refuse,
                rowVars, boundVars
  <2> QED
    BY <2>1 DEF OnlyFaultsStrandReservations
<1>4. ASSUME NEW c \in Calls, NEW visible \in BOOLEAN, InsertReserved(c, visible)
      PROVE  row'[d] # "reserved"
  <2>1. CASE active[TenantOf[c]] /\ visible
    <3>1. UNCHANGED failures /\ pc' = [pc EXCEPT ![c] = "invoke"] /\ row' = [row EXCEPT ![c] = "reserved"]
      BY <1>4, <2>1 DEF InsertReserved
    <3> QED
      BY <3>1 DEF OnlyFaultsStrandReservations
  <2>2. CASE ~(active[TenantOf[c]] /\ visible)
    BY <1>4, <2>2 DEF InsertReserved, OnlyFaultsStrandReservations
  <2> QED
    BY <2>1, <2>2
<1>5. ASSUME NEW c \in Calls, NEW price \in Costs, ProviderAnswers(c, price) \/ ProviderRejects(c, price)
      PROVE  row'[d] # "reserved"
  BY <1>5 DEF ProviderAnswers, ProviderRejects, OnlyFaultsStrandReservations, rowVars, boundVars
<1>6. ASSUME NEW c \in Calls, FailGatewayCall(c) PROVE row'[d] # "reserved"
  BY <1>6 DEF FailGatewayCall, OnlyFaultsStrandReservations
<1>7. ASSUME NEW c \in Calls, SettleAnswered(c) PROVE row'[d] # "reserved"
  BY <1>7 DEF SettleAnswered, Settle, OnlyFaultsStrandReservations, boundVars
<1>8. ASSUME NEW c \in Calls, SettleRejected(c) \/ ReservationError(c) PROVE FALSE
  BY <1>8 DEF SettleRejected, ReservationError
<1>9. CASE GatewayCrash
  BY <1>9 DEF GatewayCrash
<1>10. CASE Administration \/ Tick \/ UNCHANGED vars
  <2>1. UNCHANGED <<row, pc, failures>>
    BY <1>10 DEF Administration, SetTenantStatus, SetTenantAiBudget, Tick, vars, rowVars, callVars, boundVars
  <2> QED
    BY <1>1, <2>1
<1> QED
  BY <1>2, <1>3, <1>4, <1>5, <1>6, <1>7, <1>8, <1>9, <1>10 DEF Next, CallStep

(* invokeReserved: in a run without faults, every call that has ended has settled
   or failed its row, so no estimate stays charged against a budget. *)
THEOREM EndedCallsAreSettled == Spec => []OnlyFaultsStrandReservations
<1>1. Init => OnlyFaultsStrandReservations
  BY DEF Init, OnlyFaultsStrandReservations
<1> QED
  BY <1>1, EndsStep, LedgerInvariance, PTL DEF Spec
-----------------------------------------------------------------------------
(* The caps.  The four windows of a call are the calls with a row in the   *)
(* same day and month, of its tenant's calendar and of UTC.                *)

Windows == {"tenantDay", "tenantMonth", "day", "month"}

Together(k, x, c) ==
  CASE k = "tenantDay" -> /\ TenantOf[x] = TenantOf[c]
                          /\ Day(Local(TenantOf[c], at[x])) = Day(Local(TenantOf[c], at[c]))
    [] k = "tenantMonth" -> /\ TenantOf[x] = TenantOf[c]
                            /\ Month(Local(TenantOf[c], at[x])) = Month(Local(TenantOf[c], at[c]))
    [] k = "day" -> Day(at[x]) = Day(at[c])
    [] k = "month" -> Month(at[x]) = Month(at[c])

Window(k, c) == {x \in Rows : Together(k, x, c)}

HighCap(k, c) == CASE k = "tenantDay" -> highest[TenantOf[c]].daily
                   [] k = "tenantMonth" -> highest[TenantOf[c]].monthly
                   [] k = "day" -> GlobalDaily
                   [] k = "month" -> GlobalMonthly

CapRead(k, c) == CASE k = "tenantDay" -> read[c].daily
                   [] k = "tenantMonth" -> read[c].monthly
                   [] k = "day" -> GlobalDaily
                   [] k = "month" -> GlobalMonthly

AtMost(a, b) == b = NoCap \/ (a # NoCap /\ a <= b)
Below(S, cap) == cap = NoCap \/ SumFunctionOnSet(Counted, S) < cap

CheckedAt(k) == IF k \in {"tenantDay", "tenantMonth"} THEN {"globalSpend", "insert"} ELSE {"insert"}

(* What a reservation has established at its step: it holds the lock, the  *)
(* caps it has read were in force, and the windows it has checked are      *)
(* below them.                                                             *)
CallFitsCaps(c) ==
  /\ pc[c] \in Reserving \ {"lock"} => lock = c
  /\ pc[c] \in {"tenantSpend", "globalSpend", "insert"} =>
       \A k \in Windows : AtMost(CapRead(k, c), HighCap(k, c))
  /\ \A k \in Windows : pc[c] \in CheckedAt(k) => Below(Window(k, c), CapRead(k, c))

HighestCovers ==
  \A t \in Tenants : budget[t].has =>
    AtMost(budget[t].daily, highest[t].daily) /\ AtMost(budget[t].monthly, highest[t].monthly)

WindowsHold == \A c \in Rows, k \in Windows : WithinOneCall(Window(k, c), HighCap(k, c))

CapsInv ==
  /\ IsFiniteSet(Rows) /\ HighestCovers /\ WindowsHold
  /\ \A c \in Calls : CallFitsCaps(c)

LEMMA DayIsNat == \A n \in Nat : Day(n) \in Nat /\ Month(n) \in Nat
  BY DEF Day, Month

LEMMA LocalIsNat == \A t \in Tenants, n \in Nat : Local(t, n) \in Nat
  BY DEF Local

LEMMA CapTypes ==
  ASSUME TypeOK, NEW c \in Calls, NEW k \in Windows
  PROVE  /\ CapRead(k, c) \in Nat \cup {NoCap} /\ HighCap(k, c) \in Nat \cup {NoCap}
  BY DEF TypeOK, Windows, CapRead, HighCap, Budgets, Caps

LEMMA CountedType ==
  ASSUME TypeOK
  PROVE  /\ Counted \in [Calls -> Nat] /\ \A c \in Calls : Counted[c] <= cost[c] /\ Counted[c] <= Estimate[c]
  BY DEF TypeOK, Counted

\* ... and after a step.
LEMMA TypesNext ==
  ASSUME TypeOK'
  PROVE  /\ Counted' \in [Calls -> Nat] /\ \A c \in Calls : Counted'[c] <= Estimate[c]
         /\ \A c \in Calls, k \in Windows : HighCap(k, c)' \in Nat \cup {NoCap}
<1>1. Counted' \in [Calls -> Nat] /\ \A c \in Calls : Counted'[c] <= Estimate[c]
  BY DEF TypeOK, Counted
<1>2. ASSUME NEW c \in Calls, NEW k \in Windows PROVE HighCap(k, c)' \in Nat \cup {NoCap}
  BY DEF TypeOK, Windows, HighCap
<1> QED
  BY <1>1, <1>2

LEMMA TogetherIsSame ==
  ASSUME NEW k \in Windows, NEW c \in Calls, NEW x \in Calls, NEW y \in Calls
  PROVE  /\ Together(k, c, c)
         /\ Together(k, x, c) => (Together(k, y, c) <=> Together(k, y, x))
<1>1. CASE k = "tenantDay"
  BY <1>1 DEF Together
<1>2. CASE k = "tenantMonth"
  BY <1>2 DEF Together
<1>3. CASE k = "day" \/ k = "month"
  BY <1>3 DEF Together
<1> QED
  BY <1>1, <1>2, <1>3 DEF Windows

LEMMA AtMostHigher ==
  ASSUME NEW a \in Nat \cup {NoCap}, NEW b \in Nat \cup {NoCap}
  PROVE  AtMost(a, a) /\ AtMost(a, Higher(a, b)) /\ AtMost(b, Higher(a, b))
  BY DEF AtMost, Higher

LEMMA AtMostIsTransitive ==
  ASSUME NEW a \in Nat \cup {NoCap}, NEW b \in Nat \cup {NoCap}, NEW d \in Nat \cup {NoCap},
         AtMost(a, b), AtMost(b, d)
  PROVE  AtMost(a, d)
  BY DEF AtMost

\* Less is counted, or the same, in a set that is below its cap.
LEMMA LessIsBelow ==
  ASSUME NEW f \in [Calls -> Nat], NEW g \in [Calls -> Nat], NEW S \in SUBSET Calls, IsFiniteSet(S),
         \A x \in S : g[x] <= f[x],
         NEW cap \in Nat, SumFunctionOnSet(f, S) < cap
  PROVE  SumFunctionOnSet(g, S) < cap
<1>1. SumFunctionOnSet(g, S) <= SumFunctionOnSet(f, S)
  BY SumOfGreater
<1>2. SumFunctionOnSet(g, S) \in Nat /\ SumFunctionOnSet(f, S) \in Nat
  BY SumIsNat
<1> QED
  BY <1>1, <1>2

\* The rows stay, at their times, and none counts for more.
QuietRows == Rows' = Rows /\ \A x \in Rows : at'[x] = at[x] /\ Counted'[x] <= Counted[x]

LEMMA WindowStays ==
  ASSUME QuietRows, NEW c \in Calls, at'[c] = at[c], NEW k \in Windows
  PROVE  Window(k, c)' = Window(k, c)
<1>1. \A x \in Rows : Together(k, x, c)' <=> Together(k, x, c)
  <2> SUFFICES ASSUME NEW x \in Rows PROVE Together(k, x, c)' <=> Together(k, x, c)
    OBVIOUS
  <2>1. at'[x] = at[x]
    BY DEF QuietRows
  <2> QED
    BY <2>1 DEF Together
<1> QED
  BY <1>1 DEF Window, QuietRows

LEMMA BelowStays ==
  ASSUME TypeOK, TypeOK', CapsInv, QuietRows, NEW S \in SUBSET Rows,
         NEW cap \in Nat \cup {NoCap}, Below(S, cap)
  PROVE  cap = NoCap \/ SumFunctionOnSet(Counted', S) < cap
<1>1. IsFiniteSet(S) /\ S \in SUBSET Calls
  BY FS_Subset DEF CapsInv, Rows
<1>2. Counted \in [Calls -> Nat] /\ Counted' \in [Calls -> Nat]
  BY CountedType, TypesNext
<1>3. \A x \in S : Counted'[x] <= Counted[x]
  BY DEF QuietRows
<1> HIDE DEF QuietRows
<1> QED
  BY <1>1, <1>2, <1>3, LessIsBelow DEF Below

LEMMA WindowsStay ==
  ASSUME TypeOK, TypeOK', CapsInv, QuietRows,
         \A c \in Calls, k \in Windows : AtMost(HighCap(k, c), HighCap(k, c)')
  PROVE  WindowsHold'
<1> SUFFICES ASSUME NEW c \in Rows, NEW k \in Windows
             PROVE  WithinOneCall(Window(k, c), HighCap(k, c))'
  BY DEF WindowsHold, QuietRows
<1>1. c \in Calls /\ at'[c] = at[c]
  BY DEF Rows, QuietRows
<1>2. Window(k, c)' = Window(k, c) /\ Window(k, c) \subseteq Rows
  BY <1>1, WindowStays DEF Window
<1>3. c \in Window(k, c)
  BY <1>1, TogetherIsSame DEF Window
<1>4. WithinOneCall(Window(k, c), HighCap(k, c))
  BY DEF CapsInv, WindowsHold
<1>5. CASE HighCap(k, c)' = NoCap
  BY <1>5 DEF WithinOneCall
<1>6. CASE HighCap(k, c)' # NoCap
  <2>1. /\ HighCap(k, c) # NoCap /\ HighCap(k, c) <= HighCap(k, c)'
        /\ HighCap(k, c) \in Nat /\ HighCap(k, c)' \in Nat
    BY <1>1, <1>6, CapTypes, TypesNext DEF AtMost
  <2>2. PICK x \in Window(k, c) : SumFunctionOnSet(Counted, Window(k, c) \ {x}) < HighCap(k, c)
    BY <1>3, <1>4, <2>1 DEF WithinOneCall
  <2>3. SumFunctionOnSet(Counted', Window(k, c) \ {x}) < HighCap(k, c)
    BY <1>2, <2>1, <2>2, BelowStays DEF Below
  <2>4. SumFunctionOnSet(Counted', Window(k, c) \ {x}) \in Nat
    BY <1>2, TypesNext, SumIsNat, FS_Subset DEF CapsInv, Rows
  <2>5. SumFunctionOnSet(Counted', Window(k, c) \ {x}) < HighCap(k, c)'
    BY <2>1, <2>3, <2>4
  <2> QED
    BY <1>2, <2>5 DEF WithinOneCall
<1> QED
  BY <1>5, <1>6

\* A step of one call that inserts no row.
CapsOthersSame(c) ==
  \A d \in Calls \ {c} : pc'[d] = pc[d] /\ at'[d] = at[d] /\ read'[d] = read[d]

LEMMA CheckStays ==
  ASSUME TypeOK, TypeOK', CapsInv, QuietRows, NEW c \in Calls, at'[c] = at[c], read'[c] = read[c],
         NEW k \in Windows, Below(Window(k, c), CapRead(k, c))
  PROVE  Below(Window(k, c), CapRead(k, c))'
<1>1. Window(k, c)' = Window(k, c) /\ Window(k, c) \in SUBSET Rows
  BY WindowStays DEF Window
<1>2. CapRead(k, c)' = CapRead(k, c) /\ CapRead(k, c) \in Nat \cup {NoCap}
  BY CapTypes DEF CapRead
<1> QED
  BY <1>1, <1>2, BelowStays DEF Below

LEMMA QuietCall ==
  ASSUME TypeOK, TypeOK', CapsInv, QuietRows, NEW c \in Calls, CapsOthersSame(c), UNCHANGED <<budget, highest>>,
         lock' = lock \/ lock \in {c, NoCall}, CallFitsCaps(c)'
  PROVE  CapsInv'
<1>1. \A d \in Calls, k \in Windows : HighCap(k, d)' = HighCap(k, d) /\ HighCap(k, d) \in Nat \cup {NoCap}
  BY CapTypes DEF HighCap
<1>2. WindowsHold'
  BY <1>1, WindowsStay, AtMostHigher
<1>3. IsFiniteSet(Rows)' /\ HighestCovers'
  BY DEF CapsInv, QuietRows, HighestCovers
<1>4. ASSUME NEW d \in Calls, d # c PROVE CallFitsCaps(d)'
  <2>1. CallFitsCaps(d) /\ pc'[d] = pc[d] /\ at'[d] = at[d] /\ read'[d] = read[d] /\ d # NoCall
    BY <1>4 DEF CapsInv, CapsOthersSame
  <2>2. \A k \in Windows : CapRead(k, d)' = CapRead(k, d)
    BY <2>1 DEF CapRead
  <2>3. pc'[d] \in Reserving \ {"lock"} => lock' = d
    BY <1>4, <2>1 DEF CallFitsCaps
  <2>4. \A k \in Windows : pc'[d] \in CheckedAt(k) => Below(Window(k, d), CapRead(k, d))'
    BY <2>1, CheckStays DEF CallFitsCaps
  <2>5. pc'[d] \in {"tenantSpend", "globalSpend", "insert"} =>
          \A k \in Windows : AtMost(CapRead(k, d), HighCap(k, d))'
    BY <1>1, <2>1, <2>2 DEF CallFitsCaps, AtMost
  <2> QED
    BY <2>3, <2>4, <2>5 DEF CallFitsCaps
<1> QED
  BY <1>2, <1>3, <1>4 DEF CapsInv

\* The reservation that inserts its row is the one that has checked.
LEMMA InsertKeepsCaps ==
  ASSUME TypeOK, TypeOK', CapsInv, NEW c \in Calls, pc[c] = "insert", row[c] = "none",
         row' = [row EXCEPT ![c] = "reserved"], cost' = [cost EXCEPT ![c] = Estimate[c]],
         pc' = [pc EXCEPT ![c] = "invoke"] \/ pc' = [pc EXCEPT ![c] = "done"],
         UNCHANGED <<at, read, budget, highest>>
  PROVE  CapsInv'
<1>1. c \notin Rows /\ Rows' = Rows \cup {c}
  BY DEF Rows, TypeOK
<1>2. IsFiniteSet(Rows)'
  BY <1>1, FS_AddElement DEF CapsInv
<1>3. HighestCovers'
  BY DEF CapsInv, HighestCovers
<1>4. /\ Counted \in [Calls -> Nat] /\ Counted' \in [Calls -> Nat]
      /\ \A x \in Calls \ {c} : Counted'[x] <= Counted[x]
  <2>1. \A x \in Calls \ {c} : Counted'[x] = Counted[x]
    BY DEF Counted, TypeOK
  <2> QED
    BY <2>1, CountedType, TypesNext
<1>5. \A x \in Calls, d \in Calls, k \in Windows :
        (Together(k, x, d)' <=> Together(k, x, d)) /\ HighCap(k, d)' = HighCap(k, d)
  BY DEF Together, HighCap
<1>6. ASSUME NEW S \in SUBSET Rows, NEW cap \in Nat, SumFunctionOnSet(Counted, S) < cap
      PROVE  SumFunctionOnSet(Counted', S) < cap
  <2>1. IsFiniteSet(S) /\ S \in SUBSET Calls /\ \A x \in S : Counted'[x] <= Counted[x]
    BY <1>1, <1>4, FS_Subset DEF CapsInv, Rows
  <2> QED
    BY <1>4, <1>6, <2>1, LessIsBelow
<1>7. ASSUME NEW d \in Rows', NEW k \in Windows
      PROVE  WithinOneCall(Window(k, d), HighCap(k, d))'
  <2>0. d \in Calls /\ HighCap(k, d)' = HighCap(k, d) /\ HighCap(k, d) \in Nat \cup {NoCap}
    BY <1>1, <1>5, CapTypes DEF Rows
  <2>1. Window(k, d)' = {x \in Rows \cup {c} : Together(k, x, d)}
    BY <1>1, <1>5, <2>0 DEF Window, Rows
  <2>2. CASE HighCap(k, d) = NoCap
    BY <2>0, <2>2 DEF WithinOneCall
  <2>3. CASE HighCap(k, d) # NoCap /\ Together(k, c, d)
    <3>1. \A x \in Calls : Together(k, x, d) <=> Together(k, x, c)
      BY <2>0, <2>3, TogetherIsSame
    <3>2. Window(k, d)' \ {c} = Window(k, c) /\ c \in Window(k, d)'
      BY <1>1, <2>1, <2>3, <3>1 DEF Window, Rows
    <3>3. HighCap(k, c) = HighCap(k, d)
      BY <2>3 DEF HighCap, Together, Windows
    <3>4. AtMost(CapRead(k, c), HighCap(k, c)) /\ Below(Window(k, c), CapRead(k, c))
      BY DEF CapsInv, CallFitsCaps, CheckedAt
    <3>5. CapRead(k, c) \in Nat /\ CapRead(k, c) <= HighCap(k, d) /\ HighCap(k, d) \in Nat
      BY <2>0, <2>3, <3>3, <3>4, CapTypes DEF AtMost
    <3>6. SumFunctionOnSet(Counted', Window(k, c)) < CapRead(k, c)
      BY <1>6, <3>4, <3>5 DEF Below, Window
    <3>7. SumFunctionOnSet(Counted', Window(k, c)) \in Nat
      BY <1>4, SumIsNat, FS_Subset DEF CapsInv, Window, Rows
    <3>8. SumFunctionOnSet(Counted', Window(k, c)) < HighCap(k, d)
      BY <3>5, <3>6, <3>7
    <3>9. SumFunctionOnSet(Counted', Window(k, d)' \ {c}) < HighCap(k, d)'
      BY <2>0, <3>2, <3>8, Zenon
    <3> QED
      BY <3>2, <3>9 DEF WithinOneCall
  <2>4. CASE HighCap(k, d) # NoCap /\ ~Together(k, c, d)
    <3>1. d \in Rows /\ d \in Window(k, d)
      BY <1>1, <2>0, <2>4, TogetherIsSame DEF Window
    <3>2. Window(k, d)' = Window(k, d) /\ Window(k, d) \in SUBSET Rows
      BY <2>1, <2>4 DEF Window
    <3>3. PICK x \in Window(k, d) : SumFunctionOnSet(Counted, Window(k, d) \ {x}) < HighCap(k, d)
      BY <2>4, <3>1 DEF CapsInv, WindowsHold, WithinOneCall
    <3>4. SumFunctionOnSet(Counted', Window(k, d) \ {x}) < HighCap(k, d)
      BY <1>6, <2>0, <2>4, <3>2, <3>3
    <3> QED
      BY <2>0, <3>2, <3>4 DEF WithinOneCall
  <2> QED
    BY <2>2, <2>3, <2>4
<1>8. ASSUME NEW d \in Calls PROVE CallFitsCaps(d)'
  <2>1. pc'[d] \notin Reserving \ {"lock"}
    <3>1. CASE d = c
      BY <3>1 DEF TypeOK, Reserving
    <3>2. CASE d # c
      <4>1. lock = c /\ (pc[d] \in Reserving \ {"lock"} => lock = d)
        BY DEF CapsInv, CallFitsCaps, Reserving
      <4> QED
        BY <3>2, <4>1 DEF TypeOK
    <3> QED
      BY <3>1, <3>2
  <2> QED
    BY <2>1 DEF CallFitsCaps, CheckedAt, Reserving
<1> QED
  BY <1>2, <1>3, <1>7, <1>8 DEF CapsInv, WindowsHold

\* What passes a check is below the cap that was read.
LEMMA PassedIsBelow ==
  ASSUME TypeOK, CapsInv, NEW W \in SUBSET Rows, NEW B \in SUBSET Rows, W \subseteq B,
         NEW cap \in Nat \cup {NoCap}, cap = NoCap \/ ~(Spent(B) >= cap)
  PROVE  Below(W, cap)
<1>1. IsFiniteSet(W) /\ IsFiniteSet(B) /\ W \in SUBSET Calls /\ B \in SUBSET Calls
  BY FS_Subset DEF CapsInv, Rows
<1>2. cost \in [Calls -> Nat] /\ Counted \in [Calls -> Nat] /\ \A x \in W : Counted[x] <= cost[x]
  BY <1>1, CountedType DEF TypeOK
<1>3. /\ SumFunctionOnSet(Counted, W) <= SumFunctionOnSet(cost, W)
      /\ SumFunctionOnSet(cost, W) <= SumFunctionOnSet(cost, B)
  BY <1>1, <1>2, SumOfGreater, SumOfMore
<1>4. /\ SumFunctionOnSet(Counted, W) \in Nat /\ SumFunctionOnSet(cost, W) \in Nat
      /\ SumFunctionOnSet(cost, B) \in Nat
  BY <1>1, <1>2, SumIsNat
<1> QED
  BY <1>3, <1>4 DEF Below, Spent

LEMMA TenantCheckPasses ==
  ASSUME TypeOK, CapsInv, NEW c \in Calls,
         ~Reached(SpentToday(c), read[c].daily), ~Reached(SpentMonth(c), read[c].monthly),
         NEW k \in {"tenantDay", "tenantMonth"}
  PROVE  Below(Window(k, c), CapRead(k, c))
<1> DEFINE t == TenantOf[c]
           D == {x \in RowsOf(t) : Day(Local(t, at[x])) >= Day(Local(t, at[c]))}
           M == {x \in RowsOf(t) : Month(Local(t, at[x])) >= Month(Local(t, at[c]))}
<1>1. CapRead(k, c) \in Nat \cup {NoCap} /\ Window(k, c) \in SUBSET Rows
  BY CapTypes DEF Windows, Window
<1>2. \A x \in Calls : Day(Local(t, at[x])) \in Nat /\ Month(Local(t, at[x])) \in Nat
  BY DayIsNat, LocalIsNat DEF TypeOK
<1>3. D \in SUBSET Rows /\ M \in SUBSET Rows /\ Rows \subseteq Calls
  BY DEF RowsOf, Rows
<1>4. CASE k = "tenantDay"
  <2>1. Window(k, c) \subseteq D
    BY <1>2, <1>3, <1>4 DEF Window, Together, RowsOf
  <2>2. CapRead(k, c) = NoCap \/ ~(Spent(D) >= CapRead(k, c))
    BY <1>4 DEF Reached, SpentToday, CapRead
  <2> HIDE DEF D
  <2> QED
    BY <1>1, <1>3, <2>1, <2>2, PassedIsBelow
<1>5. CASE k = "tenantMonth"
  <2>1. Window(k, c) \subseteq M
    BY <1>2, <1>3, <1>5 DEF Window, Together, RowsOf
  <2>2. CapRead(k, c) = NoCap \/ ~(Spent(M) >= CapRead(k, c))
    BY <1>5 DEF Reached, SpentMonth, CapRead
  <2> HIDE DEF M
  <2> QED
    BY <1>1, <1>3, <2>1, <2>2, PassedIsBelow
<1> QED
  BY <1>4, <1>5

LEMMA GlobalCheckPasses ==
  ASSUME TypeOK, CapsInv, NEW c \in Calls,
         ~(GlobalSpentToday(c) >= GlobalDaily), ~(GlobalSpentMonth(c) >= GlobalMonthly),
         NEW k \in {"day", "month"}
  PROVE  Below(Window(k, c), CapRead(k, c))
<1> DEFINE D == {x \in Rows : Day(at[x]) >= Day(at[c])}
           M == {x \in Rows : Month(at[x]) >= Month(at[c])}
<1>1. CapRead(k, c) \in Nat \cup {NoCap} /\ Window(k, c) \in SUBSET Rows
  BY CapTypes DEF Windows, Window
<1>2. \A x \in Calls : Day(at[x]) \in Nat /\ Month(at[x]) \in Nat
  BY DayIsNat DEF TypeOK
<1>3. D \in SUBSET Rows /\ M \in SUBSET Rows /\ Rows \subseteq Calls
  BY DEF Rows
<1>4. CASE k = "day"
  <2>1. Window(k, c) \subseteq D
    BY <1>2, <1>3, <1>4 DEF Window, Together
  <2>2. CapRead(k, c) = NoCap \/ ~(Spent(D) >= CapRead(k, c))
    BY <1>4 DEF GlobalSpentToday, CapRead
  <2> HIDE DEF D
  <2> QED
    BY <1>1, <1>3, <2>1, <2>2, PassedIsBelow
<1>5. CASE k = "month"
  <2>1. Window(k, c) \subseteq M
    BY <1>2, <1>3, <1>5 DEF Window, Together
  <2>2. CapRead(k, c) = NoCap \/ ~(Spent(M) >= CapRead(k, c))
    BY <1>5 DEF GlobalSpentMonth, CapRead
  <2> HIDE DEF M
  <2> QED
    BY <1>1, <1>3, <2>1, <2>2, PassedIsBelow
<1> QED
  BY <1>4, <1>5

\* The rows are as they were, or one that was reserved has a new cost.
LEMMA RowsAreQuiet ==
  ASSUME TypeOK, TypeOK', RowFollowsCall, NEW c \in Calls,
         \A x \in Rows : at'[x] = at[x],
         \/ UNCHANGED <<row, cost>>
         \/ /\ row[c] = "reserved" /\ row'[c] # "none"
            /\ \A d \in Calls \ {c} : row'[d] = row[d] /\ cost'[d] = cost[d]
  PROVE  QuietRows
<1>1. Rows' = Rows
  BY DEF Rows
<1>2. ASSUME NEW x \in Rows PROVE Counted'[x] <= Counted[x]
  <2>1. x \in Calls /\ Counted[x] \in Nat /\ Counted'[x] \in Nat /\ Counted'[x] <= Estimate[x]
    BY CountedType, TypesNext DEF Rows
  <2>2. CASE cost'[x] = cost[x]
    BY <2>1, <2>2 DEF Counted
  <2>3. CASE row[x] = "reserved"
    <3>1. cost[x] = Estimate[x]
      BY <2>1, <2>3 DEF RowFollowsCall
    <3>2. Counted[x] = Estimate[x]
      BY <2>1, <3>1 DEF Counted
    <3> QED
      BY <2>1, <3>2
  <2> QED
    BY <2>1, <2>2, <2>3
<1> QED
  BY <1>1, <1>2 DEF QuietRows

\* A call that leaves the reservation, or has only its turn to wait for.
LEMMA OutOfReserve ==
  ASSUME NEW c \in Calls, pc'[c] \notin Reserving \ {"lock"}
  PROVE  CallFitsCaps(c)'
  BY DEF CallFitsCaps, CheckedAt, Reserving

LEMMA ReserveStep ==
  ASSUME TypeOK, TypeOK', RowFollowsCall, CapsInv, NEW c \in Calls,
         \/ Begin(c) \/ TakeLock(c) \/ AssertGatewayTenantActive(c) \/ ReadBudget(c)
         \/ CheckTenantSpend(c) \/ CheckGlobalSpend(c) \/ ReservationError(c)
  PROVE  CapsInv'
<1>1. /\ UNCHANGED <<row, cost, budget, highest>>
      /\ \A x \in Calls \ {c} : at'[x] = at[x] /\ pc'[x] = pc[x] /\ read'[x] = read[x]
      /\ at' = at \/ row[c] = "none"
  <2>1. CASE Begin(c)
    BY <2>1 DEF Begin, adminVars, Goto, TypeOK, RowFollowsCall
  <2>2. CASE TakeLock(c) \/ AssertGatewayTenantActive(c)
    BY <2>2 DEF TakeLock, AssertGatewayTenantActive, Refuse, adminVars, rowVars, Goto, TypeOK
  <2>3. CASE ReadBudget(c)
    BY <2>3 DEF ReadBudget, Refuse, adminVars, rowVars, Goto, TypeOK
  <2>4. CASE CheckTenantSpend(c) \/ CheckGlobalSpend(c) \/ ReservationError(c)
    BY <2>4 DEF CheckTenantSpend, CheckGlobalSpend, ReservationError, Refuse, adminVars, rowVars,
                Goto, TypeOK
  <2> QED
    BY <2>1, <2>2, <2>3, <2>4
<1>2. QuietRows
  <2>1. \A x \in Rows : at'[x] = at[x]
    BY <1>1 DEF Rows
  <2> QED
    BY <1>1, <2>1, RowsAreQuiet
<1>3. CallFitsCaps(c)
  BY DEF CapsInv
<1>4. lock' = lock \/ lock \in {c, NoCall}
  BY <1>3 DEF Begin, TakeLock, AssertGatewayTenantActive, ReadBudget, CheckTenantSpend,
              CheckGlobalSpend, ReservationError, Refuse, CallFitsCaps, Reserving
<1>5. CASE pc'[c] \notin Reserving \ {"lock"}
  BY <1>1, <1>2, <1>4, <1>5, OutOfReserve, QuietCall DEF CapsOthersSame
<1>6. CASE TakeLock(c) \/ (AssertGatewayTenantActive(c) /\ pc'[c] = "budget")
  <2>1. pc'[c] \in {"active", "budget"} /\ lock' = c
    BY <1>3, <1>6 DEF TakeLock, AssertGatewayTenantActive, Refuse, Goto, TypeOK, CallFitsCaps, Reserving
  <2>2. CallFitsCaps(c)'
    BY <2>1 DEF CallFitsCaps, CheckedAt
  <2> QED
    BY <1>1, <1>2, <1>4, <2>2, QuietCall DEF CapsOthersSame
<1>7. CASE ReadBudget(c) /\ budget[TenantOf[c]].has
  <2>1. pc'[c] = "tenantSpend" /\ lock' = c /\ read'[c] = budget[TenantOf[c]] /\ highest' = highest
    BY <1>1, <1>3, <1>7 DEF ReadBudget, Goto, TypeOK, CallFitsCaps, Reserving
  <2>2. /\ AtMost(budget[TenantOf[c]].daily, highest[TenantOf[c]].daily)
        /\ AtMost(budget[TenantOf[c]].monthly, highest[TenantOf[c]].monthly)
    BY <1>7 DEF CapsInv, HighestCovers
  <2>3. ASSUME NEW k \in Windows PROVE AtMost(CapRead(k, c), HighCap(k, c))'
    BY <2>1, <2>2 DEF Windows, CapRead, HighCap, AtMost
  <2>4. CallFitsCaps(c)'
    BY <2>1, <2>3 DEF CallFitsCaps, CheckedAt
  <2> QED
    BY <1>1, <1>2, <1>4, <2>4, QuietCall DEF CapsOthersSame
<1>8. CASE CheckTenantSpend(c) /\ pc'[c] = "globalSpend"
  <2>1. /\ pc[c] = "tenantSpend" /\ lock' = lock /\ lock = c /\ read' = read /\ at' = at /\ highest' = highest
        /\ ~Reached(SpentToday(c), read[c].daily) /\ ~Reached(SpentMonth(c), read[c].monthly)
    BY <1>3, <1>8 DEF CheckTenantSpend, Refuse, Goto, TypeOK, CallFitsCaps, Reserving, rowVars, adminVars
  <2>2. ASSUME NEW k \in Windows PROVE AtMost(CapRead(k, c), HighCap(k, c))'
    BY <1>3, <2>1 DEF CallFitsCaps, CapRead, HighCap, AtMost
  <2>3. ASSUME NEW k \in Windows, pc'[c] \in CheckedAt(k) PROVE Below(Window(k, c), CapRead(k, c))'
    <3>1. k \in {"tenantDay", "tenantMonth"}
      BY <1>8, <2>3 DEF CheckedAt
    <3> QED
      BY <1>2, <2>1, <3>1, TenantCheckPasses, CheckStays
  <2>4. CallFitsCaps(c)'
    BY <1>8, <2>1, <2>2, <2>3 DEF CallFitsCaps
  <2> QED
    BY <1>1, <1>2, <1>4, <2>4, QuietCall DEF CapsOthersSame
<1>9. CASE CheckGlobalSpend(c) /\ pc'[c] = "insert"
  <2>1. /\ pc[c] = "globalSpend" /\ lock' = lock /\ lock = c /\ read' = read /\ at' = at /\ highest' = highest
        /\ ~(GlobalSpentToday(c) >= GlobalDaily) /\ ~(GlobalSpentMonth(c) >= GlobalMonthly)
    BY <1>3, <1>9 DEF CheckGlobalSpend, Refuse, Goto, TypeOK, CallFitsCaps, Reserving, rowVars, adminVars
  <2>2. ASSUME NEW k \in Windows PROVE AtMost(CapRead(k, c), HighCap(k, c))'
    BY <1>3, <2>1 DEF CallFitsCaps, CapRead, HighCap, AtMost
  <2>3. ASSUME NEW k \in Windows PROVE Below(Window(k, c), CapRead(k, c))'
    <3>1. CASE k \in {"tenantDay", "tenantMonth"}
      <4>1. Below(Window(k, c), CapRead(k, c))
        BY <1>3, <2>1, <3>1 DEF CallFitsCaps, CheckedAt
      <4> QED
        BY <1>2, <2>1, <4>1, CheckStays
    <3>2. CASE k \in {"day", "month"}
      BY <1>2, <2>1, <3>2, GlobalCheckPasses, CheckStays
    <3> QED
      BY <3>1, <3>2 DEF Windows
  <2>4. CallFitsCaps(c)'
    BY <1>9, <2>1, <2>2, <2>3 DEF CallFitsCaps
  <2> QED
    BY <1>1, <1>2, <1>4, <2>4, QuietCall DEF CapsOthersSame
<1>10. \/ pc'[c] \notin Reserving \ {"lock"}
       \/ TakeLock(c) \/ (AssertGatewayTenantActive(c) /\ pc'[c] = "budget")
       \/ ReadBudget(c) /\ budget[TenantOf[c]].has
       \/ CheckTenantSpend(c) /\ pc'[c] = "globalSpend"
       \/ CheckGlobalSpend(c) /\ pc'[c] = "insert"
  BY DEF Begin, AssertGatewayTenantActive, ReadBudget, CheckTenantSpend, CheckGlobalSpend,
         ReservationError, Refuse, Goto, TypeOK, Reserving
<1> QED
  BY <1>5, <1>6, <1>7, <1>8, <1>9, <1>10

LEMMA InsertStep ==
  ASSUME TypeOK, TypeOK', RowFollowsCall, CapsInv, NEW c \in Calls, NEW visible \in BOOLEAN,
         InsertReserved(c, visible)
  PROVE  CapsInv'
<1>1. pc[c] = "insert" /\ lock = c /\ row[c] = "none" /\ lock' = NoCall
  BY DEF InsertReserved, RowFollowsCall, CapsInv, CallFitsCaps, Reserving
<1>2. CASE active[TenantOf[c]] /\ visible
  <2>1. /\ row' = [row EXCEPT ![c] = "reserved"] /\ cost' = [cost EXCEPT ![c] = Estimate[c]]
        /\ pc' = [pc EXCEPT ![c] = "invoke"] \/ pc' = [pc EXCEPT ![c] = "done"]
        /\ UNCHANGED <<at, read, budget, highest>>
    BY <1>2 DEF InsertReserved, Goto, adminVars
  <2> QED
    BY <1>1, <2>1, InsertKeepsCaps
<1>3. CASE ~(active[TenantOf[c]] /\ visible)
  <2>1. /\ UNCHANGED <<row, cost, at, read, budget, highest>> /\ pc'[c] = "done"
        /\ \A d \in Calls \ {c} : pc'[d] = pc[d]
    BY <1>3 DEF InsertReserved, Goto, adminVars, TypeOK
  <2>2. QuietRows
    BY <2>1, RowsAreQuiet
  <2>3. CallFitsCaps(c)'
    BY <2>1, OutOfReserve DEF Reserving
  <2> QED
    BY <1>1, <2>1, <2>2, <2>3, QuietCall DEF CapsOthersSame
<1> QED
  BY <1>2, <1>3

LEMMA InvokeStep ==
  ASSUME TypeOK, TypeOK', RowFollowsCall, CapsInv, NEW c \in Calls,
         \/ \E price \in Costs : ProviderAnswers(c, price) \/ ProviderRejects(c, price)
         \/ FailGatewayCall(c) \/ SettleAnswered(c) \/ SettleRejected(c)
  PROVE  CapsInv'
<1>1. /\ UNCHANGED <<at, read, lock, budget, highest>> /\ pc'[c] \in {"settle", "fail", "done"}
      /\ \A d \in Calls \ {c} : pc'[d] = pc[d]
  <2>1. CASE \E price \in Costs : ProviderAnswers(c, price) \/ ProviderRejects(c, price)
    BY <2>1 DEF ProviderAnswers, ProviderRejects, Goto, TypeOK, rowVars, adminVars
  <2>2. CASE FailGatewayCall(c) \/ SettleAnswered(c)
    BY <2>2 DEF FailGatewayCall, SettleAnswered, Goto, TypeOK, adminVars
  <2>3. CASE SettleRejected(c)
    BY <2>3 DEF SettleRejected, Goto, TypeOK, adminVars
  <2> QED
    BY <2>1, <2>2, <2>3
<1>2. \/ UNCHANGED <<row, cost>>
      \/ /\ row[c] = "reserved" /\ row'[c] # "none"
         /\ \A d \in Calls \ {c} : row'[d] = row[d] /\ cost'[d] = cost[d]
  BY DEF ProviderAnswers, ProviderRejects, FailGatewayCall, SettleAnswered, SettleRejected, Settle,
         TypeOK, rowVars
<1>3. QuietRows
  BY <1>1, <1>2, RowsAreQuiet
<1>4. CallFitsCaps(c)'
  BY <1>1, OutOfReserve DEF Reserving
<1> QED
  BY <1>1, <1>3, <1>4, QuietCall DEF CapsOthersSame

LEMMA CrashKeepsCaps ==
  ASSUME TypeOK, TypeOK', CapsInv, GatewayCrash
  PROVE  CapsInv'
<1>1. UNCHANGED <<row, cost, at, budget, highest>> /\ \A c \in Calls : pc'[c] \in {"idle", "done"}
  BY DEF GatewayCrash, InFlight, rowVars, adminVars, TypeOK
<1>2. QuietRows
  BY <1>1, CountedType DEF QuietRows, Rows, Counted
<1>3. \A c \in Calls, k \in Windows : AtMost(HighCap(k, c), HighCap(k, c)')
  <2> SUFFICES ASSUME NEW c \in Calls, NEW k \in Windows PROVE AtMost(HighCap(k, c), HighCap(k, c)')
    OBVIOUS
  <2>1. HighCap(k, c)' = HighCap(k, c)
    BY <1>1 DEF HighCap
  <2> QED
    BY <2>1, CapTypes, AtMostHigher
<1>4. \A c \in Calls : CallFitsCaps(c)'
  BY <1>1, OutOfReserve DEF Reserving
<1> QED
  BY <1>1, <1>2, <1>3, <1>4, WindowsStay DEF CapsInv, QuietRows, HighestCovers

\* A budget that is set raises the highest cap, or leaves it.
LEMMA BudgetKeepsCaps ==
  ASSUME TypeOK, TypeOK', CapsInv, NEW t \in Tenants, NEW daily \in Caps, NEW monthly \in Caps,
         SetTenantAiBudget(t, daily, monthly)
  PROVE  CapsInv'
<1>1. /\ UNCHANGED <<row, cost, at, pc, read, lock>>
      /\ budget' = [budget EXCEPT ![t] = [has |-> TRUE, daily |-> daily, monthly |-> monthly]]
      /\ highest' = [highest EXCEPT ![t] = [daily |-> Higher(highest[t].daily, daily),
                                            monthly |-> Higher(highest[t].monthly, monthly)]]
  BY DEF SetTenantAiBudget, rowVars, callVars
<1>2. /\ daily \in Nat \cup {NoCap} /\ monthly \in Nat \cup {NoCap}
      /\ \A u \in Tenants : /\ highest[u].daily \in Nat \cup {NoCap} /\ highest[u].monthly \in Nat \cup {NoCap}
                            /\ budget[u].daily \in Nat \cup {NoCap} /\ budget[u].monthly \in Nat \cup {NoCap}
  BY DEF TypeOK, Caps, Budgets
<1>3. \A u \in Tenants : /\ AtMost(highest[u].daily, highest'[u].daily)
                         /\ AtMost(highest[u].monthly, highest'[u].monthly)
  <2> SUFFICES ASSUME NEW u \in Tenants
               PROVE  /\ AtMost(highest[u].daily, highest'[u].daily)
                      /\ AtMost(highest[u].monthly, highest'[u].monthly)
    OBVIOUS
  <2>1. CASE u = t
    <3>1. /\ highest'[u].daily = Higher(highest[u].daily, daily)
          /\ highest'[u].monthly = Higher(highest[u].monthly, monthly)
      BY <1>1, <2>1 DEF TypeOK
    <3>2. /\ AtMost(highest[u].daily, Higher(highest[u].daily, daily))
          /\ AtMost(highest[u].monthly, Higher(highest[u].monthly, monthly))
      BY <1>2, AtMostHigher
    <3> QED
      BY <3>1, <3>2
  <2>2. CASE u # t
    <3>1. highest'[u] = highest[u]
      BY <1>1, <2>2 DEF TypeOK
    <3> QED
      BY <1>2, <3>1, AtMostHigher
  <2> QED
    BY <2>1, <2>2
<1>4. HighestCovers'
  <2> SUFFICES ASSUME NEW u \in Tenants, budget'[u].has
               PROVE  /\ AtMost(budget'[u].daily, highest'[u].daily)
                      /\ AtMost(budget'[u].monthly, highest'[u].monthly)
    BY DEF HighestCovers
  <2>1. CASE u = t
    <3>1. /\ highest'[u].daily = Higher(highest[u].daily, daily) /\ budget'[u].daily = daily
          /\ highest'[u].monthly = Higher(highest[u].monthly, monthly) /\ budget'[u].monthly = monthly
      BY <1>1, <2>1 DEF TypeOK
    <3>2. /\ AtMost(daily, Higher(highest[u].daily, daily))
          /\ AtMost(monthly, Higher(highest[u].monthly, monthly))
      BY <1>2, AtMostHigher
    <3> QED
      BY <3>1, <3>2
  <2>2. CASE u # t
    <3>1. highest'[u] = highest[u] /\ budget'[u] = budget[u]
      BY <1>1, <2>2 DEF TypeOK
    <3> QED
      BY <3>1 DEF CapsInv, HighestCovers
  <2> QED
    BY <2>1, <2>2
<1>5. QuietRows
  BY <1>1, CountedType DEF QuietRows, Rows, Counted
<1>6. \A c \in Calls, k \in Windows : AtMost(HighCap(k, c), HighCap(k, c)')
  <2> SUFFICES ASSUME NEW c \in Calls, NEW k \in Windows PROVE AtMost(HighCap(k, c), HighCap(k, c)')
    OBVIOUS
  <2>1. CASE k = "tenantDay"
    BY <1>3, <2>1 DEF HighCap
  <2>2. CASE k = "tenantMonth"
    BY <1>3, <2>2 DEF HighCap
  <2>3. CASE k \in {"day", "month"}
    BY <2>3 DEF HighCap, AtMost
  <2> QED
    BY <2>1, <2>2, <2>3 DEF Windows
<1>7. ASSUME NEW c \in Calls PROVE CallFitsCaps(c)'
  <2>1. CallFitsCaps(c) /\ pc'[c] = pc[c] /\ at'[c] = at[c] /\ read'[c] = read[c] /\ lock' = lock
    BY <1>1 DEF CapsInv
  <2>2. \A k \in Windows : pc'[c] \in CheckedAt(k) => Below(Window(k, c), CapRead(k, c))'
    BY <1>5, <2>1, CheckStays DEF CallFitsCaps
  <2>3. ASSUME pc'[c] \in {"tenantSpend", "globalSpend", "insert"}, NEW k \in Windows
        PROVE  AtMost(CapRead(k, c), HighCap(k, c))'
    <3>1. AtMost(CapRead(k, c), HighCap(k, c)) /\ CapRead(k, c)' = CapRead(k, c)
      BY <2>1, <2>3 DEF CallFitsCaps, CapRead
    <3>2. AtMost(HighCap(k, c), HighCap(k, c)')
      BY <1>6
    <3>3. /\ CapRead(k, c) \in Nat \cup {NoCap} /\ HighCap(k, c) \in Nat \cup {NoCap}
          /\ HighCap(k, c)' \in Nat \cup {NoCap}
      BY CapTypes, TypesNext
    <3>4. AtMost(CapRead(k, c), HighCap(k, c)')
      BY <3>1, <3>2, <3>3, AtMostIsTransitive
    <3> QED
      BY <3>1, <3>4 DEF AtMost
  <2> QED
    BY <2>1, <2>2, <2>3 DEF CallFitsCaps
<1> QED
  BY <1>4, <1>5, <1>6, <1>7, WindowsStay DEF CapsInv, QuietRows

LEMMA OtherKeepsCaps ==
  ASSUME TypeOK, TypeOK', CapsInv,
         UNCHANGED <<row, cost, at, pc, read, lock, budget, highest>>
  PROVE  CapsInv'
<1>1. QuietRows
  BY CountedType DEF QuietRows, Rows, Counted
<1>2. \A c \in Calls, k \in Windows : AtMost(HighCap(k, c), HighCap(k, c)')
  <2> SUFFICES ASSUME NEW c \in Calls, NEW k \in Windows PROVE AtMost(HighCap(k, c), HighCap(k, c)')
    OBVIOUS
  <2>1. HighCap(k, c)' = HighCap(k, c)
    BY DEF HighCap
  <2> QED
    BY <2>1, CapTypes, AtMostHigher
<1>3. ASSUME NEW c \in Calls PROVE CallFitsCaps(c)'
  <2>1. \A k \in Windows : CapRead(k, c)' = CapRead(k, c) /\ HighCap(k, c)' = HighCap(k, c)
    BY DEF CapRead, HighCap
  <2>2. \A k \in Windows : pc'[c] \in CheckedAt(k) => Below(Window(k, c), CapRead(k, c))'
    BY <1>1, CheckStays DEF CapsInv, CallFitsCaps
  <2> QED
    BY <2>1, <2>2 DEF CapsInv, CallFitsCaps, AtMost
<1> QED
  BY <1>1, <1>2, <1>3, WindowsStay DEF CapsInv, QuietRows, HighestCovers

LEMMA CapsInitially == Init => CapsInv
<1> SUFFICES ASSUME Init PROVE CapsInv
  OBVIOUS
<1>1. Rows = {} /\ IsFiniteSet(Rows)
  BY FS_EmptySet DEF Init, Rows
<1>2. HighestCovers
  <2> SUFFICES ASSUME NEW t \in Tenants, budget[t].has
               PROVE  /\ AtMost(budget[t].daily, highest[t].daily)
                      /\ AtMost(budget[t].monthly, highest[t].monthly)
    BY DEF HighestCovers
  <2>1. highest[t].daily = budget[t].daily /\ highest[t].monthly = budget[t].monthly
    BY DEF Init, HighestOf
  <2>2. budget[t].daily \in Nat \cup {NoCap} /\ budget[t].monthly \in Nat \cup {NoCap}
    BY RowsInit DEF IndInv, TypeOK, Budgets, Caps
  <2> QED
    BY <2>1, <2>2, AtMostHigher
<1>3. \A c \in Calls : CallFitsCaps(c)
  BY DEF Init, CallFitsCaps, CheckedAt, Reserving
<1> QED
  BY <1>1, <1>2, <1>3 DEF CapsInv, WindowsHold

LEMMA CapsStep ==
  ASSUME IndInv, IndInv', CapsInv, [Next]_vars
  PROVE  CapsInv'
<1>0. TypeOK /\ TypeOK' /\ RowFollowsCall
  BY DEF IndInv
<1>1. ASSUME NEW c \in Calls, Begin(c) \/ CallStep(c) \/ ReservationError(c) PROVE CapsInv'
  BY <1>0, <1>1, ReserveStep, InsertStep, InvokeStep DEF CallStep
<1>2. CASE GatewayCrash
  BY <1>0, <1>2, CrashKeepsCaps
<1>3. ASSUME NEW t \in Tenants, SetTenantStatus(t) PROVE CapsInv'
  BY <1>0, <1>3, OtherKeepsCaps DEF SetTenantStatus, rowVars, callVars
<1>4. ASSUME NEW t \in Tenants, NEW d \in Caps, NEW m \in Caps, SetTenantAiBudget(t, d, m) PROVE CapsInv'
  BY <1>0, <1>4, BudgetKeepsCaps
<1>5. CASE Tick \/ UNCHANGED vars
  BY <1>0, <1>5, OtherKeepsCaps DEF Tick, vars, rowVars, callVars, adminVars
<1> QED
  BY <1>1, <1>2, <1>3, <1>4, <1>5 DEF Next, Administration

(* assertWithinBudget under the advisory lock: however many reservations   *)
(* run at once, in every day and month of a tenant's calendar and of UTC   *)
(* spend stays below the highest cap that was in force plus one call's     *)
(* estimate, apart from what providers charged beyond their estimates.     *)
THEOREM SpendStaysUnderCaps == Spec => []CapsHold
<1>1. CapsInv => CapsHold
  <2> SUFFICES ASSUME CapsInv PROVE CapsHold
    OBVIOUS
  <2>1. ASSUME NEW k \in Windows, NEW S \in SUBSET Rows, NEW cap,
               \A x \in S : S = Window(k, x) /\ cap = HighCap(k, x)
        PROVE  WithinOneCall(S, cap)
    BY <2>1 DEF CapsInv, WindowsHold, WithinOneCall
  <2>2. ASSUME NEW t \in Tenants, NEW c \in Calls
        PROVE  /\ WithinOneCall({x \in RowsOf(t) : Day(Local(t, at[x])) = Day(Local(t, at[c]))}, highest[t].daily)
               /\ WithinOneCall({x \in RowsOf(t) : Month(Local(t, at[x])) = Month(Local(t, at[c]))},
                                highest[t].monthly)
    <3> DEFINE D == {x \in RowsOf(t) : Day(Local(t, at[x])) = Day(Local(t, at[c]))}
               M == {x \in RowsOf(t) : Month(Local(t, at[x])) = Month(Local(t, at[c]))}
    <3>1. D \in SUBSET Rows /\ M \in SUBSET Rows
      BY DEF RowsOf
    <3>2. \A x \in D : D = Window("tenantDay", x) /\ highest[t].daily = HighCap("tenantDay", x)
      BY DEF RowsOf, Rows, Window, Together, HighCap
    <3>3. \A x \in M : M = Window("tenantMonth", x) /\ highest[t].monthly = HighCap("tenantMonth", x)
      BY DEF RowsOf, Rows, Window, Together, HighCap
    <3> HIDE DEF D, M
    <3>4. WithinOneCall(D, highest[t].daily) /\ WithinOneCall(M, highest[t].monthly)
      BY <2>1, <3>1, <3>2, <3>3 DEF Windows
    <3> QED
      BY <3>4 DEF D, M
  <2>3. ASSUME NEW c \in Calls
        PROVE  /\ WithinOneCall({x \in Rows : Day(at[x]) = Day(at[c])}, GlobalDaily)
               /\ WithinOneCall({x \in Rows : Month(at[x]) = Month(at[c])}, GlobalMonthly)
    <3> DEFINE D == {x \in Rows : Day(at[x]) = Day(at[c])}
               M == {x \in Rows : Month(at[x]) = Month(at[c])}
    <3>1. D \in SUBSET Rows /\ M \in SUBSET Rows
      OBVIOUS
    <3>2. \A x \in D : D = Window("day", x) /\ GlobalDaily = HighCap("day", x)
      BY DEF Window, Together, HighCap
    <3>3. \A x \in M : M = Window("month", x) /\ GlobalMonthly = HighCap("month", x)
      BY DEF Window, Together, HighCap
    <3> HIDE DEF D, M
    <3>4. WithinOneCall(D, GlobalDaily) /\ WithinOneCall(M, GlobalMonthly)
      BY <2>1, <3>1, <3>2, <3>3 DEF Windows
    <3> QED
      BY <3>4 DEF D, M
  <2> QED
    BY <2>2, <2>3 DEF CapsHold
<1>2. IndInv /\ IndInv' /\ CapsInv /\ [Next]_vars => CapsInv'
  BY CapsStep
<1> QED
  BY CapsInitially, LedgerInvariance, <1>1, <1>2, PTL DEF Spec
=============================================================================
