--------------------------- MODULE ServicesProofs ---------------------------
(***************************************************************************)
(* The connection pool with its tenant scope and callbacks (packages/data, *)
(* db/pool.ts), for any number of operations, tenants and connections; the *)
(* calls of the AI gateway (services/semprec-ai-gateway), for any number   *)
(* of requests, slots and database failures; and the other services of     *)
(* MCServices: the keyed job queue, the push fanout, the sync server's     *)
(* sockets and the review follow-ups. The last theorem puts the services   *)
(* together.                                                               *)
(*                                                                         *)
(* The pool's argument is the ownership of connections: an operation that  *)
(* is under way and the connection it uses name each other, and a          *)
(* connection nobody holds carries nothing. So what is set on a connection *)
(* was set by the operation that holds it now, and the step of that        *)
(* operation says what it is.                                              *)
(*                                                                         *)
(* The gateway's argument is one call at a time: the step of its handler   *)
(* says what its row, its answer and its connection can be, and the step   *)
(* of one call, or the shutdown, leaves the others as they fit.            *)
(*                                                                         *)
(* The queue's argument is the key: one row has it, and unless the newest  *)
(* change is accounted for, that row is available, or a worker has it and  *)
(* has read the newest change if any.                                      *)
(*                                                                         *)
(* The fanout's is what an attempt knows: without faults one worker runs   *)
(* the job, a push that was accepted is recorded or its answer is about to *)
(* be, and what is still to be sent to was not told.                       *)
(*                                                                         *)
(* The sync server's is where the news is: an open socket whose device     *)
(* lacks the newest version has it in its frame, or pending, or the event  *)
(* that tells it is still on its way.                                      *)
(*                                                                         *)
(* The follow-ups' are the marks: a finding is marked by one harvest       *)
(* issue, and drafted or rejected there once; what a triage run has still  *)
(* to create is what its ledger showed to be unpublished.                  *)
(***************************************************************************)
EXTENDS MCServices, WellFoundedInduction, FiniteSetTheorems, TLAPS

UnderWay(o) == use[o].at \notin {"start", "done"}

Settings == {TenantOf[o] : o \in PoolOps} \cup {Unscoped}
ConnectionStates == [holder : PoolOps \cup {NoOp}, open : BOOLEAN, session : Settings,
                     txn : {"none", "open", "aborted"}, local : Settings,
                     parked : SUBSET PoolOps, broken : BOOLEAN]
Uses == [at : {"start", "scope", "begin", "local", "work", "commit", "rollback", "release",
               "reset", "done"},
         conn : Connections \cup {0}, threw : BOOLEAN]

PoolTypes ==
    /\ poolConn \in [Connections -> ConnectionStates]
    /\ use \in [PoolOps -> Uses]
    /\ ran \in [PoolOps -> SUBSET Settings]
    /\ parkedBy \subseteq PoolOps /\ committedOps \subseteq PoolOps /\ fired \subseteq PoolOps

(* An operation under way and its connection name each other.              *)
Ownership ==
    /\ \A o \in PoolOps : UnderWay(o) => use[o].conn \in Connections /\ C(o).holder = o
    /\ \A c \in Connections : poolConn[c].holder # NoOp =>
         UnderWay(poolConn[c].holder) /\ use[poolConn[c].holder].conn = c

(* A connection nobody holds carries nothing.                              *)
NothingLeft(c) ==
    /\ poolConn[c].session = Unscoped /\ poolConn[c].txn = "none" /\ poolConn[c].local = Unscoped
    /\ poolConn[c].parked = {} /\ ~poolConn[c].broken

(* What the step of a transaction or a one-statement query says of its     *)
(* connection.                                                             *)
InTransaction(o) ==
    /\ use[o].at \in {"begin", "local", "work", "commit", "rollback", "release"}
    /\ C(o).session = Unscoped
    /\ C(o).parked \subseteq {o} /\ (KindOf[o] # "transaction" => C(o).parked = {})
    /\ use[o].at \notin {"commit", "rollback"} => C(o).parked = {}
    /\ use[o].at \in {"begin", "release"} /\ ~C(o).broken => C(o).txn = "none" /\ C(o).local = Unscoped
    /\ use[o].at \in {"local", "work"} => C(o).txn = "open"
    /\ use[o].at = "work" => C(o).local = TenantOf[o]
    /\ use[o].at = "commit" => /\ C(o).txn # "none"
                               /\ C(o).txn = "aborted" => o \in swallowed
                               /\ o \in parkedBy => o \in C(o).parked

(* And the step of a checkout with a session setting.                      *)
InSession(o) ==
    /\ use[o].at \in {"scope", "work", "release", "reset"}
    /\ C(o).txn = "none" /\ C(o).local = Unscoped /\ C(o).parked = {}
    /\ use[o].at = "scope" => C(o).session = Unscoped
    /\ use[o].at = "work" => C(o).session = TenantOf[o]

(* What has happened to an operation: only transactions park callbacks,    *)
(* nothing commits before its COMMIT, and the callback of a committed      *)
(* transaction has run unless the COMMIT was never answered.               *)
Happened(o) ==
    /\ ran[o] \subseteq {TenantOf[o]}
    /\ o \in parkedBy => KindOf[o] = "transaction"
    /\ use[o].at \in {"start", "scope", "begin", "local", "work"} => o \notin committedOps
    /\ o \in parkedBy \cap committedOps => o \in fired \cup unanswered
    /\ o \in fired => o \in committedOps \cup swallowed

Agrees(o) ==
    /\ UnderWay(o) => IF Scoped(o) THEN InTransaction(o) ELSE InSession(o)
    /\ Happened(o)

PoolInv ==
    /\ PoolTypes /\ Ownership
    /\ \A c \in Connections : poolConn[c].holder = NoOp => NothingLeft(c)
    /\ \A o \in PoolOps : Agrees(o)

-----------------------------------------------------------------------------
(* The pool starts with no connection in use.                              *)
LEMMA PoolStart == ConnInit => PoolInv
  BY ConnectionAssumption
  DEF ConnInit, PoolInv, PoolTypes, Ownership, UnderWay, NothingLeft, Agrees, Happened,
      ConnectionStates, Uses, Settings, Closed, Connections, Unscoped

(* What every step of an operation has in common: it writes its own row of *)
(* use and its own connection, and the history of nobody else.             *)
OthersUntouched(o) ==
    /\ \A p \in PoolOps \ {o} :
         /\ ran'[p] = ran[p]
         /\ p \in parkedBy' <=> p \in parkedBy
         /\ p \in committedOps' <=> p \in committedOps
         /\ p \in fired' <=> p \in fired
         /\ p \in unanswered' <=> p \in unanswered
         /\ p \in swallowed' <=> p \in swallowed
    /\ ran' \in [PoolOps -> SUBSET Settings]
    /\ parkedBy' \cup committedOps' \cup fired' \subseteq PoolOps

(* A step of an operation that leaves the operation and its connection in  *)
(* agreement keeps the invariant: nobody else owns what it writes.         *)
LEMMA OwnStep ==
  ASSUME PoolInv, NEW o \in PoolOps, NEW k \in Connections,
         NEW new \in ConnectionStates, NEW u \in Uses,
         poolConn' = [poolConn EXCEPT ![k] = new], use' = [use EXCEPT ![o] = u],
         OthersUntouched(o),
         \/ use[o].at = "start" /\ poolConn[k].holder = NoOp
         \/ UnderWay(o) /\ use[o].conn = k,
         \/ u.at \notin {"start", "done"} /\ u.conn = k /\ new.holder = o
         \/ u.at = "done" /\ new.holder = NoOp /\ NothingLeft(k)',
         Agrees(o)'
  PROVE  PoolInv'
<1> USE ConnectionAssumption
<1>1. poolConn' \in [Connections -> ConnectionStates] /\ use' \in [PoolOps -> Uses]
  BY DEF PoolInv, PoolTypes
<1>2. /\ \A d \in Connections \ {k} : poolConn'[d] = poolConn[d]
      /\ \A p \in PoolOps \ {o} : use'[p] = use[p]
      /\ poolConn'[k] = new /\ use'[o] = u
  BY DEF PoolInv, PoolTypes
<1>3. PoolTypes'
  BY <1>1 DEF PoolTypes, OthersUntouched, PoolInv, Connections, Settings
<1>4. \A p \in PoolOps \ {o} : UnderWay(p) => use[p].conn \in Connections \ {k}
  BY DEF PoolInv, Ownership, C
<1>5. Ownership'
  BY <1>2, <1>4 DEF PoolInv, PoolTypes, Ownership, UnderWay, C, ConnectionStates, Connections
<1>6. \A c \in Connections : (poolConn[c].holder = NoOp)' => NothingLeft(c)'
  BY <1>2 DEF PoolInv, NothingLeft, Connections
<1>7. ASSUME NEW p \in PoolOps \ {o} PROVE Agrees(p)'
  <2>1. Agrees(p) /\ UnderWay(p)' = UnderWay(p)
    BY <1>2 DEF PoolInv, UnderWay
  <2>2. UnderWay(p) => C(p)' = C(p)
    BY <1>2, <1>4 DEF C
  <2> QED
    BY <1>2, <2>1, <2>2 DEF Agrees, InTransaction, InSession, Happened, OthersUntouched, Scoped
<1> QED
  BY <1>3, <1>5, <1>6, <1>7 DEF PoolInv, Connections

(* What the invariant says of the connection of an operation under way.    *)
LEMMA Held ==
  ASSUME PoolInv, NEW o \in PoolOps, UnderWay(o)
  PROVE  /\ use[o].conn \in Connections /\ C(o) \in ConnectionStates /\ use[o] \in Uses
         /\ C(o).holder = o /\ C(o) = poolConn[use[o].conn]
  BY DEF PoolInv, PoolTypes, Ownership, C

(* The settings an operation can leave on a connection.                    *)
LEMMA Values == Unscoped \in Settings /\ \A o \in PoolOps : TenantOf[o] \in Settings
  BY DEF Settings

(* checkoutWithSession sets the tenant of the session.                     *)
LEMMA SetSessionStep ==
  ASSUME PoolInv, NEW o \in PoolOps, SetSession(o)
  PROVE  PoolInv'
<1>1. /\ UnderWay(o) /\ use[o].conn \in Connections /\ C(o) \in ConnectionStates
      /\ use[o] \in Uses /\ C(o).holder = o /\ C(o) = poolConn[use[o].conn]
  BY Held DEF SetSession, UnderWay
<1>2. PICK k \in Connections : k = use[o].conn
  BY <1>1
<1>3. PICK new \in ConnectionStates : new = [C(o) EXCEPT !.session = TenantOf[o]]
  BY <1>1, Values DEF SetSession, ConnectionStates, Uses
<1>4. PICK u \in Uses : u = [use[o] EXCEPT !.at = "work"]
  BY <1>1 DEF SetSession, Uses
<1>5. /\ poolConn' = [poolConn EXCEPT ![k] = new] /\ use' = [use EXCEPT ![o] = u]
      /\ use'[o] = u /\ C(o)' = new /\ poolConn'[k] = new /\ u.conn = k
  <2>1. poolConn' = [poolConn EXCEPT ![k] = new] /\ use' = [use EXCEPT ![o] = u]
    BY <1>1, <1>2, <1>3, <1>4 DEF SetSession, Sets, Steps, Throws, PoolInv, PoolTypes
  <2>2. u.conn = k
    BY <1>1, <1>2, <1>4 DEF Uses
  <2> QED
    BY <2>1, <2>2 DEF PoolInv, PoolTypes, C
<1>6. /\ IF Scoped(o) THEN InTransaction(o) ELSE InSession(o)
      /\ Happened(o)
  BY <1>1 DEF PoolInv, Agrees
<1>7. OthersUntouched(o)
  BY <1>1, <1>6 DEF InTransaction, InSession, SetSession, OthersUntouched, opHistory, PoolInv, PoolTypes
<1>8. Agrees(o)'
  <2>1. (UnderWay(o) => IF Scoped(o) THEN InTransaction(o) ELSE InSession(o))'
    BY <1>1, <1>3, <1>4, <1>5, <1>6 DEF SetSession, InTransaction, InSession, opHistory,
       Scoped, ConnectionStates, Uses
  <2>2. Happened(o)'
    BY <1>1, <1>3, <1>4, <1>5, <1>6 DEF SetSession, InTransaction, InSession, Happened,
       opHistory, Scoped, ConnectionStates, Uses, PoolInv, PoolTypes
  <2> QED
    BY <2>1, <2>2 DEF Agrees
<1>9. \/ u.at \notin {"start", "done"} /\ u.conn = k /\ new.holder = o
      \/ u.at = "done" /\ new.holder = NoOp /\ NothingLeft(k)'
  BY <1>1, <1>3, <1>4, <1>5, <1>6 DEF InTransaction, InSession, ConnectionStates, Uses
<1> QED
  BY <1>1, <1>2, <1>5, <1>7, <1>8, <1>9, OwnStep

(* BEGIN.                                                                  *)
LEMMA BeginStep ==
  ASSUME PoolInv, NEW o \in PoolOps, Begin(o)
  PROVE  PoolInv'
<1>1. /\ UnderWay(o) /\ use[o].conn \in Connections /\ C(o) \in ConnectionStates
      /\ use[o] \in Uses /\ C(o).holder = o /\ C(o) = poolConn[use[o].conn]
  BY Held DEF Begin, UnderWay
<1>2. PICK k \in Connections : k = use[o].conn
  BY <1>1
<1>3. PICK new \in ConnectionStates : new = [C(o) EXCEPT !.txn = "open", !.local = Unscoped]
  BY <1>1, Values DEF Begin, ConnectionStates, Uses
<1>4. PICK u \in Uses : u = [use[o] EXCEPT !.at = "local"]
  BY <1>1 DEF Begin, Uses
<1>5. /\ poolConn' = [poolConn EXCEPT ![k] = new] /\ use' = [use EXCEPT ![o] = u]
      /\ use'[o] = u /\ C(o)' = new /\ poolConn'[k] = new /\ u.conn = k
  <2>1. poolConn' = [poolConn EXCEPT ![k] = new] /\ use' = [use EXCEPT ![o] = u]
    BY <1>1, <1>2, <1>3, <1>4 DEF Begin, Sets, Steps, Throws, PoolInv, PoolTypes
  <2>2. u.conn = k
    BY <1>1, <1>2, <1>4 DEF Uses
  <2> QED
    BY <2>1, <2>2 DEF PoolInv, PoolTypes, C
<1>6. /\ IF Scoped(o) THEN InTransaction(o) ELSE InSession(o)
      /\ Happened(o)
  BY <1>1 DEF PoolInv, Agrees
<1>7. OthersUntouched(o)
  BY <1>1, <1>6 DEF InTransaction, InSession, Begin, OthersUntouched, opHistory, PoolInv, PoolTypes
<1>8. Agrees(o)'
  <2>1. (UnderWay(o) => IF Scoped(o) THEN InTransaction(o) ELSE InSession(o))'
    BY <1>1, <1>3, <1>4, <1>5, <1>6 DEF Begin, InTransaction, InSession, opHistory,
       Scoped, ConnectionStates, Uses
  <2>2. Happened(o)'
    BY <1>1, <1>3, <1>4, <1>5, <1>6 DEF Begin, InTransaction, InSession, Happened,
       opHistory, Scoped, ConnectionStates, Uses, PoolInv, PoolTypes
  <2> QED
    BY <2>1, <2>2 DEF Agrees
<1>9. \/ u.at \notin {"start", "done"} /\ u.conn = k /\ new.holder = o
      \/ u.at = "done" /\ new.holder = NoOp /\ NothingLeft(k)'
  BY <1>1, <1>3, <1>4, <1>5, <1>6 DEF InTransaction, InSession, ConnectionStates, Uses
<1> QED
  BY <1>1, <1>2, <1>5, <1>7, <1>8, <1>9, OwnStep

(* The tenant of the transaction is set.                                   *)
LEMMA SetLocalStep ==
  ASSUME PoolInv, NEW o \in PoolOps, SetLocal(o)
  PROVE  PoolInv'
<1>1. /\ UnderWay(o) /\ use[o].conn \in Connections /\ C(o) \in ConnectionStates
      /\ use[o] \in Uses /\ C(o).holder = o /\ C(o) = poolConn[use[o].conn]
  BY Held DEF SetLocal, UnderWay
<1>2. PICK k \in Connections : k = use[o].conn
  BY <1>1
<1>3. PICK new \in ConnectionStates : new = [C(o) EXCEPT !.local = TenantOf[o]]
  BY <1>1, Values DEF SetLocal, ConnectionStates, Uses
<1>4. PICK u \in Uses : u = [use[o] EXCEPT !.at = "work"]
  BY <1>1 DEF SetLocal, Uses
<1>5. /\ poolConn' = [poolConn EXCEPT ![k] = new] /\ use' = [use EXCEPT ![o] = u]
      /\ use'[o] = u /\ C(o)' = new /\ poolConn'[k] = new /\ u.conn = k
  <2>1. poolConn' = [poolConn EXCEPT ![k] = new] /\ use' = [use EXCEPT ![o] = u]
    BY <1>1, <1>2, <1>3, <1>4 DEF SetLocal, Sets, Steps, Throws, PoolInv, PoolTypes
  <2>2. u.conn = k
    BY <1>1, <1>2, <1>4 DEF Uses
  <2> QED
    BY <2>1, <2>2 DEF PoolInv, PoolTypes, C
<1>6. /\ IF Scoped(o) THEN InTransaction(o) ELSE InSession(o)
      /\ Happened(o)
  BY <1>1 DEF PoolInv, Agrees
<1>7. OthersUntouched(o)
  BY <1>1, <1>6 DEF InTransaction, InSession, SetLocal, OthersUntouched, opHistory, PoolInv, PoolTypes
<1>8. Agrees(o)'
  <2>1. (UnderWay(o) => IF Scoped(o) THEN InTransaction(o) ELSE InSession(o))'
    BY <1>1, <1>3, <1>4, <1>5, <1>6 DEF SetLocal, InTransaction, InSession, opHistory,
       Scoped, ConnectionStates, Uses
  <2>2. Happened(o)'
    BY <1>1, <1>3, <1>4, <1>5, <1>6 DEF SetLocal, InTransaction, InSession, Happened,
       opHistory, Scoped, ConnectionStates, Uses, PoolInv, PoolTypes
  <2> QED
    BY <2>1, <2>2 DEF Agrees
<1>9. \/ u.at \notin {"start", "done"} /\ u.conn = k /\ new.holder = o
      \/ u.at = "done" /\ new.holder = NoOp /\ NothingLeft(k)'
  BY <1>1, <1>3, <1>4, <1>5, <1>6 DEF InTransaction, InSession, ConnectionStates, Uses
<1> QED
  BY <1>1, <1>2, <1>5, <1>7, <1>8, <1>9, OwnStep

(* COMMIT, which fires the parked callbacks.                               *)
LEMMA CommitStep ==
  ASSUME PoolInv, NEW o \in PoolOps, Commit(o)
  PROVE  PoolInv'
<1>1. /\ UnderWay(o) /\ use[o].conn \in Connections /\ C(o) \in ConnectionStates
      /\ use[o] \in Uses /\ C(o).holder = o /\ C(o) = poolConn[use[o].conn]
  BY Held DEF Commit, UnderWay
<1>2. PICK k \in Connections : k = use[o].conn
  BY <1>1
<1>3. PICK new \in ConnectionStates : new = [C(o) EXCEPT !.txn = "none", !.local = Unscoped,
                             !.parked = IF KindOf[o] = "transaction" THEN {} ELSE @]
  BY <1>1, Values DEF Commit, ConnectionStates, Uses
<1>4. PICK u \in Uses : u = [use[o] EXCEPT !.at = "release"]
  BY <1>1 DEF Commit, Uses
<1>5. /\ poolConn' = [poolConn EXCEPT ![k] = new] /\ use' = [use EXCEPT ![o] = u]
      /\ use'[o] = u /\ C(o)' = new /\ poolConn'[k] = new /\ u.conn = k
  <2>1. poolConn' = [poolConn EXCEPT ![k] = new] /\ use' = [use EXCEPT ![o] = u]
    BY <1>1, <1>2, <1>3, <1>4 DEF Commit, Sets, Steps, Throws, PoolInv, PoolTypes
  <2>2. u.conn = k
    BY <1>1, <1>2, <1>4 DEF Uses
  <2> QED
    BY <2>1, <2>2 DEF PoolInv, PoolTypes, C
<1>6. /\ IF Scoped(o) THEN InTransaction(o) ELSE InSession(o)
      /\ Happened(o)
  BY <1>1 DEF PoolInv, Agrees
<1>7. OthersUntouched(o)
  BY <1>1, <1>6 DEF InTransaction, InSession, Commit, OthersUntouched, opHistory, PoolInv, PoolTypes
<1>8. Agrees(o)'
  <2>1. (UnderWay(o) => IF Scoped(o) THEN InTransaction(o) ELSE InSession(o))'
    <3>1. Scoped(o) /\ u.at = "release"
      BY <1>1, <1>4, <1>6 DEF Commit, InSession, Uses
    <3>2. new.txn = "none" /\ new.local = Unscoped /\ new.session = C(o).session
      BY <1>1, <1>3 DEF ConnectionStates
    <3>3. new.parked = IF KindOf[o] = "transaction" THEN {} ELSE C(o).parked
      BY <1>1, <1>3 DEF ConnectionStates
    <3>4. new.session = Unscoped /\ new.parked = {}
      BY <1>6, <3>1, <3>2, <3>3 DEF InTransaction
    <3>5. use'[o] = u /\ C(o)' = new
      BY <1>5
    <3>6. InTransaction(o)'
      BY <3>1, <3>2, <3>4, <3>5 DEF InTransaction
    <3> QED
      BY <3>1, <3>6 DEF Scoped
  <2>2. Happened(o)'
    BY <1>1, <1>3, <1>4, <1>5, <1>6 DEF Commit, InTransaction, InSession, Happened,
       opHistory, Scoped, ConnectionStates, Uses, PoolInv, PoolTypes
  <2> QED
    BY <2>1, <2>2 DEF Agrees
<1>9. \/ u.at \notin {"start", "done"} /\ u.conn = k /\ new.holder = o
      \/ u.at = "done" /\ new.holder = NoOp /\ NothingLeft(k)'
  BY <1>1, <1>3, <1>4, <1>5, <1>6 DEF InTransaction, InSession, ConnectionStates, Uses
<1> QED
  BY <1>1, <1>2, <1>5, <1>7, <1>8, <1>9, OwnStep

(* ROLLBACK, which discards them.                                          *)
LEMMA RollbackStep ==
  ASSUME PoolInv, NEW o \in PoolOps, Rollback(o)
  PROVE  PoolInv'
<1>1. /\ UnderWay(o) /\ use[o].conn \in Connections /\ C(o) \in ConnectionStates
      /\ use[o] \in Uses /\ C(o).holder = o /\ C(o) = poolConn[use[o].conn]
  BY Held DEF Rollback, UnderWay
<1>2. PICK k \in Connections : k = use[o].conn
  BY <1>1
<1>3. PICK new \in ConnectionStates : new = IF C(o).broken THEN [C(o) EXCEPT !.parked = {}]
                  ELSE [C(o) EXCEPT !.txn = "none", !.local = Unscoped, !.parked = {}]
  BY <1>1, Values DEF Rollback, ConnectionStates, Uses, Discarded
<1>4. PICK u \in Uses : u = [use[o] EXCEPT !.at = "release"]
  BY <1>1 DEF Rollback, Uses, Discarded
<1>5. /\ poolConn' = [poolConn EXCEPT ![k] = new] /\ use' = [use EXCEPT ![o] = u]
      /\ use'[o] = u /\ C(o)' = new /\ poolConn'[k] = new /\ u.conn = k
  <2>1. poolConn' = [poolConn EXCEPT ![k] = new] /\ use' = [use EXCEPT ![o] = u]
    BY <1>1, <1>2, <1>3, <1>4 DEF Rollback, Sets, Steps, Throws, PoolInv, PoolTypes, Discarded
  <2>2. u.conn = k
    BY <1>1, <1>2, <1>4 DEF Uses, Discarded
  <2> QED
    BY <2>1, <2>2 DEF PoolInv, PoolTypes, C
<1>6. /\ IF Scoped(o) THEN InTransaction(o) ELSE InSession(o)
      /\ Happened(o)
  BY <1>1 DEF PoolInv, Agrees
<1>7. OthersUntouched(o)
  BY <1>1, <1>6 DEF InTransaction, InSession, Rollback, Discarded, OthersUntouched,
     opHistory, PoolInv, PoolTypes
<1>8. Agrees(o)'
  <2>1. (UnderWay(o) => IF Scoped(o) THEN InTransaction(o) ELSE InSession(o))'
    <3>1. Scoped(o) /\ u.at = "release"
      BY <1>1, <1>4, <1>6 DEF Rollback, InSession, Uses
    <3>2. /\ new.session = C(o).session /\ new.parked = {} /\ new.broken = C(o).broken
          /\ ~new.broken => new.txn = "none" /\ new.local = Unscoped
      BY <1>1, <1>3 DEF ConnectionStates
    <3>3. C(o).session = Unscoped
      BY <1>6, <3>1 DEF InTransaction
    <3>4. use'[o] = u /\ C(o)' = new
      BY <1>5
    <3>5. InTransaction(o)'
      BY <3>1, <3>2, <3>3, <3>4 DEF InTransaction
    <3> QED
      BY <3>1, <3>5 DEF Scoped
  <2>2. Happened(o)'
    BY <1>1, <1>3, <1>4, <1>5, <1>6 DEF Rollback, InTransaction, InSession, Happened,
       opHistory, Scoped, ConnectionStates, Uses, PoolInv, PoolTypes, Discarded
  <2> QED
    BY <2>1, <2>2 DEF Agrees
<1>9. \/ u.at \notin {"start", "done"} /\ u.conn = k /\ new.holder = o
      \/ u.at = "done" /\ new.holder = NoOp /\ NothingLeft(k)'
  BY <1>1, <1>3, <1>4, <1>5, <1>6 DEF InTransaction, InSession, ConnectionStates, Uses
<1> QED
  BY <1>1, <1>2, <1>5, <1>7, <1>8, <1>9, OwnStep

(* The finally of a checkout resets the session.                           *)
LEMMA ResetSessionStep ==
  ASSUME PoolInv, NEW o \in PoolOps, ResetSession(o)
  PROVE  PoolInv'
<1>1. /\ UnderWay(o) /\ use[o].conn \in Connections /\ C(o) \in ConnectionStates
      /\ use[o] \in Uses /\ C(o).holder = o /\ C(o) = poolConn[use[o].conn]
  BY Held DEF ResetSession, UnderWay
<1>2. PICK k \in Connections : k = use[o].conn
  BY <1>1
<1>3. PICK new \in ConnectionStates : new = IF C(o).broken THEN Closed ELSE [C(o) EXCEPT !.session = Unscoped, !.holder = NoOp]
  BY <1>1, Values DEF ResetSession, ConnectionStates, Uses, Closed
<1>4. PICK u \in Uses : u = [use[o] EXCEPT !.at = "done"]
  BY <1>1 DEF ResetSession, Uses, Closed
<1>5. /\ poolConn' = [poolConn EXCEPT ![k] = new] /\ use' = [use EXCEPT ![o] = u]
      /\ use'[o] = u /\ C(o)' = new /\ poolConn'[k] = new /\ u.conn = k
  <2>1. poolConn' = [poolConn EXCEPT ![k] = new] /\ use' = [use EXCEPT ![o] = u]
    BY <1>1, <1>2, <1>3, <1>4 DEF ResetSession, Sets, Steps, Throws, PoolInv, PoolTypes, Closed
  <2>2. u.conn = k
    BY <1>1, <1>2, <1>4 DEF Uses, Closed
  <2> QED
    BY <2>1, <2>2 DEF PoolInv, PoolTypes, C
<1>6. /\ IF Scoped(o) THEN InTransaction(o) ELSE InSession(o)
      /\ Happened(o)
  BY <1>1 DEF PoolInv, Agrees
<1>7. OthersUntouched(o)
  BY <1>1, <1>6 DEF InTransaction, InSession, ResetSession, OthersUntouched, opHistory, PoolInv, PoolTypes, Closed
<1>8. Agrees(o)'
  <2>1. (UnderWay(o) => IF Scoped(o) THEN InTransaction(o) ELSE InSession(o))'
    BY <1>1, <1>3, <1>4, <1>5, <1>6 DEF ResetSession, UnderWay, InTransaction, InSession, Happened,
       opHistory, Scoped, ConnectionStates, Uses, Closed
  <2>2. Happened(o)'
    BY <1>1, <1>3, <1>4, <1>5, <1>6 DEF ResetSession, InTransaction, InSession, Happened,
       opHistory, Scoped, ConnectionStates, Uses, PoolInv, PoolTypes, Closed
  <2> QED
    BY <2>1, <2>2 DEF Agrees
<1>9. \/ u.at \notin {"start", "done"} /\ u.conn = k /\ new.holder = o
      \/ u.at = "done" /\ new.holder = NoOp /\ NothingLeft(k)'
  <2>1. u.at = "done" /\ InSession(o)
    BY <1>1, <1>4, <1>6 DEF ResetSession, InTransaction, Uses
  <2>2. CASE C(o).broken
    BY <1>3, <1>5, <2>1, <2>2 DEF Closed, NothingLeft
  <2>3. CASE ~C(o).broken
    <3>1. new = [C(o) EXCEPT !.session = Unscoped, !.holder = NoOp]
      BY <1>3, <2>3
    <3>2. /\ new.holder = NoOp /\ new.session = Unscoped /\ new.txn = C(o).txn
          /\ new.local = C(o).local /\ new.parked = C(o).parked /\ new.broken = C(o).broken
      BY <1>1, <3>1 DEF ConnectionStates
    <3> QED
      BY <1>5, <2>1, <2>3, <3>2 DEF NothingLeft, InSession
  <2> QED
    BY <2>2, <2>3
<1> QED
  BY <1>1, <1>2, <1>5, <1>7, <1>8, <1>9, OwnStep

(* A connection breaks while it is held.                                   *)
LEMMA BreaksStep ==
  ASSUME PoolInv, NEW o \in PoolOps, Breaks(o)
  PROVE  PoolInv'
<1>1. /\ UnderWay(o) /\ use[o].conn \in Connections /\ C(o) \in ConnectionStates
      /\ use[o] \in Uses /\ C(o).holder = o /\ C(o) = poolConn[use[o].conn]
  BY Held DEF Breaks, UnderWay
<1>2. PICK k \in Connections : k = use[o].conn
  BY <1>1
<1>3. PICK new \in ConnectionStates : new = [C(o) EXCEPT !.broken = TRUE]
  BY <1>1, Values DEF Breaks, ConnectionStates, Uses
<1>4. PICK u \in Uses : u = use[o]
  BY <1>1 DEF Breaks, Uses
<1>5. /\ poolConn' = [poolConn EXCEPT ![k] = new] /\ use' = [use EXCEPT ![o] = u]
      /\ use'[o] = u /\ C(o)' = new /\ poolConn'[k] = new /\ u.conn = k
  <2>1. poolConn' = [poolConn EXCEPT ![k] = new] /\ use' = [use EXCEPT ![o] = u]
    BY <1>1, <1>2, <1>3, <1>4 DEF Breaks, Sets, Steps, Throws, PoolInv, PoolTypes
  <2>2. u.conn = k
    BY <1>1, <1>2, <1>4 DEF Uses
  <2> QED
    BY <2>1, <2>2 DEF PoolInv, PoolTypes, C
<1>6. /\ IF Scoped(o) THEN InTransaction(o) ELSE InSession(o)
      /\ Happened(o)
  BY <1>1 DEF PoolInv, Agrees
<1>7. OthersUntouched(o)
  BY <1>1, <1>6 DEF InTransaction, InSession, Breaks, OthersUntouched, opHistory, PoolInv, PoolTypes
<1>8. Agrees(o)'
  <2>1. (UnderWay(o) => IF Scoped(o) THEN InTransaction(o) ELSE InSession(o))'
    BY <1>1, <1>3, <1>4, <1>5, <1>6 DEF Breaks, InTransaction, InSession, opHistory,
       Scoped, ConnectionStates, Uses
  <2>2. Happened(o)'
    BY <1>1, <1>3, <1>4, <1>5, <1>6 DEF Breaks, InTransaction, InSession, Happened,
       opHistory, Scoped, ConnectionStates, Uses, PoolInv, PoolTypes
  <2> QED
    BY <2>1, <2>2 DEF Agrees
<1>9. \/ u.at \notin {"start", "done"} /\ u.conn = k /\ new.holder = o
      \/ u.at = "done" /\ new.holder = NoOp /\ NothingLeft(k)'
  BY <1>1, <1>3, <1>4, <1>5, <1>6 DEF InTransaction, InSession, ConnectionStates, Uses
<1> QED
  BY <1>1, <1>2, <1>5, <1>7, <1>8, <1>9, OwnStep

(* The statements run under the setting of the operation.                  *)
LEMMA WorkStep ==
  ASSUME PoolInv, NEW o \in PoolOps, Work(o)
  PROVE  PoolInv'
<1>1. /\ UnderWay(o) /\ use[o].conn \in Connections /\ C(o) \in ConnectionStates
      /\ use[o] \in Uses /\ C(o).holder = o /\ C(o) = poolConn[use[o].conn]
  BY Held DEF Work, UnderWay
<1>2. PICK k \in Connections : k = use[o].conn
  BY <1>1
<1>3. PICK new \in ConnectionStates : new = IF KindOf[o] = "transaction" THEN [C(o) EXCEPT !.parked = @ \cup {o}] ELSE C(o)
  BY <1>1, Values DEF Work, ConnectionStates, Uses, Effective
<1>4. PICK u \in Uses : u = [use[o] EXCEPT !.at = IF Scoped(o) THEN "commit" ELSE "release"]
  BY <1>1 DEF Work, Uses, Effective
<1>5. /\ poolConn' = [poolConn EXCEPT ![k] = new] /\ use' = [use EXCEPT ![o] = u]
      /\ use'[o] = u /\ C(o)' = new /\ poolConn'[k] = new /\ u.conn = k
  <2>1. poolConn' = [poolConn EXCEPT ![k] = new] /\ use' = [use EXCEPT ![o] = u]
    BY <1>1, <1>2, <1>3, <1>4 DEF Work, Sets, Steps, Throws, PoolInv, PoolTypes, Effective
  <2>2. u.conn = k
    BY <1>1, <1>2, <1>4 DEF Uses, Effective
  <2> QED
    BY <2>1, <2>2 DEF PoolInv, PoolTypes, C
<1>6. /\ IF Scoped(o) THEN InTransaction(o) ELSE InSession(o)
      /\ Happened(o)
  BY <1>1 DEF PoolInv, Agrees
<1>7. OthersUntouched(o)
  BY <1>1, <1>6 DEF InTransaction, InSession, Work, Effective, OthersUntouched, opHistory,
     PoolInv, PoolTypes, ConnectionStates, Settings
<1>8. Agrees(o)'
  <2>1. (UnderWay(o) => IF Scoped(o) THEN InTransaction(o) ELSE InSession(o))'
    <3>1. use'[o] = u /\ C(o)' = new /\ swallowed' = swallowed
      BY <1>5 DEF Work
    <3>2. CASE Scoped(o)
      <4>1. u.at = "commit"
        BY <1>1, <1>4, <3>2 DEF Uses
      <4>2. /\ C(o).session = Unscoped /\ C(o).txn = "open" /\ C(o).parked = {}
        BY <1>6, <3>2 DEF Work, InTransaction
      <4>3. /\ new.session = Unscoped /\ new.txn = "open"
            /\ new.parked = IF KindOf[o] = "transaction" THEN {o} ELSE {}
        BY <1>1, <1>3, <4>2 DEF ConnectionStates
      <4>4. o \in parkedBy' => KindOf[o] = "transaction"
        BY <1>6 DEF Work, Happened
      <4>5. InTransaction(o)'
        BY <3>1, <4>1, <4>3, <4>4 DEF InTransaction
      <4> QED
        BY <3>2, <4>5 DEF Scoped
    <3>3. CASE ~Scoped(o)
      <4>1. u.at = "release" /\ new = C(o)
        BY <1>1, <1>3, <1>4, <3>3 DEF Uses, Scoped
      <4>2. C(o).txn = "none" /\ C(o).local = Unscoped /\ C(o).parked = {}
        BY <1>6, <3>3 DEF InSession
      <4>3. InSession(o)'
        BY <3>1, <4>1, <4>2 DEF InSession
      <4> QED
        BY <3>3, <4>3 DEF Scoped
    <3> QED
      BY <3>2, <3>3
  <2>2. Happened(o)'
    BY <1>1, <1>3, <1>4, <1>5, <1>6 DEF Work, InTransaction, InSession, Happened,
       opHistory, Scoped, ConnectionStates, Uses, PoolInv, PoolTypes, Effective
  <2> QED
    BY <2>1, <2>2 DEF Agrees
<1>9. \/ u.at \notin {"start", "done"} /\ u.conn = k /\ new.holder = o
      \/ u.at = "done" /\ new.holder = NoOp /\ NothingLeft(k)'
  BY <1>1, <1>3, <1>4, <1>5, <1>6 DEF InTransaction, InSession, ConnectionStates, Uses
<1> QED
  BY <1>1, <1>2, <1>5, <1>7, <1>8, <1>9, OwnStep

(* A failed statement whose error the operation throws.                    *)
LEMMA StatementThrowsStep ==
  ASSUME PoolInv, NEW o \in PoolOps, StatementFails(o),
         Throws(o, IF Scoped(o) THEN "rollback" ELSE "release"), UNCHANGED swallowed
  PROVE  PoolInv'
<1>1. /\ UnderWay(o) /\ use[o].conn \in Connections /\ C(o) \in ConnectionStates
      /\ use[o] \in Uses /\ C(o).holder = o /\ C(o) = poolConn[use[o].conn]
  BY Held DEF StatementFails, UnderWay
<1>2. PICK k \in Connections : k = use[o].conn
  BY <1>1
<1>3. PICK new \in ConnectionStates : new = [C(o) EXCEPT !.txn = IF @ = "open" THEN "aborted" ELSE @]
  BY <1>1, Values DEF StatementFails, ConnectionStates, Uses
<1>4. PICK u \in Uses : u = [use[o] EXCEPT !.at = IF Scoped(o) THEN "rollback" ELSE "release", !.threw = TRUE]
  BY <1>1 DEF StatementFails, Uses
<1>5. /\ poolConn' = [poolConn EXCEPT ![k] = new] /\ use' = [use EXCEPT ![o] = u]
      /\ use'[o] = u /\ C(o)' = new /\ poolConn'[k] = new /\ u.conn = k
  <2>1. poolConn' = [poolConn EXCEPT ![k] = new] /\ use' = [use EXCEPT ![o] = u]
    BY <1>1, <1>2, <1>3, <1>4 DEF StatementFails, Sets, Steps, Throws, PoolInv, PoolTypes
  <2>2. u.conn = k
    BY <1>1, <1>2, <1>4 DEF Uses
  <2> QED
    BY <2>1, <2>2 DEF PoolInv, PoolTypes, C
<1>6. /\ IF Scoped(o) THEN InTransaction(o) ELSE InSession(o)
      /\ Happened(o)
  BY <1>1 DEF PoolInv, Agrees
<1>7. OthersUntouched(o)
  BY <1>1, <1>6 DEF InTransaction, InSession, StatementFails, OthersUntouched, opHistory, PoolInv, PoolTypes
<1>8. Agrees(o)'
  <2>1. (UnderWay(o) => IF Scoped(o) THEN InTransaction(o) ELSE InSession(o))'
    <3>1. /\ new.session = C(o).session /\ new.local = C(o).local /\ new.parked = C(o).parked
          /\ new.txn = IF C(o).txn = "open" THEN "aborted" ELSE C(o).txn
          /\ u.at = IF Scoped(o) THEN "rollback" ELSE "release"
      BY <1>1, <1>3, <1>4 DEF ConnectionStates, Uses
    <3>2. CASE Scoped(o)
      BY <1>5, <1>6, <3>1, <3>2 DEF InTransaction, Scoped
    <3>3. CASE ~Scoped(o)
      BY <1>5, <1>6, <3>1, <3>3 DEF InSession, Scoped
    <3> QED
      BY <3>2, <3>3
  <2>2. Happened(o)'
    BY <1>1, <1>3, <1>4, <1>5, <1>6 DEF StatementFails, InTransaction, InSession, Happened,
       opHistory, Scoped, ConnectionStates, Uses, PoolInv, PoolTypes
  <2> QED
    BY <2>1, <2>2 DEF Agrees
<1>9. \/ u.at \notin {"start", "done"} /\ u.conn = k /\ new.holder = o
      \/ u.at = "done" /\ new.holder = NoOp /\ NothingLeft(k)'
  BY <1>1, <1>3, <1>4, <1>5, <1>6 DEF InTransaction, InSession, ConnectionStates, Uses
<1> QED
  BY <1>1, <1>2, <1>5, <1>7, <1>8, <1>9, OwnStep

(* A failed statement whose error a transaction catches.                   *)
LEMMA StatementIsCaughtStep ==
  ASSUME PoolInv, NEW o \in PoolOps, StatementFails(o),
         KindOf[o] = "transaction", use[o].at = "commit",
         swallowed' = swallowed \cup {o}, UNCHANGED use
  PROVE  PoolInv'
<1>1. /\ UnderWay(o) /\ use[o].conn \in Connections /\ C(o) \in ConnectionStates
      /\ use[o] \in Uses /\ C(o).holder = o /\ C(o) = poolConn[use[o].conn]
  BY Held DEF StatementFails, UnderWay
<1>2. PICK k \in Connections : k = use[o].conn
  BY <1>1
<1>3. PICK new \in ConnectionStates : new = [C(o) EXCEPT !.txn = IF @ = "open" THEN "aborted" ELSE @]
  BY <1>1, Values DEF StatementFails, ConnectionStates, Uses
<1>4. PICK u \in Uses : u = use[o]
  BY <1>1 DEF StatementFails, Uses
<1>5. /\ poolConn' = [poolConn EXCEPT ![k] = new] /\ use' = [use EXCEPT ![o] = u]
      /\ use'[o] = u /\ C(o)' = new /\ poolConn'[k] = new /\ u.conn = k
  <2>1. poolConn' = [poolConn EXCEPT ![k] = new] /\ use' = [use EXCEPT ![o] = u]
    BY <1>1, <1>2, <1>3, <1>4 DEF StatementFails, Sets, Steps, Throws, PoolInv, PoolTypes
  <2>2. u.conn = k
    BY <1>1, <1>2, <1>4 DEF Uses
  <2> QED
    BY <2>1, <2>2 DEF PoolInv, PoolTypes, C
<1>6. /\ IF Scoped(o) THEN InTransaction(o) ELSE InSession(o)
      /\ Happened(o)
  BY <1>1 DEF PoolInv, Agrees
<1>7. OthersUntouched(o)
  BY <1>1, <1>6 DEF InTransaction, InSession, StatementFails, OthersUntouched, opHistory, PoolInv, PoolTypes
<1>8. Agrees(o)'
  <2>1. (UnderWay(o) => IF Scoped(o) THEN InTransaction(o) ELSE InSession(o))'
    BY <1>1, <1>3, <1>4, <1>5, <1>6 DEF StatementFails, InTransaction, InSession, opHistory,
       Scoped, ConnectionStates, Uses
  <2>2. Happened(o)'
    BY <1>1, <1>3, <1>4, <1>5, <1>6 DEF StatementFails, InTransaction, InSession, Happened,
       opHistory, Scoped, ConnectionStates, Uses, PoolInv, PoolTypes
  <2> QED
    BY <2>1, <2>2 DEF Agrees
<1>9. \/ u.at \notin {"start", "done"} /\ u.conn = k /\ new.holder = o
      \/ u.at = "done" /\ new.holder = NoOp /\ NothingLeft(k)'
  BY <1>1, <1>3, <1>4, <1>5, <1>6 DEF InTransaction, InSession, ConnectionStates, Uses
<1> QED
  BY <1>1, <1>2, <1>5, <1>7, <1>8, <1>9, OwnStep

(* An unanswered BEGIN or session setting.                                 *)
LEMMA NoScopeStep ==
  ASSUME PoolInv, NEW o \in PoolOps, Unanswered(o), use[o].at \in {"scope", "begin"}
  PROVE  PoolInv'
<1>1. /\ UnderWay(o) /\ use[o].conn \in Connections /\ C(o) \in ConnectionStates
      /\ use[o] \in Uses /\ C(o).holder = o /\ C(o) = poolConn[use[o].conn]
  BY Held DEF Unanswered, UnderWay
<1>2. PICK k \in Connections : k = use[o].conn
  BY <1>1
<1>3. PICK new \in ConnectionStates : new = C(o)
  BY <1>1, Values DEF Unanswered, ConnectionStates, Uses
<1>4. PICK u \in Uses : u = [use[o] EXCEPT !.at = "release", !.threw = TRUE]
  BY <1>1 DEF Unanswered, Uses
<1>5. /\ poolConn' = [poolConn EXCEPT ![k] = new] /\ use' = [use EXCEPT ![o] = u]
      /\ use'[o] = u /\ C(o)' = new /\ poolConn'[k] = new /\ u.conn = k
  <2>1. poolConn' = [poolConn EXCEPT ![k] = new] /\ use' = [use EXCEPT ![o] = u]
    BY <1>1, <1>2, <1>3, <1>4 DEF Unanswered, Sets, Steps, Throws, PoolInv, PoolTypes
  <2>2. u.conn = k
    BY <1>1, <1>2, <1>4 DEF Uses
  <2> QED
    BY <2>1, <2>2 DEF PoolInv, PoolTypes, C
<1>6. /\ IF Scoped(o) THEN InTransaction(o) ELSE InSession(o)
      /\ Happened(o)
  BY <1>1 DEF PoolInv, Agrees
<1>7. OthersUntouched(o)
  BY <1>1, <1>6 DEF InTransaction, InSession, Unanswered, OthersUntouched, opHistory, PoolInv, PoolTypes
<1>8. Agrees(o)'
  <2>1. (UnderWay(o) => IF Scoped(o) THEN InTransaction(o) ELSE InSession(o))'
    BY <1>1, <1>3, <1>4, <1>5, <1>6 DEF Unanswered, InTransaction, InSession, opHistory,
       Scoped, ConnectionStates, Uses
  <2>2. Happened(o)'
    BY <1>1, <1>3, <1>4, <1>5, <1>6 DEF Unanswered, InTransaction, InSession, Happened,
       opHistory, Scoped, ConnectionStates, Uses, PoolInv, PoolTypes
  <2> QED
    BY <2>1, <2>2 DEF Agrees
<1>9. \/ u.at \notin {"start", "done"} /\ u.conn = k /\ new.holder = o
      \/ u.at = "done" /\ new.holder = NoOp /\ NothingLeft(k)'
  BY <1>1, <1>3, <1>4, <1>5, <1>6 DEF InTransaction, InSession, ConnectionStates, Uses
<1> QED
  BY <1>1, <1>2, <1>5, <1>7, <1>8, <1>9, OwnStep

(* An unanswered statement.                                                *)
LEMMA NoWorkStep ==
  ASSUME PoolInv, NEW o \in PoolOps, Unanswered(o), use[o].at \in {"local", "work"}
  PROVE  PoolInv'
<1>1. /\ UnderWay(o) /\ use[o].conn \in Connections /\ C(o) \in ConnectionStates
      /\ use[o] \in Uses /\ C(o).holder = o /\ C(o) = poolConn[use[o].conn]
  BY Held DEF Unanswered, UnderWay
<1>2. PICK k \in Connections : k = use[o].conn
  BY <1>1
<1>3. PICK new \in ConnectionStates : new = C(o)
  BY <1>1, Values DEF Unanswered, ConnectionStates, Uses
<1>4. PICK u \in Uses : u = [use[o] EXCEPT !.at = IF Scoped(o) THEN "rollback" ELSE "release", !.threw = TRUE]
  BY <1>1 DEF Unanswered, Uses
<1>5. /\ poolConn' = [poolConn EXCEPT ![k] = new] /\ use' = [use EXCEPT ![o] = u]
      /\ use'[o] = u /\ C(o)' = new /\ poolConn'[k] = new /\ u.conn = k
  <2>1. poolConn' = [poolConn EXCEPT ![k] = new] /\ use' = [use EXCEPT ![o] = u]
    BY <1>1, <1>2, <1>3, <1>4 DEF Unanswered, Sets, Steps, Throws, PoolInv, PoolTypes
  <2>2. u.conn = k
    BY <1>1, <1>2, <1>4 DEF Uses
  <2> QED
    BY <2>1, <2>2 DEF PoolInv, PoolTypes, C
<1>6. /\ IF Scoped(o) THEN InTransaction(o) ELSE InSession(o)
      /\ Happened(o)
  BY <1>1 DEF PoolInv, Agrees
<1>7. OthersUntouched(o)
  BY <1>1, <1>6 DEF InTransaction, InSession, Unanswered, OthersUntouched, opHistory, PoolInv, PoolTypes
<1>8. Agrees(o)'
  <2>1. (UnderWay(o) => IF Scoped(o) THEN InTransaction(o) ELSE InSession(o))'
    BY <1>1, <1>3, <1>4, <1>5, <1>6 DEF Unanswered, InTransaction, InSession, opHistory,
       Scoped, ConnectionStates, Uses
  <2>2. Happened(o)'
    BY <1>1, <1>3, <1>4, <1>5, <1>6 DEF Unanswered, InTransaction, InSession, Happened,
       opHistory, Scoped, ConnectionStates, Uses, PoolInv, PoolTypes
  <2> QED
    BY <2>1, <2>2 DEF Agrees
<1>9. \/ u.at \notin {"start", "done"} /\ u.conn = k /\ new.holder = o
      \/ u.at = "done" /\ new.holder = NoOp /\ NothingLeft(k)'
  BY <1>1, <1>3, <1>4, <1>5, <1>6 DEF InTransaction, InSession, ConnectionStates, Uses
<1> QED
  BY <1>1, <1>2, <1>5, <1>7, <1>8, <1>9, OwnStep

(* An unanswered COMMIT.                                                   *)
LEMMA NoCommitStep ==
  ASSUME PoolInv, NEW o \in PoolOps, Unanswered(o), use[o].at = "commit"
  PROVE  PoolInv'
<1>1. /\ UnderWay(o) /\ use[o].conn \in Connections /\ C(o) \in ConnectionStates
      /\ use[o] \in Uses /\ C(o).holder = o /\ C(o) = poolConn[use[o].conn]
  BY Held DEF Unanswered, UnderWay
<1>2. PICK k \in Connections : k = use[o].conn
  BY <1>1
<1>3. PICK new \in ConnectionStates : new = C(o)
  BY <1>1, Values DEF Unanswered, ConnectionStates, Uses
<1>4. PICK u \in Uses : u = [use[o] EXCEPT !.at = "rollback", !.threw = TRUE]
  BY <1>1 DEF Unanswered, Uses
<1>5. /\ poolConn' = [poolConn EXCEPT ![k] = new] /\ use' = [use EXCEPT ![o] = u]
      /\ use'[o] = u /\ C(o)' = new /\ poolConn'[k] = new /\ u.conn = k
  <2>1. poolConn' = [poolConn EXCEPT ![k] = new] /\ use' = [use EXCEPT ![o] = u]
    BY <1>1, <1>2, <1>3, <1>4 DEF Unanswered, Sets, Steps, Throws, PoolInv, PoolTypes
  <2>2. u.conn = k
    BY <1>1, <1>2, <1>4 DEF Uses
  <2> QED
    BY <2>1, <2>2 DEF PoolInv, PoolTypes, C
<1>6. /\ IF Scoped(o) THEN InTransaction(o) ELSE InSession(o)
      /\ Happened(o)
  BY <1>1 DEF PoolInv, Agrees
<1>7. OthersUntouched(o)
  BY <1>1, <1>6 DEF InTransaction, InSession, Unanswered, OthersUntouched, opHistory, PoolInv, PoolTypes
<1>8. Agrees(o)'
  <2>1. (UnderWay(o) => IF Scoped(o) THEN InTransaction(o) ELSE InSession(o))'
    BY <1>1, <1>3, <1>4, <1>5, <1>6 DEF Unanswered, InTransaction, InSession, opHistory,
       Scoped, ConnectionStates, Uses
  <2>2. Happened(o)'
    BY <1>1, <1>3, <1>4, <1>5, <1>6 DEF Unanswered, InTransaction, InSession, Happened,
       opHistory, Scoped, ConnectionStates, Uses, PoolInv, PoolTypes
  <2> QED
    BY <2>1, <2>2 DEF Agrees
<1>9. \/ u.at \notin {"start", "done"} /\ u.conn = k /\ new.holder = o
      \/ u.at = "done" /\ new.holder = NoOp /\ NothingLeft(k)'
  BY <1>1, <1>3, <1>4, <1>5, <1>6 DEF InTransaction, InSession, ConnectionStates, Uses
<1> QED
  BY <1>1, <1>2, <1>5, <1>7, <1>8, <1>9, OwnStep

(* The connection goes back, or is destroyed.                              *)
LEMMA GiveBackStep ==
  ASSUME PoolInv, NEW o \in PoolOps, Release(o), Scoped(o) \/ C(o).broken
  PROVE  PoolInv'
<1>1. /\ UnderWay(o) /\ use[o].conn \in Connections /\ C(o) \in ConnectionStates
      /\ use[o] \in Uses /\ C(o).holder = o /\ C(o) = poolConn[use[o].conn]
  BY Held DEF Release, UnderWay
<1>2. PICK k \in Connections : k = use[o].conn
  BY <1>1
<1>3. PICK new \in ConnectionStates : new = IF C(o).broken THEN Closed ELSE [C(o) EXCEPT !.holder = NoOp]
  BY <1>1, Values DEF Release, ConnectionStates, Uses, Closed
<1>4. PICK u \in Uses : u = [use[o] EXCEPT !.at = "done"]
  BY <1>1 DEF Release, Uses, Closed
<1>5. /\ poolConn' = [poolConn EXCEPT ![k] = new] /\ use' = [use EXCEPT ![o] = u]
      /\ use'[o] = u /\ C(o)' = new /\ poolConn'[k] = new /\ u.conn = k
  <2>1. poolConn' = [poolConn EXCEPT ![k] = new] /\ use' = [use EXCEPT ![o] = u]
    BY <1>1, <1>2, <1>3, <1>4 DEF Release, Sets, Steps, Throws, PoolInv, PoolTypes, Closed
  <2>2. u.conn = k
    BY <1>1, <1>2, <1>4 DEF Uses, Closed
  <2> QED
    BY <2>1, <2>2 DEF PoolInv, PoolTypes, C
<1>6. /\ IF Scoped(o) THEN InTransaction(o) ELSE InSession(o)
      /\ Happened(o)
  BY <1>1 DEF PoolInv, Agrees
<1>7. OthersUntouched(o)
  BY <1>1, <1>6 DEF InTransaction, InSession, Release, OthersUntouched, opHistory, PoolInv, PoolTypes, Closed
<1>8. Agrees(o)'
  <2>1. (UnderWay(o) => IF Scoped(o) THEN InTransaction(o) ELSE InSession(o))'
    BY <1>4, <1>5 DEF UnderWay, Uses
  <2>2. Happened(o)'
    BY <1>1, <1>3, <1>4, <1>5, <1>6 DEF Release, InTransaction, InSession, Happened,
       opHistory, Scoped, ConnectionStates, Uses, PoolInv, PoolTypes, Closed
  <2> QED
    BY <2>1, <2>2 DEF Agrees
<1>9. \/ u.at \notin {"start", "done"} /\ u.conn = k /\ new.holder = o
      \/ u.at = "done" /\ new.holder = NoOp /\ NothingLeft(k)'
  <2>1. u.at = "done"
    BY <1>1, <1>4 DEF Uses
  <2>2. CASE C(o).broken
    BY <1>3, <1>5, <2>1, <2>2 DEF Closed, NothingLeft
  <2>3. CASE ~C(o).broken
    <3>1. /\ C(o).session = Unscoped /\ C(o).txn = "none" /\ C(o).local = Unscoped
          /\ C(o).parked = {}
      BY <1>6, <2>3 DEF Release, InTransaction
    <3>2. /\ new.holder = NoOp /\ new.session = Unscoped /\ new.txn = "none"
          /\ new.local = Unscoped /\ new.parked = {} /\ ~new.broken
      BY <1>1, <1>3, <2>3, <3>1 DEF ConnectionStates
    <3> QED
      BY <1>5, <2>1, <3>2 DEF NothingLeft
  <2> QED
    BY <2>2, <2>3
<1> QED
  BY <1>1, <1>2, <1>5, <1>7, <1>8, <1>9, OwnStep

(* A session goes on to the reset of its setting.                          *)
LEMMA BeforeResetStep ==
  ASSUME PoolInv, NEW o \in PoolOps, Release(o), ~(Scoped(o) \/ C(o).broken)
  PROVE  PoolInv'
<1>1. /\ UnderWay(o) /\ use[o].conn \in Connections /\ C(o) \in ConnectionStates
      /\ use[o] \in Uses /\ C(o).holder = o /\ C(o) = poolConn[use[o].conn]
  BY Held DEF Release, UnderWay
<1>2. PICK k \in Connections : k = use[o].conn
  BY <1>1
<1>3. PICK new \in ConnectionStates : new = C(o)
  BY <1>1, Values DEF Release, ConnectionStates, Uses
<1>4. PICK u \in Uses : u = [use[o] EXCEPT !.at = "reset"]
  BY <1>1 DEF Release, Uses
<1>5. /\ poolConn' = [poolConn EXCEPT ![k] = new] /\ use' = [use EXCEPT ![o] = u]
      /\ use'[o] = u /\ C(o)' = new /\ poolConn'[k] = new /\ u.conn = k
  <2>1. poolConn' = [poolConn EXCEPT ![k] = new] /\ use' = [use EXCEPT ![o] = u]
    BY <1>1, <1>2, <1>3, <1>4 DEF Release, Sets, Steps, Throws, PoolInv, PoolTypes
  <2>2. u.conn = k
    BY <1>1, <1>2, <1>4 DEF Uses
  <2> QED
    BY <2>1, <2>2 DEF PoolInv, PoolTypes, C
<1>6. /\ IF Scoped(o) THEN InTransaction(o) ELSE InSession(o)
      /\ Happened(o)
  BY <1>1 DEF PoolInv, Agrees
<1>7. OthersUntouched(o)
  BY <1>1, <1>6 DEF InTransaction, InSession, Release, OthersUntouched, opHistory, PoolInv, PoolTypes
<1>8. Agrees(o)'
  <2>1. (UnderWay(o) => IF Scoped(o) THEN InTransaction(o) ELSE InSession(o))'
    BY <1>1, <1>3, <1>4, <1>5, <1>6 DEF Release, InTransaction, InSession, opHistory,
       Scoped, ConnectionStates, Uses
  <2>2. Happened(o)'
    BY <1>1, <1>3, <1>4, <1>5, <1>6 DEF Release, InTransaction, InSession, Happened,
       opHistory, Scoped, ConnectionStates, Uses, PoolInv, PoolTypes
  <2> QED
    BY <2>1, <2>2 DEF Agrees
<1>9. \/ u.at \notin {"start", "done"} /\ u.conn = k /\ new.holder = o
      \/ u.at = "done" /\ new.holder = NoOp /\ NothingLeft(k)'
  BY <1>1, <1>3, <1>4, <1>5, <1>6 DEF InTransaction, InSession, ConnectionStates, Uses
<1> QED
  BY <1>1, <1>2, <1>5, <1>7, <1>8, <1>9, OwnStep

(* A connection nobody holds has nothing of an earlier operation on it.    *)
LEMMA CheckoutStep ==
  ASSUME PoolInv, NEW o \in PoolOps, NEW k \in Connections, Checkout(o, k)
  PROVE  PoolInv'
<1>1. poolConn[k] \in ConnectionStates /\ use[o] \in Uses /\ NothingLeft(k) /\ Happened(o)
  BY DEF PoolInv, PoolTypes, Checkout, Agrees
<1>2. PICK new \in ConnectionStates : new = [poolConn[k] EXCEPT !.holder = o, !.open = TRUE]
  BY <1>1 DEF ConnectionStates
<1>3. PICK u \in Uses : u = [use[o] EXCEPT !.at = IF Scoped(o) THEN "begin" ELSE "scope", !.conn = k]
  BY <1>1 DEF Uses
<1>4. /\ new.holder = o /\ new.session = Unscoped /\ new.txn = "none" /\ new.local = Unscoped
      /\ new.parked = {} /\ u.conn = k /\ u.at = IF Scoped(o) THEN "begin" ELSE "scope"
  BY <1>1, <1>2, <1>3 DEF ConnectionStates, Uses, NothingLeft
<1>5. /\ poolConn' = [poolConn EXCEPT ![k] = new] /\ use' = [use EXCEPT ![o] = u]
      /\ use'[o] = u /\ C(o)' = new
  <2>1. poolConn' = [poolConn EXCEPT ![k] = new] /\ use' = [use EXCEPT ![o] = u]
    BY <1>2, <1>3 DEF Checkout
  <2> QED
    BY <1>4, <2>1 DEF PoolInv, PoolTypes, C
<1>6. OthersUntouched(o)
  BY DEF Checkout, OthersUntouched, opHistory, PoolInv, PoolTypes
<1>7. Agrees(o)'
  BY <1>1, <1>4, <1>5 DEF Checkout, Agrees, UnderWay, InTransaction, InSession, Happened, opHistory, Scoped
<1>8. u.at \notin {"start", "done"} /\ use[o].at = "start" /\ poolConn[k].holder = NoOp
  BY <1>4 DEF Checkout
<1> QED
  BY <1>4, <1>5, <1>6, <1>7, <1>8, OwnStep

(* An idle connection is dropped.                                          *)
LEMMA IdleDroppedStep ==
  ASSUME PoolInv, NEW c \in Connections, IdleDropped(c)
  PROVE  PoolInv'
<1>1. Closed \in ConnectionStates
  BY DEF Closed, ConnectionStates, Settings
<1>2. /\ poolConn' \in [Connections -> ConnectionStates]
      /\ poolConn'[c] = Closed /\ \A d \in Connections \ {c} : poolConn'[d] = poolConn[d]
  BY <1>1 DEF IdleDropped, PoolInv, PoolTypes
<1>3. PoolTypes'
  BY <1>2 DEF IdleDropped, PoolInv, PoolTypes, opHistory, Connections, Settings, ConnectionStates, Uses
<1>4. \A o \in PoolOps : UnderWay(o) => use[o].conn # c /\ use[o].conn \in Connections
  BY ConnectionAssumption DEF PoolInv, Ownership, IdleDropped, C
<1>5. Ownership'
  BY <1>2, <1>4 DEF IdleDropped, PoolInv, Ownership, UnderWay, C, Closed, Connections
<1>6. \A d \in Connections : (poolConn[d].holder = NoOp)' => NothingLeft(d)'
  BY <1>2 DEF PoolInv, NothingLeft, Closed, Connections
<1>7. ASSUME NEW o \in PoolOps PROVE Agrees(o)'
  <2>1. UnderWay(o) => C(o)' = C(o)
    BY <1>2, <1>4 DEF IdleDropped, C
  <2> QED
    BY <2>1 DEF PoolInv, IdleDropped, opHistory, Agrees, UnderWay, InTransaction, InSession, Happened, Scoped
<1> QED
  BY <1>3, <1>5, <1>6, <1>7 DEF PoolInv, Connections

-----------------------------------------------------------------------------
(* The pool, every step of every operation and every fault: the ownership  *)
(* of connections and what is set on them is an invariant.                 *)
LEMMA PoolKept == PoolInv /\ [ConnNext]_connVars => PoolInv'
<1> SUFFICES ASSUME PoolInv, [ConnNext]_connVars PROVE PoolInv'
  OBVIOUS
<1>1. ASSUME NEW o \in PoolOps, OpStep(o) PROVE PoolInv'
  <2>1. CASE Release(o)
    BY <2>1, GiveBackStep, BeforeResetStep
  <2>2. CASE Unanswered(o)
    BY <2>2, NoScopeStep, NoWorkStep, NoCommitStep DEF Unanswered
  <2> QED
    BY <1>1, <2>1, <2>2, CheckoutStep, SetSessionStep, BeginStep, SetLocalStep, WorkStep,
       CommitStep, RollbackStep, ResetSessionStep DEF OpStep
<1>2. ASSUME NEW o \in PoolOps, StatementFails(o) PROVE PoolInv'
  BY <1>2, StatementThrowsStep, StatementIsCaughtStep DEF StatementFails
<1>3. CASE UNCHANGED connVars
  BY <1>3 DEF connVars, PoolInv, PoolTypes, Ownership, NothingLeft, Agrees, UnderWay,
     InTransaction, InSession, Happened, C, Scoped, ConnectionStates, Uses, Settings, Connections
<1> QED
  BY <1>1, <1>2, <1>3, BreaksStep, IdleDroppedStep DEF ConnNext

LEMMA PoolInvariance == ConnSpec => []PoolInv
  BY PoolKept, PoolStart, PTL DEF ConnSpec

(* What the callbacks parked on a connection were registered by.           *)
ParkedFits == \A c \in Connections : poolConn[c].parked \subseteq parkedBy

LEMMA ParkedKept == PoolInv /\ ParkedFits /\ [ConnNext]_connVars => ParkedFits'
<1> SUFFICES ASSUME PoolInv, ParkedFits, [ConnNext]_connVars PROVE ParkedFits'
  OBVIOUS
<1>1. poolConn \in [Connections -> ConnectionStates] /\ Closed.parked = {}
  BY DEF PoolInv, PoolTypes, Closed
<1>2. ASSUME NEW k \in Connections, NEW new, poolConn' = [poolConn EXCEPT ![k] = new],
             parkedBy \subseteq parkedBy', new.parked \subseteq parkedBy'
      PROVE  ParkedFits'
  BY <1>1, <1>2 DEF ParkedFits
<1>3. ASSUME poolConn' = poolConn, parkedBy' = parkedBy PROVE ParkedFits'
  BY <1>3 DEF ParkedFits
<1>4. ASSUME NEW o \in PoolOps, use[o].at \notin {"start", "done"}
      PROVE  use[o].conn \in Connections /\ C(o) \in ConnectionStates /\ C(o).parked \subseteq parkedBy
  BY <1>1, <1>4 DEF PoolInv, Ownership, UnderWay, C, ParkedFits
<1>5. ASSUME NEW o \in PoolOps, NEW new, use[o].at \notin {"start", "done"}, Sets(o, new),
             parkedBy \subseteq parkedBy', new.parked \subseteq parkedBy'
      PROVE  ParkedFits'
  BY <1>2, <1>4, <1>5 DEF Sets
<1>6. ASSUME NEW o \in PoolOps, NEW c \in Connections, Checkout(o, c) PROVE ParkedFits'
  <2> DEFINE new == [poolConn[c] EXCEPT !.holder = o, !.open = TRUE]
  <2>1. poolConn' = [poolConn EXCEPT ![c].holder = o, ![c].open = TRUE] /\ parkedBy' = parkedBy
    BY <1>6 DEF Checkout, opHistory
  <2>2. \A d \in Connections : poolConn'[d].parked = poolConn[d].parked
    BY <1>1, <2>1 DEF ConnectionStates
  <2> QED
    BY <2>1, <2>2 DEF ParkedFits
<1>7. ASSUME NEW c \in Connections, IdleDropped(c) PROVE ParkedFits'
  BY <1>1, <1>2, <1>7 DEF IdleDropped, opHistory
<1>8. ASSUME NEW o \in PoolOps, Work(o) PROVE ParkedFits'
  <2>1. CASE Sets(o, [C(o) EXCEPT !.parked = @ \cup {o}]) /\ parkedBy' = parkedBy \cup {o}
    <3>1. use[o].at \notin {"start", "done"}
      BY <1>8 DEF Work
    <3>2. [C(o) EXCEPT !.parked = @ \cup {o}].parked \subseteq parkedBy'
      BY <1>4, <2>1, <3>1 DEF ConnectionStates
    <3> QED
      BY <1>5, <2>1, <3>1, <3>2
  <2> QED
    BY <1>3, <1>8, <2>1 DEF Work
<1>9. ASSUME NEW o \in PoolOps, SetSession(o) \/ Begin(o) \/ SetLocal(o) \/ Breaks(o) \/ StatementFails(o)
      PROVE  ParkedFits'
  <2>1. use[o].at \notin {"start", "done"} /\ parkedBy' = parkedBy
    BY <1>9 DEF SetSession, Begin, SetLocal, Breaks, StatementFails, opHistory
  <2>2. PICK new : Sets(o, new) /\ new.parked = C(o).parked
    <3>1. C(o) \in ConnectionStates
      BY <1>4, <2>1
    <3>2. /\ [C(o) EXCEPT !.session = TenantOf[o]].parked = C(o).parked
          /\ [C(o) EXCEPT !.txn = "open", !.local = Unscoped].parked = C(o).parked
          /\ [C(o) EXCEPT !.local = TenantOf[o]].parked = C(o).parked
          /\ [C(o) EXCEPT !.broken = TRUE].parked = C(o).parked
          /\ [C(o) EXCEPT !.txn = IF @ = "open" THEN "aborted" ELSE @].parked = C(o).parked
      BY <3>1 DEF ConnectionStates
    <3> QED
      BY <1>9, <3>2 DEF SetSession, Begin, SetLocal, Breaks, StatementFails
  <2> QED
    BY <1>4, <1>5, <2>1, <2>2
<1>10. ASSUME NEW o \in PoolOps, Commit(o) \/ Rollback(o) PROVE ParkedFits'
  <2>1. use[o].at \notin {"start", "done"} /\ parkedBy' = parkedBy
    BY <1>10 DEF Commit, Rollback, opHistory
  <2>2. PICK new : Sets(o, new) /\ new.parked \subseteq C(o).parked
    <3>1. C(o) \in ConnectionStates
      BY <1>4, <2>1
    <3>2. /\ [C(o) EXCEPT !.txn = "none", !.local = Unscoped,
                          !.parked = IF KindOf[o] = "transaction" THEN {} ELSE @].parked \subseteq C(o).parked
          /\ [C(o) EXCEPT !.parked = Discarded(o)].parked \subseteq C(o).parked
          /\ [C(o) EXCEPT !.txn = "none", !.local = Unscoped, !.parked = Discarded(o)].parked \subseteq C(o).parked
      BY <3>1 DEF ConnectionStates, Discarded
    <3>3. CASE Commit(o)
      BY <3>2, <3>3 DEF Commit
    <3>4. CASE Rollback(o)
      BY <3>2, <3>4 DEF Rollback
    <3> QED
      BY <1>10, <3>3, <3>4
  <2> QED
    BY <1>4, <1>5, <2>1, <2>2
<1>11. ASSUME NEW o \in PoolOps, Release(o) \/ ResetSession(o) \/ Unanswered(o) PROVE ParkedFits'
  <2>1. use[o].at \notin {"start", "done"} /\ parkedBy' = parkedBy
    BY <1>11 DEF Release, ResetSession, Unanswered, opHistory
  <2>2. poolConn' = poolConn \/ \E new : Sets(o, new) /\ new.parked \subseteq C(o).parked
    <3>1. C(o) \in ConnectionStates
      BY <1>4, <2>1
    <3>2. /\ [C(o) EXCEPT !.holder = NoOp].parked \subseteq C(o).parked /\ Closed.parked \subseteq C(o).parked
          /\ [C(o) EXCEPT !.session = Unscoped, !.holder = NoOp].parked \subseteq C(o).parked
      BY <1>1, <3>1 DEF ConnectionStates
    <3> QED
      BY <1>11, <3>2 DEF Release, ResetSession, Unanswered
  <2> QED
    BY <1>3, <1>4, <1>5, <2>1, <2>2
<1>12. CASE UNCHANGED connVars
  BY <1>3, <1>12 DEF connVars
<1> QED
  BY <1>6, <1>7, <1>8, <1>9, <1>10, <1>11, <1>12 DEF ConnNext, OpStep

LEMMA PoolTyped ==
  ASSUME PoolInv, ParkedFits
  PROVE  ConnTypeOK
<1>1. \A c \in Connections : poolConn[c] \in ConnectionStates
  BY DEF PoolInv, PoolTypes
<1>2. \A o \in PoolOps : use[o] \in Uses
  BY DEF PoolInv, PoolTypes
<1>3. UNION {poolConn[c].parked : c \in Connections} \subseteq parkedBy
  BY DEF ParkedFits
<1>4. \A c \in Connections : /\ poolConn[c].holder \in PoolOps \cup {NoOp} /\ poolConn[c].txn \in {"none", "open", "aborted"}
                             /\ poolConn[c].parked \subseteq PoolOps
  BY <1>1 DEF ConnectionStates
<1>5. \A o \in PoolOps : use[o].at \in {"start", "scope", "begin", "local", "work", "commit", "rollback",
                                         "release", "reset", "done"}
  BY <1>2 DEF Uses
<1>6. committedOps \cup fired \subseteq PoolOps
  BY DEF PoolInv, PoolTypes
<1> QED
  BY <1>3, <1>4, <1>5, <1>6 DEF ConnTypeOK

(* withTransaction, the one-statement query and checkoutWithSession: every *)
(* statement runs under the setting of its own operation, whatever ran on  *)
(* the connection before and however that ended.                           *)
THEOREM OwnTenant == ConnSpec => []RunsAsOwnTenant
<1>1. PoolInv => RunsAsOwnTenant
  BY DEF PoolInv, Agrees, Happened, RunsAsOwnTenant
<1> QED
  BY <1>1, PoolInvariance, PTL

(* The finally blocks of pool.ts: a connection nobody holds has no tenant, *)
(* no open transaction and no callbacks, and an operation that is over     *)
(* holds none.                                                             *)
THEOREM CleanAndReturned == ConnSpec => [](IdleIsClean /\ NothingIsLeaked)
<1>1. PoolInv => IdleIsClean /\ NothingIsLeaked
  BY DEF PoolInv, NothingLeft, Ownership, UnderWay, IdleIsClean, NothingIsLeaked
<1> QED
  BY <1>1, PoolInvariance, PTL

(* The callbacks of withTransaction: they run for a transaction that       *)
(* committed, or whose function caught a failed statement; and for every   *)
(* committed one whose COMMIT was answered.                                *)
THEOREM CallbacksFollowCommit == ConnSpec => [](ToldAfterCommit /\ CommittedIsTold)
<1>1. PoolInv => ToldAfterCommit /\ CommittedIsTold
  BY DEF PoolInv, PoolTypes, Agrees, Happened, ToldAfterCommit, CommittedIsTold
<1> QED
  BY <1>1, PoolInvariance, PTL

-----------------------------------------------------------------------------
(* Every set of naturals has a least element.                              *)
LEMMA Least ==
  ASSUME NEW T \in SUBSET Nat, T # {}
  PROVE  \E x \in T : \A y \in T : x <= y
<1>1. PICK x \in T : \A y \in T : ~(<<y, x>> \in OpToRel(<, Nat))
  BY NatLessThanWellFounded, WFMin
<1>2. \A y \in T : ~(y < x)
  BY <1>1 DEF OpToRel
<1> QED
  BY <1>2

-----------------------------------------------------------------------------
(* The calls of the AI gateway. *)

GwSteps == {"none", "body", "reserve", "provider", "settle", "fail", "over"}
GwConns == {"none", "open", "cut", "gone", "done"}
GwTypes ==
  /\ step \in [Calls -> GwSteps] /\ conn \in [Calls -> GwConns]
  /\ acct \in [Calls -> {"none", "reserved", "settled", "failed"}]
  /\ said \in [Calls -> {"nothing", "busy", "refused", "budget", "ok", "failed", "broken off"}]
  /\ signal \in [Calls -> {"unset", "armed", "raised"}]
  /\ service \in {"serving", "draining", "stopping", "ended"}
  /\ forced \in BOOLEAN /\ dbFaults \in Nat
  /\ slots \in 0 .. MaxAudio /\ blocked \subseteq Calls /\ billed \subseteq Calls

(* What a call's row, answer and connection can be at each of its steps.   *)
RowFits(c) ==
  /\ step[c] \in {"none", "body", "reserve"} => acct[c] = "none"
  /\ step[c] \in {"provider", "settle", "fail"} => acct[c] = "reserved"
  /\ step[c] \in {"none", "body", "reserve", "provider"} => said[c] = "nothing"
  /\ step[c] \in {"none", "body", "reserve", "provider", "fail"} => c \notin billed
  /\ step[c] = "fail" => said[c] # "ok"
  /\ c \in billed \/ said[c] = "ok" => acct[c] \in {"reserved", "settled"}
ConnectionFits(c) ==
  /\ step[c] = "none" <=> conn[c] = "none"
  /\ step[c] \in {"body", "reserve", "provider"} => conn[c] \in {"open", "cut", "gone"}
  /\ step[c] = "provider" /\ signal[c] = "unset" => Streams(c)
  /\ step[c] = "provider" /\ conn[c] = "gone" => signal[c] # "armed"
(* Before the drain was cut short no connection outlives it, and a row is  *)
(* abandoned only with a cause.                                            *)
EndFits(c) ==
  /\ service \in {"stopping", "ended"} /\ ~forced => conn[c] \notin {"open", "cut"}
  /\ service = "ended" => step[c] \in {"none", "over"} /\ conn[c] \notin {"open", "cut"}
  /\ step[c] = "over" /\ acct[c] = "reserved" => forced \/ dbFaults > 0 \/ conn[c] = "gone"
CallFits(c) == RowFits(c) /\ ConnectionFits(c) /\ EndFits(c)

AudioOpen == {c \in Calls : Audio(c) /\ conn[c] \in {"open", "cut"}}
GwInv == GwTypes /\ (\A c \in Calls : CallFits(c)) /\ SlotsMatchRequests

\* A call changes its own entries only.
GwOthersSame(c) ==
  \A d \in Calls \ {c} :
    /\ step'[d] = step[d] /\ conn'[d] = conn[d] /\ acct'[d] = acct[d] /\ said'[d] = said[d]
    /\ signal'[d] = signal[d] /\ (d \in billed' <=> d \in billed)

\* A step of one call keeps the others.
LEMMA OtherCallsFit ==
  ASSUME GwInv, GwTypes', SlotsMatchRequests', NEW c \in Calls, GwOthersSame(c), CallFits(c)',
         service' = service, forced' = forced, dbFaults' \in {dbFaults, dbFaults + 1}
  PROVE  GwInv'
<1> SUFFICES ASSUME NEW d \in Calls, d # c PROVE CallFits(d)'
  BY DEF GwInv
<1>1. CallFits(d) /\ (dbFaults > 0 => dbFaults' > 0)
  <2>1. CallFits(d) /\ dbFaults \in Nat
    BY DEF GwInv, GwTypes
  <2> QED
    BY <2>1
<1>3. RowFits(d)'
  BY <1>1 DEF CallFits, RowFits, GwOthersSame
<1>4. ConnectionFits(d)'
  BY <1>1 DEF CallFits, ConnectionFits, GwOthersSame, Streams
<1>5. EndFits(d)'
  BY <1>1 DEF CallFits, EndFits, GwOthersSame
<1> QED
  BY <1>3, <1>4, <1>5 DEF CallFits

\* A connection that neither opens nor closes leaves the slots as they are.
LEMMA SlotsStay ==
  ASSUME GwInv, slots' = slots, service # "ended" \/ service' = "ended",
         \A d \in Calls : conn'[d] \in {"open", "cut"} <=> conn[d] \in {"open", "cut"}
  PROVE  SlotsMatchRequests'
<1>1. AudioOpen' = AudioOpen
  BY DEF AudioOpen, Audio
<1> QED
  BY <1>1 DEF AudioOpen, GwInv, SlotsMatchRequests

\* A connection that closes frees its slot.
LEMMA CloseWithEffect ==
  ASSUME GwInv, NEW c \in Calls, conn[c] \in {"open", "cut"}, service # "ended",
         NEW how \in {"done", "gone"}, CloseWith(c, how)
  PROVE  /\ conn' \in [Calls -> GwConns] /\ conn'[c] = how
         /\ \A d \in Calls \ {c} : conn'[d] = conn[d]
         /\ slots' \in 0 .. MaxAudio
         /\ SlotsMatchRequests'
<1>1. /\ conn' \in [Calls -> GwConns] /\ conn'[c] = how
      /\ \A d \in Calls \ {c} : conn'[d] = conn[d]
  BY DEF CloseWith, GwInv, GwTypes, GwConns
<1>2. AudioOpen' = AudioOpen \ {c}
  BY <1>1 DEF AudioOpen, Audio
<1>3. IsFiniteSet(AudioOpen)
  BY FS_Subset, GatewayAssumption DEF AudioOpen
<1>4. slots = Cardinality(AudioOpen)
  BY DEF GwInv, SlotsMatchRequests, AudioOpen
<1>5. CASE Audio(c)
  <2>1. c \in AudioOpen
    BY <1>5 DEF AudioOpen
  <2>2. Cardinality(AudioOpen') = slots - 1
    BY <1>2, <1>3, <1>4, <2>1, FS_RemoveElement
  <2>3. slots # 0
    BY <1>3, <1>4, <2>1, FS_EmptySet
  <2>4. slots' = slots - 1 /\ slots \in 0 .. MaxAudio
    BY <1>5 DEF CloseWith, GwInv, GwTypes
  <2>5. slots' \in 0 .. MaxAudio
    BY <2>3, <2>4, GatewayAssumption
  <2>6. SlotsMatchRequests'
    BY <2>2, <2>4 DEF SlotsMatchRequests, AudioOpen
  <2> QED
    BY <1>1, <2>5, <2>6
<1>6. CASE ~Audio(c)
  <2>1. AudioOpen \ {c} = AudioOpen
    BY <1>6 DEF AudioOpen
  <2> QED
    BY <1>1, <1>2, <1>4, <1>6, <2>1 DEF CloseWith, GwInv, GwTypes, SlotsMatchRequests, AudioOpen
<1> QED
  BY <1>1, <1>5, <1>6

\* What an answer changes, heard or not.
SaidEffect(c, what) ==
  /\ conn' \in [Calls -> GwConns] /\ slots' \in 0 .. MaxAudio /\ SlotsMatchRequests'
  /\ said' \in [Calls -> {"nothing", "busy", "refused", "budget", "ok", "failed", "broken off"}]
  /\ \A d \in Calls \ {c} : conn'[d] = conn[d] /\ said'[d] = said[d]
  /\ \/ said'[c] = said[c] /\ conn'[c] = conn[c] /\ conn[c] # "open"
     \/ said'[c] = what /\ conn'[c] = "done" /\ conn[c] = "open"

LEMMA SendEffect ==
  ASSUME GwInv, NEW c \in Calls, service # "ended", service' = service,
         NEW what \in {"refused", "budget", "ok", "failed", "broken off"}, Send(c, what)
  PROVE  SaidEffect(c, what)
<1>1. CASE StreamOpen(c)
  <2>1. CloseWith(c, "done") /\ said' = [said EXCEPT ![c] = what] /\ conn[c] = "open"
    BY <1>1 DEF Send, StreamOpen
  <2> QED
    BY <2>1, CloseWithEffect DEF GwInv, GwTypes, SaidEffect
<1>2. CASE ~StreamOpen(c)
  <2>1. UNCHANGED <<said, conn, slots>> /\ conn[c] # "open"
    BY <1>2 DEF Send, StreamOpen
  <2> QED
    BY <2>1, SlotsStay DEF GwInv, GwTypes, SaidEffect
<1> QED
  BY <1>1, <1>2

LEMMA DispatchStep ==
  ASSUME GwInv, NEW c \in Calls, Dispatch(c)
  PROVE  GwInv'
<1>1. /\ service = "serving" /\ step[c] = "none" /\ conn[c] = "none" /\ acct[c] = "none"
      /\ said[c] = "nothing" /\ c \notin billed
  BY DEF Dispatch, GwInv, CallFits, RowFits, ConnectionFits
<1>2. UNCHANGED <<service, beating, acct, signal, blocked, billed, forced, dbFaults>>
  BY DEF Dispatch
<1>3. CASE Audio(c) /\ slots >= MaxAudio
  <2>1. /\ step' = [step EXCEPT ![c] = "over"] /\ conn' = [conn EXCEPT ![c] = "done"]
        /\ said' = [said EXCEPT ![c] = "busy"] /\ slots' = slots
    BY <1>3 DEF Dispatch, Over
  <2>2. GwTypes' /\ GwOthersSame(c) /\ step'[c] = "over" /\ conn'[c] = "done" /\ said'[c] = "busy"
    BY <1>2, <2>1 DEF GwInv, GwTypes, GwSteps, GwConns, GwOthersSame
  <2>3. CallFits(c)'
    BY <1>1, <1>2, <2>2 DEF CallFits, RowFits, ConnectionFits, EndFits
  <2>4. SlotsMatchRequests'
    BY <1>1, <2>1, <2>2, SlotsStay DEF GwOthersSame
  <2> QED
    BY <1>2, <2>2, <2>3, <2>4, OtherCallsFit
<1>4. CASE ~(Audio(c) /\ slots >= MaxAudio)
  <2>1. /\ step' = [step EXCEPT ![c] = "body"] /\ conn' = [conn EXCEPT ![c] = "open"]
        /\ said' = said /\ slots' = IF Audio(c) THEN slots + 1 ELSE slots
    BY <1>4 DEF Dispatch, Goes
  <2>2. slots' \in 0 .. MaxAudio
    <3>1. slots \in 0 .. MaxAudio
      BY DEF GwInv, GwTypes
    <3> QED
      BY <1>4, <2>1, <3>1, GatewayAssumption
  <2>3. GwTypes' /\ GwOthersSame(c) /\ step'[c] = "body" /\ conn'[c] = "open"
    BY <1>2, <2>1, <2>2 DEF GwInv, GwTypes, GwSteps, GwConns, GwOthersSame
  <2>4. CallFits(c)'
    BY <1>1, <1>2, <2>1, <2>3 DEF CallFits, RowFits, ConnectionFits, EndFits
  <2>5. SlotsMatchRequests'
    <3>1. IsFiniteSet(AudioOpen) /\ slots = Cardinality(AudioOpen) /\ c \notin AudioOpen
      BY <1>1, FS_Subset, GatewayAssumption DEF AudioOpen, GwInv, SlotsMatchRequests
    <3>2. AudioOpen' = IF Audio(c) THEN AudioOpen \cup {c} ELSE AudioOpen
      BY <2>3 DEF AudioOpen, Audio, GwOthersSame
    <3>3. Cardinality(AudioOpen') = IF Audio(c) THEN slots + 1 ELSE slots
      BY <3>1, <3>2, FS_AddElement
    <3> QED
      BY <2>1, <3>3 DEF SlotsMatchRequests, AudioOpen
  <2> QED
    BY <1>2, <2>3, <2>4, <2>5, OtherCallsFit
<1> QED
  BY <1>3, <1>4

\* The steps of a handler that answers nothing.
LEMMA QuietStep ==
  ASSUME GwInv, NEW c \in Calls,
         ReadBody(c) \/ BufferFull(c) \/ ReaderReads(c)
  PROVE  GwInv'
<1>1. /\ UNCHANGED <<service, conn, slots, acct, said, signal, billed, forced, dbFaults>>
      /\ blocked' \subseteq Calls
      /\ \/ step' = step
         \/ step[c] = "body" /\ conn[c] = "open" /\ step' = [step EXCEPT ![c] = "reserve"]
  BY DEF ReadBody, BufferFull, ReaderReads, Goes, StreamOpen, GwInv, GwTypes
<1>2. GwTypes' /\ GwOthersSame(c)
  BY <1>1 DEF GwInv, GwTypes, GwSteps, GwOthersSame
<1>3. CallFits(c)'
  <2>1. CallFits(c)
    BY DEF GwInv
  <2>2. CASE step' = step
    BY <1>1, <2>1, <2>2 DEF CallFits, RowFits, ConnectionFits, EndFits, Streams
  <2>3. CASE step[c] = "body" /\ conn[c] = "open" /\ step'[c] = "reserve"
    BY <1>1, <2>1, <2>3 DEF CallFits, RowFits, ConnectionFits, EndFits
  <2> QED
    BY <1>1, <2>2, <2>3 DEF GwInv, GwTypes
<1>4. SlotsMatchRequests'
  BY <1>1, SlotsStay
<1> QED
  BY <1>1, <1>2, <1>3, <1>4, OtherCallsFit

LEMMA RefuseStep ==
  ASSUME GwInv, NEW c \in Calls, RefuseBody(c)
  PROVE  GwInv'
<1>1. /\ step[c] = "body" /\ step' = [step EXCEPT ![c] = "over"] /\ Send(c, "refused")
      /\ UNCHANGED <<service, acct, signal, blocked, billed, forced, dbFaults>>
  BY DEF RefuseBody, Over
<1>2. CallFits(c) /\ service # "ended"
  BY <1>1 DEF GwInv, CallFits, EndFits
<1>3. SaidEffect(c, "refused")
  BY <1>1, <1>2, SendEffect
<1>4. GwTypes' /\ GwOthersSame(c) /\ step'[c] = "over"
  BY <1>1, <1>3 DEF GwInv, GwTypes, GwSteps, GwOthersSame, SaidEffect
<1>5. CallFits(c)'
  BY <1>1, <1>2, <1>3, <1>4 DEF CallFits, RowFits, ConnectionFits, EndFits, SaidEffect
<1> QED
  BY <1>1, <1>3, <1>4, <1>5, OtherCallsFit DEF SaidEffect

\* A step that ends with an answer, or with none.
LEMMA AnswerStep ==
  ASSUME GwInv, NEW c \in Calls, service # "ended", service' = service, forced' = forced,
         dbFaults' \in {dbFaults, dbFaults + 1}, blocked' = blocked,
         NEW s \in GwSteps, step' = [step EXCEPT ![c] = s],
         acct' = acct \/ acct' = [acct EXCEPT ![c] = "reserved"]
           \/ acct' = [acct EXCEPT ![c] = "settled"] \/ acct' = [acct EXCEPT ![c] = "failed"],
         signal' = signal \/ signal' = [signal EXCEPT ![c] = "unset"]
           \/ signal' = [signal EXCEPT ![c] = "armed"] \/ signal' = [signal EXCEPT ![c] = "raised"],
         billed' = billed \/ billed' = billed \cup {c},
         NEW what, SaidEffect(c, what) \/ UNCHANGED <<said, conn, slots>>,
         CallFits(c)'
  PROVE  GwInv'
<1>1. acct' \in [Calls -> {"none", "reserved", "settled", "failed"}] /\ \A d \in Calls \ {c} : acct'[d] = acct[d]
  BY DEF GwInv, GwTypes
<1>2. signal' \in [Calls -> {"unset", "armed", "raised"}] /\ \A d \in Calls \ {c} : signal'[d] = signal[d]
  BY DEF GwInv, GwTypes
<1>3. step' \in [Calls -> GwSteps] /\ \A d \in Calls \ {c} : step'[d] = step[d]
  BY DEF GwInv, GwTypes
<1>4. billed' \subseteq Calls /\ blocked' \subseteq Calls /\ \A d \in Calls \ {c} : d \in billed' <=> d \in billed
  BY DEF GwInv, GwTypes
<1>5. /\ conn' \in [Calls -> GwConns] /\ slots' \in 0 .. MaxAudio
      /\ said' \in [Calls -> {"nothing", "busy", "refused", "budget", "ok", "failed", "broken off"}]
      /\ \A d \in Calls \ {c} : conn'[d] = conn[d] /\ said'[d] = said[d]
  BY DEF SaidEffect, GwInv, GwTypes
<1>6. SlotsMatchRequests'
  BY SlotsStay DEF SaidEffect
<1>7. dbFaults' \in Nat /\ service' \in {"serving", "draining", "stopping", "ended"} /\ forced' \in BOOLEAN
  <2>1. dbFaults \in Nat /\ service \in {"serving", "draining", "stopping", "ended"} /\ forced \in BOOLEAN
    BY DEF GwInv, GwTypes
  <2> QED
    BY <2>1
<1>8. GwTypes' /\ GwOthersSame(c)
  BY <1>1, <1>2, <1>3, <1>4, <1>5, <1>7 DEF GwTypes, GwOthersSame
<1> QED
  BY <1>6, <1>8, OtherCallsFit

\* What the types say of one call, and of a call under way.
LEMMA CallTypes ==
  ASSUME GwInv, NEW c \in Calls
  PROVE  /\ CallFits(c) /\ service \in {"serving", "draining", "stopping", "ended"} /\ dbFaults \in Nat
         /\ conn[c] \in GwConns /\ step[c] \in GwSteps /\ signal[c] \in {"unset", "armed", "raised"}
         /\ acct[c] \in {"none", "reserved", "settled", "failed"}
         /\ step[c] \in {"body", "reserve", "provider", "settle", "fail"} => service # "ended"
         /\ \A x : step' = [step EXCEPT ![c] = x] => step'[c] = x
         /\ \A x : acct' = [acct EXCEPT ![c] = x] => acct'[c] = x
         /\ \A x : signal' = [signal EXCEPT ![c] = x] => signal'[c] = x
<1>1. CallFits(c)
  BY DEF GwInv
<1>2. step[c] \in {"body", "reserve", "provider", "settle", "fail"} => service # "ended"
  BY <1>1 DEF CallFits, EndFits
<1> QED
  BY <1>1, <1>2 DEF GwInv, GwTypes

LEMMA ReserveStep ==
  ASSUME GwInv, NEW c \in Calls, Reserve(c)
  PROVE  GwInv'
<1>1. /\ step[c] = "reserve" /\ service # "ended" /\ CallFits(c) /\ conn[c] \in {"open", "cut", "gone"}
      /\ acct[c] = "none" /\ said[c] = "nothing" /\ c \notin billed
  BY CallTypes DEF Reserve, CallFits, RowFits, ConnectionFits
<1>2. UNCHANGED <<service, beating, blocked, billed, forced>>
  BY DEF Reserve
<1>3. CASE /\ PoolOpen /\ Goes(c, "provider") /\ acct' = [acct EXCEPT ![c] = "reserved"]
           /\ signal' = [signal EXCEPT ![c] =
                IF ~Streams(c) THEN ArmedNow(c) ELSE IF StreamOpen(c) THEN "armed" ELSE "unset"]
           /\ UNCHANGED <<said, conn, slots, dbFaults>>
  <2>1. step' = [step EXCEPT ![c] = "provider"] /\ step'[c] = "provider" /\ acct'[c] = "reserved"
    BY <1>3, CallTypes DEF Goes
  <2>2. /\ signal'[c] = "unset" => Streams(c)
        /\ signal'[c] = "armed" => conn[c] = "open"
        /\ \E g \in {"unset", "armed", "raised"} : signal' = [signal EXCEPT ![c] = g]
    BY <1>3, CallTypes DEF ArmedNow, StreamOpen
  <2>3. CallFits(c)'
    BY <1>1, <1>2, <1>3, <2>1, <2>2 DEF CallFits, RowFits, ConnectionFits, EndFits, PoolOpen, Streams
  <2> QED
    BY <1>1, <1>2, <1>3, <2>1, <2>2, <2>3, AnswerStep DEF GwSteps
<1>4. CASE \E what \in {"budget", "refused"} :
             Over(c) /\ Send(c, what) /\ UNCHANGED <<acct, signal>> /\ dbFaults' \in {dbFaults, dbFaults + 1}
  <2>1. PICK what \in {"budget", "refused"} :
          Over(c) /\ Send(c, what) /\ UNCHANGED <<acct, signal>> /\ dbFaults' \in {dbFaults, dbFaults + 1}
    BY <1>4
  <2>2. step' = [step EXCEPT ![c] = "over"] /\ step'[c] = "over" /\ SaidEffect(c, what)
    BY <1>1, <1>2, <2>1, CallTypes, SendEffect DEF Over
  <2>3. CallFits(c)'
    BY <1>1, <1>2, <2>1, <2>2 DEF CallFits, RowFits, ConnectionFits, EndFits, SaidEffect
  <2> QED
    BY <1>1, <1>2, <2>1, <2>2, <2>3, AnswerStep DEF GwSteps
<1> QED
  BY <1>3, <1>4 DEF Reserve, DbFault

\* The provider's answer: the row is written next, or cannot be any more.
LEMMA ProviderStep ==
  ASSUME GwInv, NEW c \in Calls,
         TurnDone(c) \/ TurnFails(c) \/ ProviderSucceeds(c) \/ ProviderFails(c)
  PROVE  GwInv'
<1>1. /\ step[c] = "provider" /\ service # "ended" /\ CallFits(c) /\ conn[c] \in {"open", "cut", "gone"}
      /\ acct[c] = "reserved" /\ said[c] = "nothing" /\ c \notin billed
  BY CallTypes DEF TurnDone, TurnFails, ProviderSucceeds, ProviderFails, CallFits, RowFits, ConnectionFits
<1>2. UNCHANGED <<service, acct, signal, blocked, forced, dbFaults>>
  BY DEF TurnDone, TurnFails, ProviderSucceeds, ProviderFails
<1>3. PICK how \in {"settle", "fail"}, what \in {"ok", "failed", "broken off"} :
        /\ Account(c, how) /\ (how = "fail" => what # "ok" /\ billed' = billed)
        /\ billed' = billed \/ billed' = billed \cup {c}
        /\ Send(c, what) \/ (PoolOpen /\ UNCHANGED <<said, conn, slots>>)
  BY DEF TurnDone, TurnFails, ProviderSucceeds, ProviderFails, AnswersLater
<1>4. PICK s \in {how, "over"} :
        step' = [step EXCEPT ![c] = s] /\ step'[c] = s /\ (s = how \/ ~PoolOpen) /\ (s = "over" => ~PoolOpen)
  BY <1>3, CallTypes DEF Account, Goes, Over
<1>5. SaidEffect(c, what) \/ (PoolOpen /\ UNCHANGED <<said, conn, slots>>)
  BY <1>1, <1>2, <1>3, SendEffect
<1>6. /\ said'[c] \in {"nothing", what} /\ conn'[c] \in {"open", "cut", "gone", "done"}
      /\ conn'[c] # conn[c] => conn'[c] = "done" /\ conn[c] = "open"
  BY <1>1, <1>5 DEF SaidEffect
<1>7. s = "over" => forced \/ conn'[c] = "gone"
  <2>1. s = "over" => service = "stopping"
    BY <1>1, <1>4, CallTypes DEF PoolOpen
  <2> QED
    BY <1>1, <1>6, <2>1 DEF CallFits, EndFits
<1>8. RowFits(c)' /\ ConnectionFits(c)'
  BY <1>1, <1>2, <1>3, <1>4, <1>6 DEF RowFits, ConnectionFits
<1>9. EndFits(c)'
  BY <1>1, <1>2, <1>4, <1>6, <1>7 DEF EndFits, CallFits
<1> QED
  BY <1>1, <1>2, <1>3, <1>4, <1>5, <1>8, <1>9, AnswerStep DEF CallFits, GwSteps

\* The row is written, or is not, or the write is tried again.
LEMMA RecordedStep ==
  ASSUME GwInv, NEW c \in Calls, Settle(c) \/ Fail(c)
  PROVE  GwInv'
<1>1. PICK from \in {"settle", "fail"}, to \in {"settled", "failed"}, what \in {"ok", "refused", "failed"} :
        /\ Recorded(c, from, to, what)
        /\ from = "settle" => to = "settled"
        /\ from = "fail" => what = "failed"
  BY DEF Settle, Fail
<1>2. /\ step[c] = from /\ service # "ended" /\ CallFits(c) /\ acct[c] = "reserved"
      /\ from = "fail" => c \notin billed /\ said[c] # "ok"
      /\ conn[c] # "none"
  BY <1>1, CallTypes DEF Recorded, CallFits, RowFits, ConnectionFits
<1>3. UNCHANGED <<service, signal, blocked, billed, forced>>
  BY <1>1 DEF Recorded
<1>4. SaidEffect(c, what) \/ UNCHANGED <<said, conn, slots>>
  BY <1>1, <1>2, <1>3, SendEffect DEF Recorded
<1>5. /\ said'[c] \in {said[c], what} /\ conn'[c] \in {conn[c], "done"} /\ conn'[c] # "none"
      /\ conn'[c] # conn[c] => conn'[c] = "done"
  BY <1>2, <1>4 DEF SaidEffect
<1>0. dbFaults \in Nat
  BY DEF GwInv, GwTypes
<1>9. DbFault => dbFaults' = dbFaults + 1 /\ dbFaults' > 0
  BY <1>0 DEF DbFault
<1>6. CASE /\ acct' = [acct EXCEPT ![c] = to] /\ Over(c) /\ UNCHANGED dbFaults
  <2>1. /\ step' = [step EXCEPT ![c] = "over"] /\ step'[c] = "over" /\ acct'[c] = to
    BY <1>6, CallTypes DEF Over
  <2>2. RowFits(c)' /\ ConnectionFits(c)'
    BY <1>1, <1>2, <1>3, <1>5, <2>1 DEF RowFits, ConnectionFits
  <2>3. EndFits(c)'
    BY <1>2, <1>3, <1>5, <2>1 DEF EndFits, CallFits
  <2>4. CallFits(c)'
    BY <2>2, <2>3 DEF CallFits
  <2>5. acct' = [acct EXCEPT ![c] = "settled"] \/ acct' = [acct EXCEPT ![c] = "failed"]
    BY <1>6
  <2> QED
    BY <1>2, <1>3, <1>4, <1>6, <2>1, <2>4, <2>5, AnswerStep DEF GwSteps
<1>7. CASE DbFault /\ UNCHANGED acct /\ from = "settle" /\ UNCHANGED <<step, said, conn, slots>>
  <2>1. step' = [step EXCEPT ![c] = "settle"] /\ dbFaults' = dbFaults + 1 /\ dbFaults' > 0
    BY <1>2, <1>7, <1>9 DEF GwInv, GwTypes
  <2>2. CallFits(c)'
    BY <1>2, <1>3, <1>7, <2>1 DEF CallFits, RowFits, ConnectionFits, EndFits, Streams
  <2> QED
    BY <1>2, <1>3, <1>7, <2>1, <2>2, AnswerStep DEF GwSteps
<1>8. CASE DbFault /\ UNCHANGED acct /\ Over(c)
  <2>1. /\ step' = [step EXCEPT ![c] = "over"] /\ step'[c] = "over"
        /\ dbFaults' = dbFaults + 1 /\ dbFaults' > 0
    BY <1>8, <1>9, CallTypes DEF Over
  <2>2. RowFits(c)' /\ ConnectionFits(c)'
    BY <1>2, <1>3, <1>5, <1>8, <2>1 DEF RowFits, ConnectionFits
  <2>3. EndFits(c)'
    BY <1>2, <1>3, <1>5, <2>1 DEF EndFits, CallFits
  <2>4. CallFits(c)'
    BY <2>2, <2>3 DEF CallFits
  <2> QED
    BY <1>2, <1>3, <1>4, <1>8, <2>1, <2>4, AnswerStep DEF GwSteps
<1> QED
  BY <1>1, <1>6, <1>7, <1>8 DEF Recorded

\* A client that goes, or whose connection's end is noticed.
LEMMA GoneStep ==
  ASSUME GwInv, NEW c \in Calls, ClientGivesUp(c) \/ CutIsNoticed(c)
  PROVE  GwInv'
<1>1. /\ conn[c] \in {"open", "cut"} /\ CloseWith(c, "gone") /\ Raise(c) /\ blocked' = blocked \ {c}
      /\ UNCHANGED <<service, step, acct, said, billed, forced, dbFaults>>
  BY DEF ClientGivesUp, CutIsNoticed, StreamOpen
<1>2. CallFits(c) /\ service # "ended" /\ step[c] # "none"
  BY <1>1, CallTypes DEF CallFits, ConnectionFits, EndFits
<1>3. /\ conn' \in [Calls -> GwConns] /\ conn'[c] = "gone" /\ slots' \in 0 .. MaxAudio
      /\ SlotsMatchRequests' /\ \A d \in Calls \ {c} : conn'[d] = conn[d]
  BY <1>1, <1>2, CloseWithEffect
<1>4. /\ signal' \in [Calls -> {"unset", "armed", "raised"}] /\ signal'[c] # "armed"
      /\ signal'[c] = "unset" => signal[c] = "unset"
      /\ \A d \in Calls \ {c} : signal'[d] = signal[d]
  BY <1>1 DEF Raise, GwInv, GwTypes
<1>5. GwTypes' /\ GwOthersSame(c)
  BY <1>1, <1>3, <1>4 DEF GwInv, GwTypes, GwOthersSame
<1>6. CallFits(c)'
  BY <1>1, <1>2, <1>3, <1>4 DEF CallFits, RowFits, ConnectionFits, EndFits, Streams
<1> QED
  BY <1>1, <1>3, <1>5, <1>6, OtherCallsFit

\* The shutdown, which may cut connections.
LEMMA ShutdownStep ==
  ASSUME GwInv, GatewayShutdown \/ DrainCompletes \/ StreamDrainTimesOut
  PROVE  GwInv'
<1>1. /\ UNCHANGED <<step, acct, said, signal, blocked, slots, billed, dbFaults>>
      /\ service # "ended" /\ service' \in {"draining", "stopping"}
      /\ \A c \in Calls : conn'[c] = conn[c] \/ (conn[c] = "open" /\ conn'[c] = "cut")
      /\ conn' \in [Calls -> GwConns] /\ forced' \in BOOLEAN /\ (forced => forced')
      /\ service' = "stopping" /\ ~forced' => \A c \in Calls : conn'[c] \notin {"open", "cut"}
  <2>1. GwTypes
    BY DEF GwInv
  <2>2. CASE GatewayShutdown
    BY <2>1, <2>2 DEF GatewayShutdown, GwTypes
  <2>3. CASE DrainCompletes
    BY <2>1, <2>3 DEF DrainCompletes, GwTypes
  <2>4. CASE StreamDrainTimesOut
    <3>1. conn \in [Calls -> GwConns] /\ "cut" \in GwConns
      BY <2>1 DEF GwTypes, GwConns
    <3>2. conn' \in [Calls -> GwConns]
      BY <2>4, <3>1 DEF StreamDrainTimesOut
    <3> QED
      BY <2>1, <2>4, <3>2 DEF StreamDrainTimesOut, StreamOpen, GwTypes
  <2> QED
    BY <2>2, <2>3, <2>4
<1>2. GwTypes'
  BY <1>1 DEF GwInv, GwTypes
<1>3. ASSUME NEW c \in Calls PROVE CallFits(c)'
  <2>1. CallFits(c)
    BY DEF GwInv
  <2>2. RowFits(c)'
    BY <1>1, <2>1 DEF CallFits, RowFits
  <2>3. ConnectionFits(c)'
    BY <1>1, <2>1 DEF CallFits, ConnectionFits, Streams
  <2>4. EndFits(c)'
    BY <1>1, <2>1 DEF CallFits, EndFits
  <2> QED
    BY <2>2, <2>3, <2>4 DEF CallFits
<1>4. SlotsMatchRequests'
  BY <1>1, SlotsStay
<1> QED
  BY <1>2, <1>3, <1>4 DEF GwInv

LEMMA ExitStep ==
  ASSUME GwInv, Exit
  PROVE  GwInv'
<1>1. /\ service = "stopping" /\ service' = "ended" /\ slots' = 0 /\ blocked' = {}
      /\ UNCHANGED <<acct, said, signal, billed, forced>>
      /\ step' = [c \in Calls |-> IF step[c] = "none" THEN "none" ELSE "over"]
      /\ conn' = [c \in Calls |-> IF conn[c] \in {"open", "cut"} THEN "gone" ELSE conn[c]]
  BY DEF Exit
<1>2. /\ dbFaults \in Nat /\ dbFaults' \in Nat
      /\ dbFaults > 0 => dbFaults' > 0
      /\ dbFaults' > 0 \/ \A c \in Calls : step[c] \notin {"settle", "fail"}
  <2>1. dbFaults \in Nat
    BY DEF GwInv, GwTypes
  <2> QED
    BY <2>1 DEF Exit, DbFault
<1>3. GwTypes'
  <2>1. GwTypes
    BY DEF GwInv
  <2>2. step' \in [Calls -> GwSteps]
    BY <1>1, <2>1 DEF GwTypes, GwSteps
  <2>3. conn' \in [Calls -> GwConns]
    BY <1>1, <2>1 DEF GwTypes, GwConns
  <2>4. 0 \in 0 .. MaxAudio
    BY GatewayAssumption
  <2> QED
    BY <1>1, <1>2, <2>1, <2>2, <2>3, <2>4 DEF GwTypes
<1>4. ASSUME NEW c \in Calls PROVE CallFits(c)'
  <2>1. CallFits(c) /\ step[c] \in GwSteps /\ acct[c] \in {"none", "reserved", "settled", "failed"}
    BY CallTypes
  <2>2. /\ step'[c] = IF step[c] = "none" THEN "none" ELSE "over"
        /\ conn'[c] = IF conn[c] \in {"open", "cut"} THEN "gone" ELSE conn[c]
    BY <1>1
  <2>3. RowFits(c)'
    BY <1>1, <2>1, <2>2 DEF CallFits, RowFits, GwSteps
  <2>4. ConnectionFits(c)'
    BY <1>1, <2>1, <2>2 DEF CallFits, ConnectionFits
  <2>5. EndFits(c)'
    BY <1>1, <1>2, <2>1, <2>2 DEF CallFits, RowFits, ConnectionFits, EndFits, GwSteps
  <2> QED
    BY <2>3, <2>4, <2>5 DEF CallFits
<1> QED
  BY <1>1, <1>3, <1>4 DEF GwInv, SlotsMatchRequests

LEMMA GwInvInit == GwInit => GwInv
<1> SUFFICES ASSUME GwInit PROVE GwInv
  OBVIOUS
<1>1. GwTypes /\ \A c \in Calls : CallFits(c)
  <2>1. 0 \in 0 .. MaxAudio
    BY GatewayAssumption
  <2>2. GwTypes
    BY <2>1 DEF GwInit, GwTypes, GwSteps, GwConns
  <2>3. ASSUME NEW c \in Calls PROVE CallFits(c)
    <3>1. /\ step[c] = "none" /\ conn[c] = "none" /\ acct[c] = "none" /\ said[c] = "nothing"
          /\ c \notin billed /\ service = "serving"
      BY DEF GwInit
    <3> QED
      BY <3>1 DEF CallFits, RowFits, ConnectionFits, EndFits
  <2> QED
    BY <2>2, <2>3
<1>2. {c \in Calls : Audio(c) /\ conn[c] \in {"open", "cut"}} = {}
  BY DEF GwInit
<1> QED
  BY <1>1, <1>2, FS_EmptySet DEF GwInit, GwInv, SlotsMatchRequests

LEMMA GwInvStep == ASSUME GwInv, [GwNext]_gwVars PROVE GwInv'
<1>1. CASE UNCHANGED gwVars
  <2>1. GwTypes' /\ SlotsMatchRequests'
    BY <1>1 DEF gwVars, GwInv, GwTypes, SlotsMatchRequests, Audio
  <2>2. \A c \in Calls : CallFits(c)'
    BY <1>1 DEF gwVars, GwInv, CallFits, RowFits, ConnectionFits, EndFits, Streams
  <2> QED
    BY <2>1, <2>2 DEF GwInv
<1>2. CASE \E c \in Calls : Dispatch(c)
  BY <1>2, DispatchStep
<1>3. CASE \E c \in Calls : ReadBody(c) \/ BufferFull(c) \/ ReaderReads(c)
  BY <1>3, QuietStep
<1>4. CASE \E c \in Calls : RefuseBody(c) \/ Reserve(c)
  BY <1>4, RefuseStep, ReserveStep
<1>5. CASE \E c \in Calls : TurnDone(c) \/ TurnFails(c) \/ ProviderSucceeds(c) \/ ProviderFails(c)
  BY <1>5, ProviderStep
<1>6. CASE \E c \in Calls : Settle(c) \/ Fail(c)
  BY <1>6, RecordedStep
<1>7. CASE \E c \in Calls : ClientGivesUp(c) \/ CutIsNoticed(c)
  BY <1>7, GoneStep
<1>8. CASE GatewayShutdown \/ DrainCompletes \/ StreamDrainTimesOut
  BY <1>8, ShutdownStep
<1>9. CASE Exit
  BY <1>9, ExitStep
<1> QED
  BY <1>1, <1>2, <1>3, <1>4, <1>5, <1>6, <1>7, <1>8, <1>9 DEF GwNext, HandlerStep

LEMMA GwInvariance == GwSpec => []GwInv
<1>1. GwInv /\ [GwNext]_gwVars => GwInv'
  BY GwInvStep
<1> QED
  BY GwInvInit, <1>1, PTL DEF GwSpec

(* A call that the provider completed, or whose client was given a result, *)
(* has a row that counts against the budget, whatever becomes of client,   *)
(* database and process (settleWithRetry, piMessagesHandler).              *)
THEOREM BilledCallsAreCounted == GwSpec => []BilledIsCounted
<1>1. GwInv => BilledIsCounted
  BY DEF GwInv, CallFits, RowFits, BilledIsCounted, Conclusion
<1> QED
  BY GwInvariance, <1>1, PTL

(* When the process has exited, a row is left reserved only because of a   *)
(* database failure, a client that had gone, or a drain cut short.         *)
THEOREM StrandedRowsHaveACause == GwSpec => []ReservedNeedsACause
<1>1. GwInv => ReservedNeedsACause
  BY DEF GwInv, CallFits, RowFits, EndFits, ReservedNeedsACause
<1> QED
  BY GwInvariance, <1>1, PTL

(* The limiter's count is the number of open audio requests, for any       *)
(* number of requests and slots: none is lost when a client goes and none  *)
(* freed twice (createAudioConcurrencyLimit).                              *)
THEOREM SlotsAreExact == GwSpec => []SlotsMatchRequests
<1>1. GwInv => SlotsMatchRequests
  BY DEF GwInv
<1> QED
  BY GwInvariance, <1>1, PTL

(* The provider of a call whose client has gone was told to stop, unless a *)
(* stream's client went before its turn began (abortOnDisconnect).         *)
THEOREM GoneClientsStopTheirProvider == GwSpec => []GoneClientStopsProvider
<1>1. GwInv => GoneClientStopsProvider
  <2> SUFFICES ASSUME GwInv, NEW c \in Calls, step[c] = "provider", conn[c] = "gone"
               PROVE  signal[c] = "raised" \/ (Streams(c) /\ signal[c] = "unset")
    BY DEF GoneClientStopsProvider
  <2> QED
    BY CallTypes DEF CallFits, ConnectionFits
<1> QED
  BY GwInvariance, <1>1, PTL

-----------------------------------------------------------------------------
\* A set any two of whose elements are equal has at most one.
LEMMA AtMostOne ==
  ASSUME NEW S, \A x, y \in S : x = y
  PROVE  IsFiniteSet(S) /\ Cardinality(S) \in Nat /\ Cardinality(S) <= 1
<1>1. CASE S = {}
  BY <1>1, FS_EmptySet
<1>2. CASE S # {}
  <2>1. PICK x \in S : S = {x}
    BY <1>2
  <2> QED
    BY <2>1, FS_Singleton
<1> QED
  BY <1>1, <1>2
-----------------------------------------------------------------------------
(* The job queue. *)

JobStates == [there : BOOLEAN, keyed : BOOLEAN, payload : Nat, tries : 0 .. MaxTries,
              worker : QueueWorkers \cup {NoWorker}, stamped : BOOLEAN, excused : BOOLEAN]
RunStates == [step : {"fetched", "handler", "threw"}, job : JobIds, keyed : {TRUE}, read : Nat] \cup {QueueIdle}
Reads == [step : {"read"}, job : JobIds, payload : Nat]

QueueTyped ==
    /\ want \in 0 .. MaxChanges /\ covered \in 0 .. want /\ diedAt \in 0 .. want /\ droppedAt \in 0 .. want
    /\ jobRows \in [JobIds -> JobStates] /\ running \in [QueueWorkers -> RunStates]
    /\ stamp \in Reads \cup {NoStamp} /\ stampOvertaken \in BOOLEAN /\ tenantActive \in BOOLEAN

\* A row that is not there carries nothing; one without its key is never tried again.
RowsFit(rows) ==
    \A j \in JobIds : /\ ~rows[j].there => rows[j] = NoJob
                      /\ rows[j].there /\ ~rows[j].keyed => rows[j].tries = MaxTries

OneKey(rows) == \A i, j \in JobIds : rows[i].keyed /\ rows[j].keyed => i = j

\* A worker has the job it runs.
WorkersHold == \A w \in QueueWorkers : running[w] # QueueIdle =>
                  jobRows[running[w].job].there /\ jobRows[running[w].job].worker = w

PayloadsFit ==
    /\ \A j \in JobIds : jobRows[j].payload <= want
    /\ \A w \in QueueWorkers : running[w].read <= want
    /\ stamp.step = "read" => stamp.payload <= want /\ (stamp.payload = want \/ stampOvertaken)

\* A job of the key that is locked is run by a worker, which has read the newest change if any.
HoldersRun ==
    \A j \in JobIds : jobRows[j].keyed => Available(jobRows[j]) \/ Accounted \/
        \E w \in QueueWorkers : /\ running[w] # QueueIdle /\ running[w].job = j
                                /\ running[w].step = "handler" => running[w].read = want

KeyIsHeld == Accounted \/ \E j \in JobIds : jobRows[j].keyed

QueueInv ==
    /\ QueueTyped /\ RowsFit(jobRows) /\ OneKey(jobRows) /\ WorkersHold /\ PayloadsFit
    /\ KeyIsHeld /\ HoldersRun /\ WaitingIsNewest /\ SupersededIsNotDead

LEMMA JobIdsAre == JobIds \subseteq Nat /\ 1 \in JobIds /\ 0 \notin JobIds
  BY QueueAssumption DEF JobIds

LEMMA QueueRecords ==
  /\ NoJob \in JobStates /\ ~NoJob.there /\ ~NoJob.keyed /\ NoJob.payload = 0 /\ NoJob.worker = NoWorker
  /\ QueueIdle.step = "idle" /\ QueueIdle.read = 0 /\ NoStamp.step = "none"
  /\ \A p \in Nat : New(p) \in JobStates /\ New(p).there /\ New(p).keyed /\ New(p).payload = p
                      /\ New(p).worker = NoWorker /\ New(p).tries = 0 /\ Available(New(p))
  BY QueueAssumption DEF NoJob, New, QueueIdle, NoStamp, JobStates, Available

LEMMA QueueInitially == QueueInit => QueueInv
<1> SUFFICES ASSUME QueueInit PROVE QueueInv
  OBVIOUS
<1>1. \/ want = 0 /\ \A j \in JobIds : jobRows[j] = NoJob
      \/ want = 1 /\ jobRows[1].payload = 1 /\ jobRows[1].keyed /\ jobRows[1].there
           /\ Available(jobRows[1]) /\ jobRows[1] \in JobStates /\ \A j \in JobIds \ {1} : jobRows[j] = NoJob
  <2> DEFINE legacy == [NoJob EXCEPT !.there = TRUE, !.keyed = TRUE, !.payload = 1]
  <2>1. legacy \in JobStates /\ legacy.payload = 1 /\ legacy.keyed /\ legacy.there /\ Available(legacy)
    <3>1. NoJob \in JobStates
      BY QueueRecords
    <3>2. legacy \in JobStates
      BY <3>1 DEF JobStates
    <3>3. legacy.payload = 1 /\ legacy.keyed /\ legacy.there
      BY DEF NoJob
    <3>4. legacy.worker = NoWorker /\ legacy.tries = 0
      BY DEF NoJob
    <3> HIDE DEF legacy
    <3> QED
      BY <3>2, <3>3, <3>4, QueueAssumption DEF Available
  <2> HIDE DEF legacy
  <2>2. \/ want = 0 /\ jobRows = [j \in JobIds |-> NoJob]
        \/ want = 1 /\ jobRows = [j \in JobIds |-> IF j = 1 THEN legacy ELSE NoJob]
    BY DEF QueueInit, legacy
  <2> QED
    BY <2>1, <2>2, JobIdsAre
<1>2. QueueTyped
  <2>1. want \in 0 .. MaxChanges /\ covered \in 0 .. want /\ diedAt \in 0 .. want /\ droppedAt \in 0 .. want
    BY QueueAssumption DEF QueueInit
  <2>2. jobRows \in [JobIds -> JobStates]
    BY <1>1, QueueRecords DEF QueueInit
  <2> QED
    BY <2>1, <2>2 DEF QueueInit, QueueTyped, RunStates
<1>3. RowsFit(jobRows) /\ OneKey(jobRows)
  BY <1>1, QueueRecords DEF RowsFit, OneKey
<1>4. WorkersHold /\ PayloadsFit
  BY <1>1, QueueRecords DEF QueueInit, WorkersHold, PayloadsFit
<1>5. KeyIsHeld /\ HoldersRun /\ WaitingIsNewest
  BY <1>1, QueueRecords, JobIdsAre DEF QueueInit, KeyIsHeld, HoldersRun, Accounted, WaitingIsNewest, KeyHolders
<1>6. SupersededIsNotDead
  BY <1>1, QueueRecords DEF SupersededIsNotDead
<1> QED
  BY <1>2, <1>3, <1>4, <1>5, <1>6 DEF QueueInv

\* A row that add_job leaves without its key.
Superseded(row) == [row EXCEPT !.keyed = FALSE, !.tries = MaxTries, !.excused = @ \/ row.worker = NoWorker]

LEMMA SupersededRow ==
  ASSUME NEW row \in JobStates
  PROVE  /\ Superseded(row) \in JobStates
         /\ Superseded(row).there = row.there /\ ~Superseded(row).keyed
         /\ Superseded(row).tries = MaxTries /\ Superseded(row).worker = row.worker
         /\ Superseded(row).payload = row.payload
         /\ Superseded(row).excused = (row.excused \/ row.worker = NoWorker)
<1>1. ASSUME NEW b \in BOOLEAN, NEW t \in 0 .. MaxTries
      PROVE  LET s == [row EXCEPT !.keyed = FALSE, !.tries = t, !.excused = b] IN
             /\ s \in JobStates /\ s.there = row.there /\ ~s.keyed /\ s.tries = t
             /\ s.worker = row.worker /\ s.payload = row.payload /\ s.excused = b
  <2> DEFINE s == [row EXCEPT !.keyed = FALSE, !.tries = t, !.excused = b]
  <2>1. s \in JobStates
    BY DEF JobStates
  <2>2. s.there = row.there /\ s.tries = t /\ s.worker = row.worker /\ s.payload = row.payload
    BY DEF JobStates
  <2>3. ~s.keyed
    BY DEF JobStates
  <2>4. s.excused = b
    BY DEF JobStates
  <2> QED
    BY <2>1, <2>2, <2>3, <2>4
<1>4. MaxTries \in 0 .. MaxTries
  BY QueueAssumption
<1> DEFINE e == row.excused \/ row.worker = NoWorker
<1>2. e \in BOOLEAN
  OBVIOUS
<1>3. Superseded(row) = [row EXCEPT !.keyed = FALSE, !.tries = MaxTries, !.excused = e]
  BY Zenon DEF Superseded
<1> HIDE DEF e
<1>5. LET s == [row EXCEPT !.keyed = FALSE, !.tries = MaxTries, !.excused = e] IN
        /\ s \in JobStates /\ s.there = row.there /\ ~s.keyed /\ s.tries = MaxTries
        /\ s.worker = row.worker /\ s.payload = row.payload /\ s.excused = e
  BY <1>1, <1>2, <1>4
<1> QED
  BY <1>3, <1>5, Zenon DEF e

LEMMA FirstFreeIsFree ==
  ASSUME NEW rows, \E j \in JobIds : ~rows[j].there
  PROVE  FirstFree(rows) \in JobIds /\ ~rows[FirstFree(rows)].there
<1> DEFINE T == {j \in JobIds : ~rows[j].there}
<1>1. PICK x \in T : \A y \in T : x <= y
  BY JobIdsAre, Least
<1> QED
  BY <1>1 DEF FirstFree

(* add_job: one row has the new job under the key; the row that had the    *)
(* key before is that one, or has lost it for good.                        *)
LEMMA AddJobEffect ==
  ASSUME NEW rows \in [JobIds -> JobStates], NEW p \in Nat, RowsFit(rows), OneKey(rows),
         \E j \in JobIds : ~rows[j].there
  PROVE  /\ AddJob(rows, p) \in [JobIds -> JobStates]
         /\ \E k \in JobIds :
              /\ AddJob(rows, p)[k] = New(p)
              /\ rows[k].worker = NoWorker \/ ~rows[k].there
              /\ \A j \in JobIds \ {k} :
                   \/ ~rows[j].keyed /\ AddJob(rows, p)[j] = rows[j]
                   \/ rows[j].keyed /\ rows[j].there /\ AddJob(rows, p)[j] = Superseded(rows[j])
<1> DEFINE held == {j \in JobIds : rows[j].there /\ rows[j].keyed}
           free == {j \in held : Available(rows[j])}
<1>0. \A j \in JobIds : rows[j].keyed <=> j \in held
  BY QueueRecords DEF RowsFit
<1>1. CASE free # {}
  <2>1. PICK k \in free : TRUE
    BY <1>1
  <2>2. free = {k} /\ held = {k}
    BY <2>1, <1>0 DEF OneKey
  <2>3. AddJob(rows, p) = [j \in JobIds |-> IF j \in free THEN New(p) ELSE rows[j]]
    BY <1>1 DEF AddJob
  <2>4. \A j \in JobIds : AddJob(rows, p)[j] = IF j = k THEN New(p) ELSE rows[j]
    BY <2>2, <2>3
  <2>5. AddJob(rows, p) \in [JobIds -> JobStates]
    BY <2>3, QueueRecords
  <2>6. \A j \in JobIds \ {k} : ~rows[j].keyed
    BY <1>0, <2>2
  <2>7. rows[k].worker = NoWorker
    BY <2>1 DEF Available
  <2> QED
    BY <2>1, <2>4, <2>5, <2>6, <2>7
<1>2. CASE free = {}
  <2> DEFINE k == FirstFree(rows)
             r == [j \in JobIds |-> CASE j \in held -> Superseded(rows[j])
                                       [] j = k -> New(p)
                                       [] OTHER -> rows[j]]
  <2>1. k \in JobIds /\ ~rows[k].there /\ k \notin held
    BY FirstFreeIsFree, Zenon
  <2>2. AddJob(rows, p) = r
    BY <1>2 DEF AddJob, Superseded
  <2> HIDE DEF k, held
  <2>3. \A j \in JobIds : r[j] = IF j \in held THEN Superseded(rows[j]) ELSE IF j = k THEN New(p) ELSE rows[j]
    BY <2>1
  <2>4. \A j \in JobIds : Superseded(rows[j]) \in JobStates
    BY SupersededRow
  <2>5. r \in [JobIds -> JobStates]
    BY <2>3, <2>4, QueueRecords
  <2> HIDE DEF r
  <2>6. r[k] = New(p)
    BY <2>1, <2>3
  <2>7. \A j \in JobIds : j \in held => rows[j].there
    BY DEF held
  <2>8. \A j \in JobIds \ {k} : \/ ~rows[j].keyed /\ r[j] = rows[j]
                                \/ rows[j].keyed /\ rows[j].there /\ r[j] = Superseded(rows[j])
    BY <1>0, <2>3, <2>7
  <2> QED
    BY <2>1, <2>2, <2>5, <2>6, <2>8
<1> QED
  BY <1>1, <1>2

\* What a new job leaves to be shown, from the rows it was added to.
LEMMA AddJobKeeps ==
  ASSUME QueueInv, NEW rows \in [JobIds -> JobStates], NEW p \in Nat, RowsFit(rows), OneKey(rows),
         \E j \in JobIds : ~rows[j].there, want' \in Nat, p <= want', want <= want',
         \A j \in JobIds : rows[j] = jobRows[j] \/ (rows[j] = NoJob /\ jobRows[j].worker = NoWorker),
         jobRows' = AddJob(rows, p), p = want' \/ stampOvertaken', running' = running
  PROVE  /\ jobRows' \in [JobIds -> JobStates] /\ RowsFit(jobRows)' /\ OneKey(jobRows)' /\ WorkersHold'
         /\ \A j \in JobIds : jobRows'[j].payload <= want'
         /\ KeyIsHeld' /\ HoldersRun' /\ WaitingIsNewest' /\ SupersededIsNotDead'
<1>1. PICK k \in JobIds :
        /\ jobRows'[k] = New(p)
        /\ rows[k].worker = NoWorker \/ ~rows[k].there
        /\ \A j \in JobIds \ {k} :
             \/ ~rows[j].keyed /\ jobRows'[j] = rows[j]
             \/ rows[j].keyed /\ rows[j].there /\ jobRows'[j] = Superseded(rows[j])
  BY AddJobEffect
<1>2. jobRows' \in [JobIds -> JobStates]
  BY AddJobEffect
<1>3. New(p) \in JobStates /\ New(p).there /\ New(p).keyed /\ New(p).payload = p /\ New(p).worker = NoWorker
      /\ New(p).tries = 0 /\ Available(New(p))
  BY QueueRecords
<1>4. \A j \in JobIds : LET s == Superseded(rows[j]) IN
        /\ s.there = rows[j].there /\ ~s.keyed /\ s.tries = MaxTries /\ s.worker = rows[j].worker
        /\ s.payload = rows[j].payload
        /\ s.excused = (rows[j].excused \/ rows[j].worker = NoWorker)
  BY SupersededRow
<1>5. \A j \in JobIds \ {k} : ~jobRows'[j].keyed
  BY <1>1, <1>4
<1>6. RowsFit(jobRows)'
  BY <1>1, <1>3, <1>4 DEF RowsFit
<1>7. OneKey(jobRows)'
  BY <1>5 DEF OneKey
<1>8. WorkersHold'
  <2> SUFFICES ASSUME NEW w \in QueueWorkers, running[w] # QueueIdle
               PROVE  jobRows'[running[w].job].there /\ jobRows'[running[w].job].worker = w
    BY DEF WorkersHold
  <2> DEFINE j == running[w].job
  <2>1. j \in JobIds /\ jobRows[j].there /\ jobRows[j].worker = w /\ w # NoWorker
    <3>1. running[w] \in RunStates \ {QueueIdle}
      BY DEF QueueInv, QueueTyped
    <3> QED
      BY <3>1, QueueAssumption DEF QueueInv, WorkersHold, RunStates
  <2>2. rows[j] = jobRows[j]
    BY <2>1
  <2>3. j # k
    BY <1>1, <2>1, <2>2
  <2> QED
    BY <1>1, <1>4, <2>1, <2>2, <2>3
<1>9. \A j \in JobIds : jobRows'[j].payload <= want'
  <2>0. want \in Nat /\ want' \in Nat
    BY DEF QueueInv, QueueTyped
  <2>1. \A j \in JobIds : rows[j].payload \in Nat /\ rows[j].payload <= want'
    <3> SUFFICES ASSUME NEW j \in JobIds PROVE rows[j].payload <= want'
      BY DEF JobStates
    <3>1. CASE rows[j] = jobRows[j]
      <4>1. rows[j].payload \in Nat /\ rows[j].payload <= want /\ want \in Nat
        BY <3>1 DEF JobStates, QueueInv, PayloadsFit, QueueTyped
      <4> QED
        BY <4>1, <2>0
    <3>2. CASE rows[j] = NoJob
      BY <3>2, <2>0, QueueRecords
    <3> QED
      BY <3>1, <3>2
  <2> QED
    BY <2>1, <1>1, <1>3, <1>4
<1>10. KeyIsHeld' /\ HoldersRun'
  BY <1>1, <1>3, <1>5 DEF KeyIsHeld, HoldersRun
<1>11. WaitingIsNewest'
  BY <1>1, <1>3, <1>5 DEF WaitingIsNewest, KeyHolders
<1>12. SupersededIsNotDead'
  <2> SUFFICES ASSUME NEW j \in JobIds, jobRows'[j].there, jobRows'[j].worker = NoWorker,
                      jobRows'[j].tries = MaxTries
               PROVE  jobRows'[j].keyed \/ jobRows'[j].excused
    BY DEF SupersededIsNotDead
  <2>1. CASE j = k
    BY <2>1, <1>1, <1>3
  <2>2. CASE j # k /\ rows[j].keyed
    BY <2>2, <1>1, <1>4
  <2>3. CASE j # k /\ ~rows[j].keyed
    <3>1. jobRows'[j] = rows[j] /\ rows[j] = jobRows[j]
      BY <2>3, <1>1, QueueRecords
    <3> QED
      BY <3>1 DEF QueueInv, SupersededIsNotDead
  <2> QED
    BY <2>1, <2>2, <2>3
<1> QED
  BY <1>2, <1>6, <1>7, <1>8, <1>9, <1>10, <1>11, <1>12

\* A run has the job of its worker.
LEMMA RunFacts ==
  ASSUME QueueInv, NEW w \in QueueWorkers, running[w] # QueueIdle
  PROVE  /\ running[w].job \in JobIds /\ running[w].keyed /\ running[w].read \in Nat /\ running[w].read <= want
         /\ running[w].step \in {"fetched", "handler", "threw"}
         /\ jobRows[running[w].job] \in JobStates
         /\ jobRows[running[w].job].there /\ jobRows[running[w].job].worker = w /\ w # NoWorker
         /\ \A v \in QueueWorkers \ {w} : running[v] # QueueIdle => running[v].job # running[w].job
<1>1. running[w] \in RunStates \ {QueueIdle} /\ jobRows \in [JobIds -> JobStates]
  BY DEF QueueInv, QueueTyped
<1>2. running[w].job \in JobIds /\ running[w].keyed /\ running[w].read \in Nat
      /\ running[w].step \in {"fetched", "handler", "threw"}
  BY <1>1 DEF RunStates
<1>3. running[w].read <= want
  BY DEF QueueInv, PayloadsFit
<1> QED
  BY <1>1, <1>2, <1>3, QueueAssumption DEF QueueInv, WorkersHold

LEMMA EnqueueKeepsQueue == ASSUME QueueInv, EnqueueJob PROVE QueueInv'
<1> USE DEF EnqueueJob
<1>1. want + 1 = want' /\ want' \in 1 .. MaxChanges /\ want \in Nat /\ want' \in Nat /\ want <= want'
  BY QueueAssumption DEF QueueInv, QueueTyped
<1>2. stamp.step = "read" => stampOvertaken'
  <2>1. stamp = NoStamp \/ stampOvertaken'
    OBVIOUS
  <2> QED
    BY <2>1, QueueRecords
<1>3. /\ jobRows' \in [JobIds -> JobStates] /\ RowsFit(jobRows)' /\ OneKey(jobRows)' /\ WorkersHold'
      /\ \A j \in JobIds : jobRows'[j].payload <= want'
      /\ KeyIsHeld' /\ HoldersRun' /\ WaitingIsNewest' /\ SupersededIsNotDead'
  <2>1. jobRows \in [JobIds -> JobStates] /\ RowsFit(jobRows) /\ OneKey(jobRows)
    BY DEF QueueInv, QueueTyped
  <2>2. \A j \in JobIds : jobRows[j] = jobRows[j] \/ (jobRows[j] = NoJob /\ jobRows[j].worker = NoWorker)
    OBVIOUS
  <2>3. jobRows' = AddJob(jobRows, want') /\ running' = running /\ \E j \in JobIds : ~jobRows[j].there
    BY <1>1 DEF Absent
  <2> HIDE DEF EnqueueJob
  <2> QED
    BY <1>1, <2>1, <2>2, <2>3, AddJobKeeps
<1>4. QueueTyped'
  BY <1>1, <1>3 DEF QueueInv, QueueTyped
<1>5. PayloadsFit'
  <2>1. \A w \in QueueWorkers : running[w].read \in Nat /\ running[w].read <= want
    <3> SUFFICES ASSUME NEW w \in QueueWorkers PROVE running[w].read \in Nat /\ running[w].read <= want
      OBVIOUS
    <3>1. CASE running[w] = QueueIdle
      BY <3>1, <1>1, QueueRecords
    <3>2. CASE running[w] # QueueIdle
      BY <3>2, RunFacts
    <3> QED
      BY <3>1, <3>2
  <2>2. stamp' = stamp /\ stamp \in Reads \cup {NoStamp} /\ running' = running
        /\ (stamp.step = "read" => stamp.payload \in Nat /\ stamp.payload <= want)
    BY QueueRecords DEF QueueInv, QueueTyped, PayloadsFit, Reads
  <2> QED
    BY <1>1, <1>2, <1>3, <2>1, <2>2 DEF PayloadsFit
<1> QED
  BY <1>3, <1>4, <1>5 DEF QueueInv

LEMMA StampKeepsQueue == ASSUME QueueInv, StampReads \/ StampWrites PROVE QueueInv'
<1>0. want \in Nat /\ jobRows \in [JobIds -> JobStates] /\ stamp \in Reads \cup {NoStamp}
  BY DEF QueueInv, QueueTyped
<1>1. CASE StampReads
  <2>1. PICK j \in Legacy : stamp' = [step |-> "read", job |-> j, payload |-> jobRows[j].payload]
    BY <1>1 DEF StampReads
  <2>2. j \in JobIds /\ jobRows[j].there /\ jobRows[j].tries # MaxTries
    BY <1>0, QueueAssumption DEF Legacy, JobStates
  <2>3. jobRows[j].keyed /\ jobRows[j].payload \in Nat
    BY <1>0, <2>2 DEF QueueInv, RowsFit, JobStates
  <2>4. stamp' \in Reads /\ stamp'.payload = jobRows[j].payload
    BY <2>1, <2>2, <2>3 DEF Reads
  <2>5. jobRows[j].payload <= want /\ (jobRows[j].payload = want \/ stampOvertaken)
    BY <2>2, <2>3 DEF PayloadsFit, QueueInv, WaitingIsNewest, KeyHolders
  <2> QED
    BY <1>1, <2>4, <2>5
    DEF StampReads, queueHistory, QueueInv, QueueTyped, RowsFit, OneKey, WorkersHold, PayloadsFit, KeyIsHeld,
        HoldersRun, Accounted, WaitingIsNewest, KeyHolders, SupersededIsNotDead
<1>2. CASE StampWrites
  <2>1. stamp \in Reads /\ stamp.job \in JobIds /\ stamp.payload \in Nat
        /\ stamp' = NoStamp /\ NoStamp.step = "none" /\ stamp.payload <= want
        /\ (stamp.payload = want \/ stampOvertaken)
    BY <1>0, <1>2, QueueRecords DEF StampWrites, Reads, QueueInv, PayloadsFit
  <2>2. CASE UNCHANGED jobRows
    BY <1>2, <2>1, <2>2
    DEF StampWrites, queueHistory, QueueInv, QueueTyped, RowsFit, OneKey, WorkersHold, PayloadsFit, KeyIsHeld,
        HoldersRun, Accounted, WaitingIsNewest, KeyHolders, SupersededIsNotDead
  <2>3. CASE /\ jobRows[stamp.job].there /\ jobRows[stamp.job].worker = NoWorker
             /\ jobRows' = AddJob([jobRows EXCEPT ![stamp.job] = NoJob], stamp.payload)
    <3> DEFINE rows == [jobRows EXCEPT ![stamp.job] = NoJob]
    <3>1. rows \in [JobIds -> JobStates] /\ rows[stamp.job] = NoJob
          /\ \A j \in JobIds \ {stamp.job} : rows[j] = jobRows[j]
      BY <1>0, <2>1, QueueRecords
    <3>2. jobRows' = AddJob(rows, stamp.payload)
      BY <2>3
    <3> HIDE DEF rows
    <3>3. RowsFit(rows) /\ OneKey(rows) /\ \E j \in JobIds : ~rows[j].there
      BY <3>1, <2>1, QueueRecords DEF QueueInv, RowsFit, OneKey
    <3>4. \A j \in JobIds : rows[j] = jobRows[j] \/ (rows[j] = NoJob /\ jobRows[j].worker = NoWorker)
      BY <3>1, <2>3
    <3>5. stamp.payload <= want
      BY <2>1
    <3>6. want' = want /\ running' = running /\ stampOvertaken' = stampOvertaken
          /\ UNCHANGED <<covered, diedAt, droppedAt, tenantActive>>
      BY <1>2 DEF StampWrites, queueHistory
    <3>7. /\ jobRows' \in [JobIds -> JobStates] /\ RowsFit(jobRows)' /\ OneKey(jobRows)' /\ WorkersHold'
          /\ \A j \in JobIds : jobRows'[j].payload <= want'
          /\ KeyIsHeld' /\ HoldersRun' /\ WaitingIsNewest' /\ SupersededIsNotDead'
      BY <1>0, <2>1, <3>1, <3>2, <3>3, <3>4, <3>5, <3>6, AddJobKeeps
    <3>8. QueueTyped'
      BY <2>1, <3>6, <3>7 DEF QueueInv, QueueTyped
    <3>9. PayloadsFit'
      BY <2>1, <3>6, <3>7 DEF QueueInv, PayloadsFit
    <3> QED
      BY <3>7, <3>8, <3>9 DEF QueueInv
  <2> QED
    BY <1>2, <2>2, <2>3 DEF StampWrites
<1> QED
  BY <1>1, <1>2

\* A run ends with its row as it was released, or without it.
LEMMA EndedRun ==
  ASSUME QueueInv, NEW w \in QueueWorkers, running[w] # QueueIdle, NEW row \in JobStates,
         running' = [running EXCEPT ![w] = QueueIdle],
         jobRows' = [jobRows EXCEPT ![running[w].job] = row],
         row = NoJob \/ (/\ row.there /\ row.keyed = jobRows[running[w].job].keyed
                         /\ row.payload = jobRows[running[w].job].payload /\ row.worker = NoWorker
                         /\ row.tries = jobRows[running[w].job].tries),
         UNCHANGED <<want, stamp, stampOvertaken, tenantActive>>,
         covered' \in 0 .. want, diedAt' \in 0 .. want, droppedAt' \in 0 .. want, Accounted => Accounted',
         jobRows[running[w].job].keyed => Accounted' \/ (row.keyed /\ Available(row)),
         row.there /\ row.tries = MaxTries => row.keyed \/ row.excused
  PROVE  QueueInv'
<1> DEFINE j == running[w].job
<1>0. /\ jobRows \in [JobIds -> JobStates] /\ running \in [QueueWorkers -> RunStates]
      /\ want \in Nat
  BY DEF QueueInv, QueueTyped
<1>1. /\ j \in JobIds /\ jobRows[j].there /\ jobRows[j].worker = w /\ w # NoWorker
      /\ \A v \in QueueWorkers \ {w} : running[v] # QueueIdle => running[v].job # j
  BY RunFacts
<1>2. jobRows'[j] = row /\ \A i \in JobIds \ {j} : jobRows'[i] = jobRows[i]
  BY <1>0, <1>1
<1>3. running'[w] = QueueIdle /\ \A v \in QueueWorkers \ {w} : running'[v] = running[v]
  BY <1>0
<1>4. QueueTyped'
  <2>1. jobRows' \in [JobIds -> JobStates]
    BY <1>0, <1>1
  <2>2. running' \in [QueueWorkers -> RunStates]
    BY <1>0 DEF RunStates
  <2> QED
    BY <2>1, <2>2 DEF QueueInv, QueueTyped
<1>5. RowsFit(jobRows)'
  <2>1. RowsFit(jobRows)
    BY DEF QueueInv
  <2> HIDE DEF j
  <2>2. ~row.there => row = NoJob
    BY QueueRecords
  <2>3. row.there /\ ~row.keyed => row.tries = MaxTries
    BY <1>1, <2>1, QueueRecords DEF RowsFit, j
  <2> QED
    BY <1>1, <1>2, <2>1, <2>2, <2>3 DEF RowsFit
<1>6. OneKey(jobRows)'
  BY <1>1, <1>2, QueueRecords DEF QueueInv, OneKey
<1>7. WorkersHold'
  <2> SUFFICES ASSUME NEW v \in QueueWorkers, running'[v] # QueueIdle
               PROVE  jobRows'[running'[v].job].there /\ jobRows'[running'[v].job].worker = v
    BY DEF WorkersHold
  <2>1. v # w /\ running'[v] = running[v] /\ running[v].job # j
    BY <1>1, <1>3
  <2>2. running[v].job \in JobIds /\ jobRows[running[v].job].there /\ jobRows[running[v].job].worker = v
    BY <2>1, RunFacts
  <2> QED
    BY <1>2, <2>1, <2>2
<1>8. PayloadsFit'
  <2>1. row.payload <= want
    BY <1>0, <1>1, QueueRecords DEF QueueInv, PayloadsFit
  <2>2. QueueIdle.read <= want
    BY <1>0, QueueRecords
  <2> QED
    BY <1>2, <1>3, <2>1, <2>2 DEF QueueInv, PayloadsFit
<1>9. KeyIsHeld'
  <2>1. CASE Accounted
    BY <2>1 DEF KeyIsHeld
  <2>2. ASSUME NEW i \in JobIds, jobRows[i].keyed PROVE KeyIsHeld'
    BY <1>1, <1>2, <2>2 DEF KeyIsHeld
  <2> QED
    BY <2>1, <2>2 DEF QueueInv, KeyIsHeld
<1>10. HoldersRun'
  <2> SUFFICES ASSUME NEW i \in JobIds, jobRows'[i].keyed, ~Accounted'
               PROVE  Available(jobRows'[i]) \/
                 \E v \in QueueWorkers : /\ running'[v] # QueueIdle /\ running'[v].job = i
                                         /\ running'[v].step = "handler" => running'[v].read = want
    BY DEF HoldersRun
  <2>1. CASE i = j
    BY <2>1, <1>1, <1>2, QueueRecords
  <2>2. CASE i # j
    <3>1. jobRows[i].keyed /\ ~Accounted /\ jobRows'[i] = jobRows[i]
      BY <1>2, <2>2
    <3>2. \/ Available(jobRows[i])
          \/ \E v \in QueueWorkers : /\ running[v] # QueueIdle /\ running[v].job = i
                                     /\ running[v].step = "handler" => running[v].read = want
      BY <3>1 DEF QueueInv, HoldersRun
    <3> QED
      BY <1>3, <2>2, <3>1, <3>2
  <2> QED
    BY <2>1, <2>2
<1>11. WaitingIsNewest'
  <2> SUFFICES ASSUME NEW i \in JobIds, jobRows'[i].there, jobRows'[i].keyed
               PROVE  jobRows'[i].payload = want \/ stampOvertaken
    BY DEF WaitingIsNewest, KeyHolders
  <2>1. jobRows[i].there /\ jobRows[i].keyed /\ jobRows'[i].payload = jobRows[i].payload
    BY <1>1, <1>2, QueueRecords
  <2> QED
    BY <2>1 DEF QueueInv, WaitingIsNewest, KeyHolders
<1>12. SupersededIsNotDead'
  BY <1>2 DEF QueueInv, SupersededIsNotDead
<1> QED
  BY <1>4, <1>5, <1>6, <1>7, <1>8, <1>9, <1>10, <1>11, <1>12 DEF QueueInv

\* A row that fail_job releases.
Failed(row, x) == [row EXCEPT !.worker = NoWorker, !.excused = @ \/ x]

LEMMA FailedRow ==
  ASSUME NEW row \in JobStates, NEW x \in BOOLEAN
  PROVE  LET s == Failed(row, x) IN
         /\ s \in JobStates /\ s.there = row.there /\ s.keyed = row.keyed /\ s.tries = row.tries
         /\ s.worker = NoWorker /\ s.payload = row.payload /\ (x => s.excused)
<1>1. ASSUME NEW b \in BOOLEAN
      PROVE  LET s == [row EXCEPT !.worker = NoWorker, !.excused = b] IN
             /\ s \in JobStates /\ s.there = row.there /\ s.keyed = row.keyed /\ s.tries = row.tries
             /\ s.worker = NoWorker /\ s.payload = row.payload /\ s.excused = b
  <2> DEFINE s == [row EXCEPT !.worker = NoWorker, !.excused = b]
  <2>1. s \in JobStates
    BY DEF JobStates
  <2>2. s.tries = row.tries /\ s.worker = NoWorker /\ s.payload = row.payload
    BY DEF JobStates
  <2>3. s.there = row.there /\ s.keyed = row.keyed
    BY DEF JobStates
  <2>4. s.excused = b
    BY DEF JobStates
  <2> QED
    BY <2>1, <2>2, <2>3, <2>4
<1> DEFINE e == row.excused \/ x
<1>2. e \in BOOLEAN
  OBVIOUS
<1>3. Failed(row, x) = [row EXCEPT !.worker = NoWorker, !.excused = e]
  BY Zenon DEF Failed
<1> HIDE DEF e
<1>5. LET s == [row EXCEPT !.worker = NoWorker, !.excused = e] IN
        /\ s \in JobStates /\ s.there = row.there /\ s.keyed = row.keyed /\ s.tries = row.tries
        /\ s.worker = NoWorker /\ s.payload = row.payload /\ s.excused = e
  BY <1>1, <1>2
<1>6. x => e
  BY DEF e
<1> QED
  BY <1>3, <1>5, <1>6

LEMMA FailsKeepsQueue ==
  ASSUME QueueInv, NEW w \in QueueWorkers, running[w] # QueueIdle, NEW x \in BOOLEAN, FailsJob(w, x),
         UNCHANGED <<want, stamp, stampOvertaken, tenantActive, covered, droppedAt>>,
         x \/ jobRows[running[w].job].keyed
  PROVE  QueueInv'
<1> DEFINE j == running[w].job
           row == Failed(jobRows[j], x)
<1>1. j \in JobIds /\ jobRows[j] \in JobStates /\ jobRows[j].there
  BY RunFacts
<1>2. /\ row \in JobStates /\ row.there = jobRows[j].there /\ row.keyed = jobRows[j].keyed
      /\ row.tries = jobRows[j].tries /\ row.worker = NoWorker /\ row.payload = jobRows[j].payload
      /\ (x => row.excused)
  BY <1>1, FailedRow
<1>3. jobRows' = [jobRows EXCEPT ![j] = row]
  <2>1. jobRows' = [jobRows EXCEPT ![j].worker = NoWorker, ![j].excused = @ \/ x]
    BY DEF FailsJob
  <2>2. jobRows \in [JobIds -> JobStates]
    BY DEF QueueInv, QueueTyped
  <2> QED
    BY <1>1, <2>1, <2>2, Zenon DEF Failed
<1>4. running' = [running EXCEPT ![w] = QueueIdle]
      /\ diedAt' = IF jobRows[j].tries = MaxTries /\ jobRows[j].keyed THEN want ELSE diedAt
  BY DEF FailsJob
<1>5. covered \in 0 .. want /\ diedAt \in 0 .. want /\ droppedAt \in 0 .. want /\ want \in Nat
  BY DEF QueueInv, QueueTyped
<1>6. diedAt' \in 0 .. want /\ covered' = covered /\ droppedAt' = droppedAt /\ want' = want
  BY <1>4, <1>5
<1>7. Accounted => Accounted'
  BY <1>4, <1>6 DEF Accounted
<1>8. jobRows[j].tries \in 0 .. MaxTries /\ MaxTries \in Nat
  BY <1>1, QueueAssumption DEF JobStates
<1>9. jobRows[j].keyed => Accounted' \/ (row.keyed /\ Available(row))
  <2> SUFFICES ASSUME jobRows[j].keyed, jobRows[j].tries # MaxTries PROVE row.keyed /\ Available(row)
    BY <1>4, <1>6 DEF Accounted
  <2> HIDE DEF row
  <2> QED
    BY <1>2, <1>8 DEF Available
<1>10. row.there /\ row.tries = MaxTries => row.keyed \/ row.excused
  BY <1>2
<1> HIDE DEF row
<1> QED
  BY <1>1, <1>2, <1>3, <1>4, <1>5, <1>6, <1>7, <1>9, <1>10, EndedRun

LEMMA FinishesKeepsQueue ==
  ASSUME QueueInv, NEW w \in QueueWorkers, running[w] # QueueIdle, Finishes(w),
         UNCHANGED <<want, stamp, stampOvertaken, tenantActive>>,
         covered' \in 0 .. want, diedAt' \in 0 .. want, droppedAt' \in 0 .. want, Accounted => Accounted',
         jobRows[running[w].job].keyed => Accounted'
  PROVE  QueueInv'
  BY QueueRecords, EndedRun DEF Finishes

LEMMA FetchKeepsQueue ==
  ASSUME QueueInv, NEW w \in QueueWorkers, NEW j \in JobIds, Fetch(w, j)
  PROVE  QueueInv'
<1> DEFINE row == [jobRows[j] EXCEPT !.worker = w, !.tries = @ + 1]
           run == [step |-> "fetched", job |-> j, keyed |-> jobRows[j].keyed, read |-> 0]
<1>0. /\ jobRows \in [JobIds -> JobStates] /\ running \in [QueueWorkers -> RunStates]
      /\ want \in Nat /\ jobRows[j] \in JobStates
  BY DEF QueueInv, QueueTyped
<1>1. /\ running[w] = QueueIdle /\ jobRows[j].there /\ Available(jobRows[j])
      /\ running' = [running EXCEPT ![w] = run]
      /\ UNCHANGED <<want, tenantActive, stamp, covered, diedAt, droppedAt, stampOvertaken>>
  BY DEF Fetch, queueHistory
<1>2. jobRows[j].worker = NoWorker /\ jobRows[j].tries \in Nat /\ jobRows[j].tries + 1 \in 0 .. MaxTries
      /\ jobRows[j].tries # MaxTries
  BY <1>0, <1>1, QueueAssumption DEF Available, JobStates
<1>3. jobRows[j].keyed
  BY <1>1, <1>2 DEF QueueInv, RowsFit
<1>4. jobRows' = [jobRows EXCEPT ![j] = row]
  <2>1. jobRows' = [jobRows EXCEPT ![j].worker = w, ![j].tries = @ + 1]
    BY DEF Fetch
  <2> QED
    BY <1>0, <2>1
<1>5. /\ row \in JobStates /\ row.there /\ row.keyed /\ row.worker = w /\ row.payload = jobRows[j].payload
  <2>1. ASSUME NEW t \in 0 .. MaxTries
        PROVE  LET s == [jobRows[j] EXCEPT !.worker = w, !.tries = t] IN
               /\ s \in JobStates /\ s.there = jobRows[j].there /\ s.keyed = jobRows[j].keyed
               /\ s.worker = w /\ s.payload = jobRows[j].payload
    BY <1>0 DEF JobStates
  <2>2. row = [jobRows[j] EXCEPT !.worker = w, !.tries = jobRows[j].tries + 1]
    OBVIOUS
  <2> QED
    BY <2>1, <2>2, <1>1, <1>2, <1>3
<1>6. run \in RunStates /\ run # QueueIdle /\ run.job = j /\ run.step = "fetched" /\ run.read = 0
  <2>1. run = [step |-> "fetched", job |-> j, keyed |-> TRUE, read |-> 0]
    BY <1>3
  <2> HIDE DEF run
  <2> QED
    BY <2>1, QueueRecords DEF RunStates
<1>7. jobRows'[j] = row /\ \A i \in JobIds \ {j} : jobRows'[i] = jobRows[i]
  BY <1>0, <1>4
<1>8. running'[w] = run /\ \A v \in QueueWorkers \ {w} : running'[v] = running[v]
  BY <1>0, <1>1
<1>9. w # NoWorker
  BY QueueAssumption
<1> HIDE DEF row, run
<1>10. QueueTyped'
  BY <1>0, <1>1, <1>4, <1>5, <1>6 DEF QueueInv, QueueTyped
<1>11. RowsFit(jobRows)' /\ OneKey(jobRows)'
  BY <1>3, <1>5, <1>7 DEF QueueInv, RowsFit, OneKey
<1>12. WorkersHold'
  <2> SUFFICES ASSUME NEW v \in QueueWorkers, running'[v] # QueueIdle
               PROVE  jobRows'[running'[v].job].there /\ jobRows'[running'[v].job].worker = v
    BY DEF WorkersHold
  <2>1. CASE v = w
    BY <2>1, <1>5, <1>6, <1>7, <1>8
  <2>2. CASE v # w
    <3>1. running'[v] = running[v] /\ running[v].job \in JobIds /\ jobRows[running[v].job].there
          /\ jobRows[running[v].job].worker = v /\ v # NoWorker
      BY <2>2, <1>8, RunFacts
    <3> QED
      BY <3>1, <1>2, <1>7
  <2> QED
    BY <2>1, <2>2
<1>13. PayloadsFit'
  BY <1>0, <1>1, <1>5, <1>6, <1>7, <1>8 DEF QueueInv, PayloadsFit
<1>14. KeyIsHeld'
  BY <1>1, <1>5, <1>7 DEF KeyIsHeld
<1>15. HoldersRun'
  <2> SUFFICES ASSUME NEW i \in JobIds, jobRows'[i].keyed
               PROVE  \E v \in QueueWorkers : /\ running'[v] # QueueIdle /\ running'[v].job = i
                                              /\ running'[v].step = "handler" => running'[v].read = want'
    BY DEF HoldersRun
  <2>1. i = j
    BY <1>5, <1>7, <1>11 DEF OneKey
  <2> QED
    BY <2>1, <1>6, <1>8
<1>16. WaitingIsNewest'
  <2> SUFFICES ASSUME NEW i \in JobIds, jobRows'[i].there, jobRows'[i].keyed
               PROVE  jobRows'[i].payload = want \/ stampOvertaken
    BY <1>1 DEF WaitingIsNewest, KeyHolders
  <2>1. jobRows[i].there /\ jobRows[i].keyed /\ jobRows'[i].payload = jobRows[i].payload
    BY <1>1, <1>3, <1>5, <1>7
  <2> QED
    BY <2>1 DEF QueueInv, WaitingIsNewest, KeyHolders
<1>17. SupersededIsNotDead'
  BY <1>5, <1>7, <1>9 DEF QueueInv, SupersededIsNotDead
<1> QED
  BY <1>10, <1>11, <1>12, <1>13, <1>14, <1>15, <1>16, <1>17 DEF QueueInv

\* A run goes on: to its handler, or to its failure.
LEMMA GoesOnKeepsQueue ==
  ASSUME QueueInv, NEW w \in QueueWorkers, running[w] # QueueIdle, NEW r \in RunStates, r # QueueIdle,
         running' = [running EXCEPT ![w] = r], r.job = running[w].job, r.read \in 0 .. want,
         r.step = "handler" => r.read = want,
         UNCHANGED <<want, jobRows, tenantActive, stamp, queueHistory>>
  PROVE  QueueInv'
<1>0. running \in [QueueWorkers -> RunStates] /\ want \in Nat
  BY DEF QueueInv, QueueTyped
<1>1. running'[w] = r /\ \A v \in QueueWorkers \ {w} : running'[v] = running[v]
  BY <1>0
<1>2. QueueTyped' /\ RowsFit(jobRows)' /\ OneKey(jobRows)' /\ KeyIsHeld' /\ WaitingIsNewest' /\ SupersededIsNotDead'
  BY <1>0 DEF QueueInv, QueueTyped, RowsFit, OneKey, KeyIsHeld, Accounted, WaitingIsNewest, KeyHolders,
              SupersededIsNotDead, queueHistory
<1>3. WorkersHold' /\ PayloadsFit'
  BY <1>0, <1>1 DEF QueueInv, WorkersHold, PayloadsFit, queueHistory
<1>4. HoldersRun'
  BY <1>1 DEF QueueInv, HoldersRun, Accounted, queueHistory
<1> QED
  BY <1>2, <1>3, <1>4 DEF QueueInv

LEMMA RunningKeepsQueue ==
  ASSUME QueueInv, NEW w \in QueueWorkers,
         RunInTaskScope(w) \/ HandlerDone(w) \/ HandlerThrows(w) \/ SettleFailure(w)
           \/ LookupFails(w) \/ WorkerDies(w)
  PROVE  QueueInv'
<1> DEFINE j == running[w].job
<1>1. running[w] # QueueIdle
  BY QueueRecords DEF RunInTaskScope, HandlerDone, HandlerThrows, SettleFailure, LookupFails, WorkerDies
<1>2. /\ j \in JobIds /\ running[w].keyed /\ running[w].read \in Nat /\ running[w].read <= want
      /\ running[w].step \in {"fetched", "handler", "threw"} /\ running[w] \in RunStates
      /\ jobRows[j].there /\ jobRows[j].worker = w /\ w # NoWorker
      /\ \A v \in QueueWorkers \ {w} : running[v] # QueueIdle => running[v].job # j
  BY <1>1, RunFacts DEF QueueInv, QueueTyped
<1>3. covered \in 0 .. want /\ diedAt \in 0 .. want /\ droppedAt \in 0 .. want /\ want \in Nat
      /\ running \in [QueueWorkers -> RunStates]
  BY DEF QueueInv, QueueTyped
<1>4. running[w].step = "handler" /\ jobRows[j].keyed => running[w].read = want \/ Accounted
  BY <1>1, <1>2 DEF QueueInv, HoldersRun, Available
<1>5. \A s \in {"fetched", "handler", "threw"}, n \in Nat :
        LET r == [running[w] EXCEPT !.step = s, !.read = n] IN
        r \in RunStates /\ r # QueueIdle /\ r.job = j /\ r.read = n /\ r.step = s
  BY <1>1, <1>2, QueueRecords DEF RunStates
<1>6. CASE RunInTaskScope(w)
  <2>1. CASE running' = [running EXCEPT ![w].step = "threw"] /\ UNCHANGED <<jobRows, droppedAt>>
    <3> DEFINE r == [running[w] EXCEPT !.step = "threw", !.read = running[w].read]
    <3>1. running' = [running EXCEPT ![w] = r]
      BY <1>2, <1>3, <2>1 DEF RunStates
    <3>2. r \in RunStates /\ r # QueueIdle /\ r.job = j /\ r.read = running[w].read /\ r.step = "threw"
      BY <1>2, <1>5
    <3> HIDE DEF r
    <3>3. r.read \in 0 .. want /\ UNCHANGED <<want, jobRows, tenantActive, stamp, queueHistory>>
      BY <1>2, <1>3, <1>6, <2>1, <3>2 DEF RunInTaskScope, queueHistory
    <3> QED
      BY <1>1, <3>1, <3>2, <3>3, GoesOnKeepsQueue
  <2>2. CASE Finishes(w) /\ droppedAt' = IF jobRows[j].keyed THEN want ELSE droppedAt
    <3>1. UNCHANGED <<want, stamp, stampOvertaken, tenantActive, covered, diedAt>>
      BY <1>6 DEF RunInTaskScope
    <3>2. droppedAt' \in 0 .. want /\ (Accounted => Accounted') /\ (jobRows[j].keyed => Accounted')
      BY <1>3, <2>2, <3>1 DEF Accounted
    <3> QED
      BY <1>1, <1>3, <2>2, <3>1, <3>2, FinishesKeepsQueue
  <2>3. CASE running' = [running EXCEPT ![w].step = "handler", ![w].read = want] /\ UNCHANGED <<jobRows, droppedAt>>
    <3> DEFINE r == [running[w] EXCEPT !.step = "handler", !.read = want]
    <3>1. running' = [running EXCEPT ![w] = r]
      BY <1>3, <2>3
    <3>2. r \in RunStates /\ r # QueueIdle /\ r.job = j /\ r.read = want /\ r.step = "handler"
      BY <1>3, <1>5
    <3> HIDE DEF r
    <3>3. r.read \in 0 .. want /\ UNCHANGED <<want, jobRows, tenantActive, stamp, queueHistory>>
      BY <1>3, <1>6, <2>3, <3>2 DEF RunInTaskScope, queueHistory
    <3> QED
      BY <1>1, <3>1, <3>2, <3>3, GoesOnKeepsQueue
  <2> QED
    BY <1>6, <2>1, <2>2, <2>3 DEF RunInTaskScope
<1>7. CASE HandlerDone(w)
  <2>1. /\ Finishes(w) /\ running[w].step = "handler"
        /\ UNCHANGED <<want, stamp, stampOvertaken, tenantActive, diedAt, droppedAt>>
        /\ covered' = IF running[w].read > covered THEN running[w].read ELSE covered
    BY <1>7 DEF HandlerDone
  <2>2. covered' \in 0 .. want /\ (covered = want => covered' = want) /\ (running[w].read = want => covered' = want)
    BY <1>2, <1>3, <2>1
  <2>3. (Accounted => Accounted') /\ (jobRows[j].keyed => Accounted')
    BY <1>4, <2>1, <2>2 DEF Accounted
  <2> QED
    BY <1>1, <1>3, <2>1, <2>2, <2>3, FinishesKeepsQueue
<1>8. CASE HandlerThrows(w)
  <2> DEFINE r == [running[w] EXCEPT !.step = "threw", !.read = running[w].read]
  <2>1. running' = [running EXCEPT ![w] = r]
    BY <1>2, <1>3, <1>8 DEF RunStates, HandlerThrows
  <2>2. r \in RunStates /\ r # QueueIdle /\ r.job = j /\ r.read = running[w].read /\ r.step = "threw"
    BY <1>2, <1>5
  <2> HIDE DEF r
  <2>3. r.read \in 0 .. want /\ UNCHANGED <<want, jobRows, tenantActive, stamp, queueHistory>>
    BY <1>2, <1>3, <1>8, <2>2 DEF HandlerThrows
  <2> QED
    BY <1>1, <2>1, <2>2, <2>3, GoesOnKeepsQueue
<1>9. CASE SettleFailure(w)
  <2>1. UNCHANGED <<want, stamp, stampOvertaken, tenantActive, covered, droppedAt>>
    BY <1>9 DEF SettleFailure
  <2>2. CASE ~jobRows[j].keyed
    <3>1. Finishes(w) /\ diedAt' = diedAt
      BY <1>2, <1>9, <2>2 DEF SettleFailure
    <3>2. Accounted => Accounted'
      BY <2>1, <3>1 DEF Accounted
    <3> QED
      BY <1>1, <1>3, <2>1, <2>2, <3>1, <3>2, FinishesKeepsQueue
  <2>3. CASE jobRows[j].keyed
    <3>1. FailsJob(w, FALSE)
      BY <1>9, <2>3 DEF SettleFailure
    <3> QED
      BY <1>1, <2>1, <2>3, <3>1, FailsKeepsQueue
  <2> QED
    BY <2>2, <2>3
<1>10. CASE LookupFails(w) \/ WorkerDies(w)
  <2>1. FailsJob(w, TRUE) /\ UNCHANGED <<want, stamp, stampOvertaken, tenantActive, covered, droppedAt>>
    BY <1>10 DEF LookupFails, WorkerDies
  <2> QED
    BY <1>1, <2>1, FailsKeepsQueue
<1> QED
  BY <1>6, <1>7, <1>8, <1>9, <1>10

LEMMA QueueKept == ASSUME QueueInv, [QueueNext]_queueVars PROVE QueueInv'
<1>1. CASE MoveTenant
  BY <1>1 DEF MoveTenant, queueHistory, QueueInv, QueueTyped, RowsFit, OneKey, WorkersHold, PayloadsFit, KeyIsHeld,
              HoldersRun, Accounted, WaitingIsNewest, KeyHolders, SupersededIsNotDead
<1>2. CASE UNCHANGED queueVars
  BY <1>2 DEF queueVars, QueueInv, QueueTyped, RowsFit, OneKey, WorkersHold, PayloadsFit, KeyIsHeld,
              HoldersRun, Accounted, WaitingIsNewest, KeyHolders, SupersededIsNotDead
<1> QED
  BY <1>1, <1>2, EnqueueKeepsQueue, StampKeepsQueue, FetchKeepsQueue, RunningKeepsQueue DEF QueueNext, WorkerStep

LEMMA QueueInvMeans ==
  ASSUME QueueInv
  PROVE  QueueTypeOK /\ EveryChangeHasAJob /\ WaitingIsNewest /\ SupersededIsNotDead
<1>1. /\ jobRows \in [JobIds -> JobStates] /\ running \in [QueueWorkers -> RunStates] /\ want \in Nat
  BY DEF QueueInv, QueueTyped
<1>2. QueueTypeOK
  <2>1. \A j \in JobIds : jobRows[j].tries \in 0 .. MaxTries /\ jobRows[j].payload \in 0 .. want
                            /\ jobRows[j].worker \in QueueWorkers \cup {NoWorker}
    BY <1>1 DEF JobStates, QueueInv, PayloadsFit
  <2>2. \A w \in QueueWorkers : running[w].step \in {"idle", "fetched", "handler", "threw"}
    BY <1>1, QueueRecords DEF RunStates
  <2>3. Cardinality(KeyHolders) <= 1
    BY AtMostOne DEF KeyHolders, QueueInv, OneKey
  <2>4. \A w \in QueueWorkers : running[w].step # "idle" => jobRows[running[w].job].worker = w
    BY RunFacts, QueueRecords
  <2> QED
    BY <2>1, <2>2, <2>3, <2>4 DEF QueueTypeOK, QueueInv, QueueTyped
<1>3. EveryChangeHasAJob
  <2> SUFFICES ASSUME ~Accounted, NEW j \in JobIds, jobRows[j].keyed PROVE EveryChangeHasAJob
    BY DEF QueueInv, KeyIsHeld, EveryChangeHasAJob
  <2>1. jobRows[j].there
    BY QueueRecords DEF QueueInv, RowsFit
  <2>2. CASE Available(jobRows[j])
    BY <2>1, <2>2 DEF Available, EveryChangeHasAJob
  <2>3. ASSUME NEW w \in QueueWorkers, running[w] # QueueIdle, running[w].job = j,
               running[w].step = "handler" => running[w].read = want
        PROVE  EveryChangeHasAJob
    <3>1. running[w].step # "idle"
      BY <2>3, RunFacts
    <3> QED
      BY <2>1, <2>3, <3>1 DEF EveryChangeHasAJob
  <2> QED
    BY <2>2, <2>3 DEF QueueInv, HoldersRun
<1> QED
  BY <1>2, <1>3 DEF QueueInv

(* The job queue (packages/queue): a change that was enqueued is accounted *)
(* for or has a job that will still read it, the job that waits carries    *)
(* the newest payload unless the stamping step overtook an enqueue, and a  *)
(* superseded run does not stay behind as a failed job, for any number of  *)
(* workers, changes, tries, faults and suspensions.                        *)
THEOREM ChangesHaveJobs == QueueSpec => [](EveryChangeHasAJob /\ WaitingIsNewest /\ SupersededIsNotDead)
<1>1. QueueInv => EveryChangeHasAJob /\ WaitingIsNewest /\ SupersededIsNotDead
  BY QueueInvMeans
<1> QED
  BY <1>1, QueueInitially, QueueKept, PTL DEF QueueSpec

-----------------------------------------------------------------------------
(* The push fanout. *)

Registrations == [device : PushDevices \cup {FirstDevice}, owner : Accts, active : BOOLEAN]
FanoutSteps == {"idle", "loading", "claiming", "checking", "sending", "recording"}
FanoutRuns == [pc : FanoutSteps, try : 0 .. FanoutTries, todo : SUBSET RegIds, resolved : SUBSET RegIds,
               cur : RegIds \cup {0}, answer : Answers \cup {"none"}, transient : BOOLEAN]

FanoutTyped ==
    /\ note \in {"none", "committed"} \cup Producers
    /\ fanJob \in [state : {"none", "queued", "locked", "done", "dead"}, attempts : 0 .. FanoutTries]
    /\ regs \in Seq(Registrations) /\ Len(regs) \in 1 .. MaxRegs
    /\ delivery \in [RegIds -> {"none", "pending", "delivered", "failed"}]
    /\ fan \in [FanoutWorkers -> FanoutRuns] /\ accepted \in [RegIds -> Nat] /\ attempted \subseteq RegIds
    /\ pushFaults \in Nat

JobFits ==
    /\ fanJob.state = "none" <=> note # "committed"
    /\ fanJob.state = "queued" => fanJob.attempts < FanoutTries

OneRegistration ==
    \A q, r \in DOMAIN regs : regs[q].active /\ regs[r].active /\ regs[q].device = regs[r].device => q = r

\* What is to be sent to, and what is on its way, is of a registration of the owner.
OfOwner(r) == r \in DOMAIN regs /\ regs[r].owner = Owner
SentToOwner ==
    /\ \A r \in RegIds : delivery[r] # "none" => OfOwner(r)
    /\ \A w \in FanoutWorkers : /\ \A r \in fan[w].todo : OfOwner(r)
                                /\ fan[w].pc = "recording" => OfOwner(fan[w].cur) /\ fan[w].cur \notin fan[w].todo

Sends(w) == fan[w].pc \in {"sending", "recording"}

\* Without faults one worker runs the job, as its newest attempt.
OneWorker ==
    \A w \in FanoutWorkers : fan[w].pc # "idle" =>
        /\ fanJob.state = "locked" /\ fanJob.attempts = fan[w].try
        /\ \A v \in FanoutWorkers \ {w} : fan[v].pc = "idle"

\* A push that was accepted is recorded, or its answer is about to be.
AcceptedIsRecorded ==
    \A r \in RegIds : accepted[r] # 0 =>
        /\ accepted[r] = 1
        /\ delivery[r] = "delivered" \/
             \E w \in FanoutWorkers : fan[w].pc = "recording" /\ fan[w].cur = r /\ fan[w].answer = "delivered"

LeftIsUnsent ==
    \A w \in FanoutWorkers :
        /\ Sends(w) => \A r \in Left(w) : delivery[r] # "delivered"
        /\ fan[w].pc = "recording" => delivery[fan[w].cur] # "delivered"

\* A delivery still pending to an active registration is to be sent, or has been tried.
PendingIsLeft ==
    \A w \in FanoutWorkers, r \in RegIds : delivery[r] = "pending" /\ regs[r].active =>
        /\ fan[w].pc \in {"claiming", "checking"} => r \in fan[w].todo
        /\ Sends(w) => r \in attempted \/ r \in Left(w)

\* One that has been tried in this attempt is settled, but for a transient failure.
TriedIsSettled ==
    \A w \in FanoutWorkers :
        /\ fan[w].pc \in {"loading", "claiming", "checking"} => attempted = {} /\ ~fan[w].transient
        /\ Sends(w) => \A r \in attempted : delivery[r] = "pending" =>
              fan[w].transient \/ (fan[w].pc = "recording" /\ fan[w].cur = r)

FanoutInv ==
    /\ FanoutTyped /\ JobFits /\ OneRegistration /\ SentToOwner
    /\ pushFaults = 0 => /\ OneWorker /\ AcceptedIsRecorded /\ LeftIsUnsent /\ PendingIsLeft /\ TriedIsSettled
                         /\ DeadJobTriedAll /\ DoneMeansResolved


LEMMA RegIdsAre == RegIds \subseteq Nat /\ 0 \notin RegIds /\ 1 \in RegIds /\ \A n \in 1 .. MaxRegs : n \in RegIds
  BY PushAssumption DEF RegIds

LEMMA RestingRun ==
  /\ FanoutIdle \in FanoutRuns /\ FanoutIdle.pc = "idle" /\ FanoutIdle.todo = {}
  /\ \A t \in 0 .. FanoutTries : LET r == [FanoutIdle EXCEPT !.pc = "loading", !.try = t] IN
       r \in FanoutRuns /\ r.pc = "loading" /\ r.try = t /\ r.todo = {} /\ ~r.transient
<1>1. 0 \in 0 .. FanoutTries
  BY PushAssumption
<1>2. FanoutIdle \in FanoutRuns /\ FanoutIdle.pc = "idle" /\ FanoutIdle.todo = {} /\ ~FanoutIdle.transient
  BY <1>1 DEF FanoutIdle, FanoutRuns, FanoutSteps
<1>3. ASSUME NEW t \in 0 .. FanoutTries
      PROVE  LET r == [FanoutIdle EXCEPT !.pc = "loading", !.try = t] IN
             r \in FanoutRuns /\ r.pc = "loading" /\ r.try = t /\ r.todo = {} /\ ~r.transient
  BY <1>2 DEF FanoutRuns, FanoutSteps
<1> QED
  BY <1>2, <1>3

LEMMA FanoutInitially == PushInit => FanoutInv
<1> SUFFICES ASSUME PushInit PROVE FanoutInv
  OBVIOUS
<1> USE DEF PushInit
<1>1. regs \in Seq(Registrations) /\ Len(regs) = 1 /\ DOMAIN regs = {1}
  BY PushAssumption DEF Registrations
<1>2. fanJob \in [state : {"none", "queued", "locked", "done", "dead"}, attempts : 0 .. FanoutTries]
      /\ fanJob.state = "none" /\ fanJob.attempts = 0
  <2>1. 0 \in 0 .. FanoutTries
    BY PushAssumption
  <2> QED
    BY <2>1
<1>3. FanoutTyped
  <2>1. Len(regs) \in 1 .. MaxRegs /\ 0 \in Nat /\ pushFaults \in Nat
    BY <1>1, PushAssumption
  <2>2. /\ fan \in [FanoutWorkers -> FanoutRuns] /\ accepted \in [RegIds -> Nat]
        /\ delivery \in [RegIds -> {"none", "pending", "delivered", "failed"}]
    BY <2>1, RestingRun
  <2> QED
    BY <1>1, <1>2, <2>1, <2>2 DEF FanoutTyped
<1>4. JobFits /\ OneRegistration /\ SentToOwner
  BY <1>1, <1>2, RestingRun DEF JobFits, OneRegistration, SentToOwner
<1>5. OneWorker /\ AcceptedIsRecorded /\ LeftIsUnsent /\ PendingIsLeft /\ TriedIsSettled
  BY RestingRun DEF OneWorker, AcceptedIsRecorded, LeftIsUnsent, PendingIsLeft, TriedIsSettled, Sends
<1>6. DeadJobTriedAll /\ DoneMeansResolved
  BY <1>2 DEF DeadJobTriedAll, DoneMeansResolved
<1> QED
  BY <1>3, <1>4, <1>5, <1>6 DEF FanoutInv

LEMMA ProducersKeepFanout ==
  ASSUME FanoutInv, NEW p \in Producers, WriteNotification(p) \/ ProducerCommits(p) \/ ProducerRollsBack(p)
  PROVE  FanoutInv'
<1>1. UNCHANGED <<regs, delivery, fan, accepted, attempted>>
  BY DEF WriteNotification, ProducerCommits, ProducerRollsBack
<1>2. fanJob' \in [state : {"none", "queued", "locked", "done", "dead"}, attempts : 0 .. FanoutTries] /\ pushFaults' \in Nat
      /\ note' \in {"none", "committed"} \cup Producers
  BY PushAssumption DEF WriteNotification, ProducerCommits, ProducerRollsBack, PushFault, FanoutInv, FanoutTyped
<1>3. JobFits'
  BY PushAssumption DEF WriteNotification, ProducerCommits, ProducerRollsBack, PushFault, FanoutInv, FanoutTyped, JobFits
<1>4. FanoutTyped' /\ OneRegistration' /\ SentToOwner'
  BY <1>1, <1>2 DEF FanoutInv, FanoutTyped, OneRegistration, SentToOwner, OfOwner
<1>5. ASSUME pushFaults' = 0
      PROVE  /\ OneWorker' /\ AcceptedIsRecorded' /\ LeftIsUnsent' /\ PendingIsLeft' /\ TriedIsSettled'
             /\ DeadJobTriedAll' /\ DoneMeansResolved'
  <2>1. pushFaults = 0 /\ (fanJob' = fanJob \/ (fanJob.state = "none" /\ fanJob'.state = "queued"))
    BY <1>5, PushAssumption DEF WriteNotification, ProducerCommits, ProducerRollsBack, PushFault, FanoutInv, FanoutTyped, JobFits
  <2>2. OneWorker'
    BY <1>1, <2>1 DEF FanoutInv, OneWorker
  <2>3. AcceptedIsRecorded' /\ LeftIsUnsent' /\ PendingIsLeft' /\ TriedIsSettled'
    BY <1>1, <2>1 DEF FanoutInv, AcceptedIsRecorded, LeftIsUnsent, PendingIsLeft, TriedIsSettled, Sends, Left
  <2>4. DeadJobTriedAll' /\ DoneMeansResolved'
    BY <1>1, <2>1 DEF FanoutInv, DeadJobTriedAll, DoneMeansResolved
  <2> QED
    BY <2>2, <2>3, <2>4
<1> QED
  BY <1>3, <1>4, <1>5 DEF FanoutInv

(* Registrations come and go: those that were there keep their owners, and *)
(* none becomes active again.                                              *)
LEMMA RegistrationsKeepFanout ==
  ASSUME FanoutInv, regs' \in Seq(Registrations), Len(regs') \in Len(regs) .. MaxRegs,
         \A r \in DOMAIN regs : /\ regs'[r].owner = regs[r].owner /\ regs'[r].device = regs[r].device
                                /\ regs'[r].active => regs[r].active,
         OneRegistration', UNCHANGED <<note, fanJob, delivery, fan, accepted, attempted, pushFaults>>
  PROVE  FanoutInv'
<1>1. /\ DOMAIN regs = 1 .. Len(regs) /\ DOMAIN regs' = 1 .. Len(regs') /\ Len(regs) \in Nat /\ Len(regs) >= 1
      /\ DOMAIN regs \subseteq DOMAIN regs' /\ Len(regs') \in 1 .. MaxRegs
  BY PushAssumption DEF FanoutInv, FanoutTyped
<1>2. FanoutTyped' /\ JobFits'
  BY <1>1 DEF FanoutInv, FanoutTyped, JobFits
<1>3. SentToOwner'
  BY <1>1 DEF FanoutInv, SentToOwner, OfOwner
<1>4. \A r \in RegIds : delivery[r] = "pending" => (regs'[r].active => regs[r].active)
  BY DEF FanoutInv, SentToOwner, OfOwner
<1>5. pushFaults = 0 => OneWorker' /\ AcceptedIsRecorded' /\ LeftIsUnsent' /\ TriedIsSettled'
  BY DEF FanoutInv, OneWorker, AcceptedIsRecorded, LeftIsUnsent, TriedIsSettled, Sends, Left
<1>6. pushFaults = 0 => PendingIsLeft' /\ DeadJobTriedAll' /\ DoneMeansResolved'
  BY <1>4 DEF FanoutInv, PendingIsLeft, Sends, Left, DeadJobTriedAll, DoneMeansResolved
<1> QED
  BY <1>2, <1>3, <1>5, <1>6 DEF FanoutInv

LEMMA RegisteringKeepsFanout ==
  ASSUME FanoutInv, \/ \E u \in Accts, d \in PushDevices : DisplaceAndUpsert(u, d)
                    \/ \E r \in 1 .. Len(regs) : RevokeRegistration(r)
  PROVE  FanoutInv'
<1>0. regs \in Seq(Registrations) /\ Len(regs) \in 1 .. MaxRegs /\ Len(regs) \in Nat
      /\ DOMAIN regs = 1 .. Len(regs) /\ \A r \in DOMAIN regs : regs[r] \in Registrations
      /\ OneRegistration
  BY PushAssumption DEF FanoutInv, FanoutTyped
<1>1. ASSUME NEW u \in Accts, NEW d \in PushDevices, DisplaceAndUpsert(u, d) PROVE FanoutInv'
  <2> DEFINE others == {r \in 1 .. Len(regs) : regs[r].device = d /\ regs[r].active /\ regs[r].owner # u}
             mine == {r \in Active(u) : regs[r].device = d}
             kept == [r \in 1 .. Len(regs) |-> [regs[r] EXCEPT !.active = @ /\ r \notin others]]
             new == [device |-> d, owner |-> u, active |-> TRUE]
  <2>1. \A r \in DOMAIN regs : /\ kept[r] \in Registrations /\ kept[r].owner = regs[r].owner
                               /\ kept[r].device = regs[r].device /\ (kept[r].active => regs[r].active /\ r \notin others)
    <3> SUFFICES ASSUME NEW r \in DOMAIN regs
                 PROVE /\ kept[r] \in Registrations /\ kept[r].owner = regs[r].owner
                       /\ kept[r].device = regs[r].device /\ (kept[r].active => regs[r].active /\ r \notin others)
      OBVIOUS
    <3>1. ASSUME NEW b \in BOOLEAN
          PROVE  LET s == [regs[r] EXCEPT !.active = b] IN
                 s \in Registrations /\ s.owner = regs[r].owner /\ s.device = regs[r].device /\ s.active = b
      BY <1>0 DEF Registrations
    <3> DEFINE b == regs[r].active /\ r \notin others
    <3>2. b \in BOOLEAN
      OBVIOUS
    <3>3. kept[r] = [regs[r] EXCEPT !.active = b]
      BY <1>0, Zenon
    <3> HIDE DEF kept
    <3>4. kept[r] \in Registrations /\ kept[r].owner = regs[r].owner /\ kept[r].device = regs[r].device
      BY <3>1, <3>2, <3>3
    <3>5. kept[r].active => b
      <4> HIDE DEF b
      <4> QED
        BY <3>1, <3>2, <3>3
    <3> QED
      BY <3>4, <3>5
  <2>2. /\ mine # {} \/ Len(regs) < MaxRegs
        /\ regs' = IF mine # {} THEN kept ELSE Append(kept, new)
        /\ UNCHANGED <<note, fanJob, delivery, fan, accepted, attempted, pushFaults>>
    BY <1>1 DEF DisplaceAndUpsert
  <2>3. DOMAIN kept = 1 .. Len(regs)
    OBVIOUS
  <2>4. \A r \in DOMAIN regs : kept[r].active /\ regs[r].device = d => r \in mine
    BY <1>0, <2>1 DEF Active
  <2> HIDE DEF kept, mine, others
  <2>5. kept \in Seq(Registrations) /\ Len(kept) = Len(regs)
    <3>1. kept = [r \in 1 .. Len(regs) |-> kept[r]]
      BY <2>3, <1>0 DEF kept
    <3>2. \A r \in 1 .. Len(regs) : kept[r] \in Registrations
      BY <1>0, <2>1
    <3> QED
      BY <1>0, <3>1, <3>2
  <2>6. CASE mine # {}
    <3>1. regs' = kept
      BY <2>2, <2>6
    <3>2. OneRegistration'
      BY <1>0, <2>1, <2>3, <3>1 DEF OneRegistration
    <3> QED
      BY <1>0, <2>1, <2>2, <2>5, <3>1, <3>2, RegistrationsKeepFanout
  <2>7. CASE mine = {}
    <3>1. regs' = Append(kept, new) /\ Len(regs) + 1 <= MaxRegs /\ new \in Registrations
      BY <1>0, <2>2, <2>7, PushAssumption DEF Registrations
    <3> HIDE DEF new
    <3>2. /\ regs' \in Seq(Registrations) /\ Len(regs') = Len(regs) + 1 /\ DOMAIN regs' = 1 .. Len(regs) + 1
          /\ regs'[Len(regs) + 1] = new /\ \A r \in DOMAIN regs : regs'[r] = kept[r]
      BY <1>0, <2>5, <3>1
    <3>3. OneRegistration'
      <4> SUFFICES ASSUME NEW q \in 1 .. Len(regs) + 1, NEW r \in 1 .. Len(regs) + 1,
                          regs'[q].active, regs'[r].active, regs'[q].device = regs'[r].device
                   PROVE  q = r
        BY <3>2 DEF OneRegistration
      <4>1. \A i \in 1 .. Len(regs) : regs'[i].active => regs'[i].device # d /\ regs[i].active /\ regs'[i].device = regs[i].device
        BY <1>0, <2>1, <2>4, <2>7, <3>2
      <4>2. regs'[Len(regs) + 1].device = d
        BY <3>2 DEF new
      <4>3. \A i \in 1 .. Len(regs) + 1 : i \in 1 .. Len(regs) \/ i = Len(regs) + 1
        BY <1>0
      <4>4. CASE q \in 1 .. Len(regs) /\ r \in 1 .. Len(regs)
        BY <1>0, <4>1, <4>4 DEF OneRegistration
      <4> QED
        BY <4>1, <4>2, <4>3, <4>4
    <3>4. Len(regs') \in Len(regs) .. MaxRegs
      BY <1>0, <3>1, <3>2, PushAssumption
    <3> QED
      BY <2>1, <2>2, <3>2, <3>3, <3>4, RegistrationsKeepFanout
  <2> QED
    BY <2>6, <2>7
<1>2. ASSUME NEW r \in 1 .. Len(regs), RevokeRegistration(r) PROVE FanoutInv'
  <2>1. /\ regs' = [regs EXCEPT ![r].active = FALSE]
        /\ UNCHANGED <<note, fanJob, delivery, fan, accepted, attempted, pushFaults>>
    BY <1>2 DEF RevokeRegistration
  <2>2. [regs[r] EXCEPT !.active = FALSE] \in Registrations
    BY <1>0 DEF Registrations
  <2>3. regs' \in Seq(Registrations) /\ Len(regs') = Len(regs) /\ DOMAIN regs' = DOMAIN regs
    <3>1. regs' = [regs EXCEPT ![r] = [regs[r] EXCEPT !.active = FALSE]]
      BY <2>1
    <3> QED
      BY <1>0, <2>2, <3>1
  <2>4. \A q \in DOMAIN regs : /\ regs'[q].owner = regs[q].owner /\ regs'[q].device = regs[q].device
                               /\ regs'[q].active => regs[q].active
    BY <1>0, <2>1 DEF Registrations
  <2>5. OneRegistration'
    BY <1>0, <2>3, <2>4 DEF OneRegistration
  <2> QED
    BY <1>0, <2>1, <2>3, <2>4, <2>5, RegistrationsKeepFanout
<1> QED
  BY <1>1, <1>2


(* A step of a run whose job stays as it is: only this run has to be       *)
(* looked at, for without faults no other is under way.                    *)
LEMMA RunKeepsFanout ==
  ASSUME FanoutInv, NEW w \in FanoutWorkers, NEW run, fan[w].pc # "idle", fan' = [fan EXCEPT ![w] = run],
         run \in FanoutRuns, run.pc # "idle", run.try = fan[w].try,
         UNCHANGED <<note, fanJob>>, FanoutTyped', OneRegistration', SentToOwner',
         pushFaults' = 0 =>
            /\ pushFaults = 0
            /\ \A r \in RegIds : accepted'[r] # 0 =>
                 accepted'[r] = 1 /\ (delivery'[r] = "delivered"
                                      \/ (run.pc = "recording" /\ run.cur = r /\ run.answer = "delivered"))
            /\ run.pc \in {"sending", "recording"} => \A r \in run.todo \ run.resolved : delivery'[r] # "delivered"
            /\ run.pc = "recording" => delivery'[run.cur] # "delivered"
            /\ \A r \in RegIds : delivery'[r] = "pending" /\ regs'[r].active =>
                 /\ run.pc \in {"claiming", "checking"} => r \in run.todo
                 /\ run.pc \in {"sending", "recording"} => r \in attempted' \/ r \in run.todo \ run.resolved
            /\ run.pc \in {"loading", "claiming", "checking"} => attempted' = {} /\ ~run.transient
            /\ run.pc \in {"sending", "recording"} => \A r \in attempted' : delivery'[r] = "pending" =>
                 run.transient \/ (run.pc = "recording" /\ run.cur = r)
  PROVE  FanoutInv'
<1>1. JobFits'
  BY DEF FanoutInv, JobFits
<1>2. fan'[w] = run /\ \A v \in FanoutWorkers \ {w} : fan'[v] = fan[v]
  BY DEF FanoutInv, FanoutTyped
<1> SUFFICES ASSUME pushFaults' = 0
             PROVE  /\ OneWorker' /\ AcceptedIsRecorded' /\ LeftIsUnsent' /\ PendingIsLeft' /\ TriedIsSettled'
                    /\ DeadJobTriedAll' /\ DoneMeansResolved'
  BY <1>1 DEF FanoutInv
<1>3. fanJob.state = "locked" /\ fanJob.attempts = run.try /\ \A v \in FanoutWorkers \ {w} : fan[v].pc = "idle"
  BY DEF FanoutInv, OneWorker
<1>4. OneWorker'
  BY <1>2, <1>3 DEF OneWorker
<1>5. AcceptedIsRecorded'
  BY <1>2 DEF AcceptedIsRecorded
<1>6. LeftIsUnsent' /\ TriedIsSettled'
  BY <1>2, <1>3 DEF LeftIsUnsent, TriedIsSettled, Sends, Left
<1>7. PendingIsLeft'
  BY <1>2, <1>3 DEF PendingIsLeft, Sends, Left
<1>8. DeadJobTriedAll' /\ DoneMeansResolved'
  BY <1>3 DEF DeadJobTriedAll, DoneMeansResolved
<1> QED
  BY <1>4, <1>5, <1>6, <1>7, <1>8

LEMMA TakingKeepsFanout ==
  ASSUME FanoutInv, NEW w \in FanoutWorkers, TakeFanout(w)
  PROVE  FanoutInv'
<1> DEFINE t == fanJob.attempts + 1
           run == [FanoutIdle EXCEPT !.pc = "loading", !.try = t]
<1>1. fanJob.attempts \in Nat /\ fanJob.attempts < FanoutTries /\ t \in 0 .. FanoutTries
  BY PushAssumption DEF FanoutInv, FanoutTyped, JobFits, TakeFanout
<1>2. run \in FanoutRuns /\ run.pc = "loading" /\ run.try = t /\ run.todo = {} /\ ~run.transient
  <2> HIDE DEF t
  <2> QED
    BY <1>1, RestingRun
<1> HIDE DEF run
<1>3. /\ fanJob.state = "queued" /\ fan[w].pc = "idle"
      /\ fanJob' = [state |-> "locked", attempts |-> t] /\ fan' = [fan EXCEPT ![w] = run] /\ attempted' = {}
      /\ UNCHANGED <<note, regs, delivery, accepted, pushFaults>>
  BY DEF TakeFanout, jobRest, run
<1> HIDE DEF t
<1>4. fan'[w] = run /\ (\A v \in FanoutWorkers \ {w} : fan'[v] = fan[v]) /\ fan' \in [FanoutWorkers -> FanoutRuns]
  BY <1>2, <1>3 DEF FanoutInv, FanoutTyped
<1>5. FanoutTyped'
  BY <1>1, <1>3, <1>4 DEF FanoutInv, FanoutTyped
<1>6. JobFits' /\ OneRegistration' /\ SentToOwner'
  BY <1>2, <1>3, <1>4 DEF FanoutInv, JobFits, OneRegistration, SentToOwner, OfOwner
<1>7. ASSUME pushFaults' = 0
      PROVE  /\ OneWorker' /\ AcceptedIsRecorded' /\ LeftIsUnsent' /\ PendingIsLeft' /\ TriedIsSettled'
             /\ DeadJobTriedAll' /\ DoneMeansResolved'
  <2>1. \A v \in FanoutWorkers : fan[v].pc = "idle"
    BY <1>3, <1>7 DEF FanoutInv, OneWorker
  <2>2. OneWorker'
    BY <1>2, <1>3, <1>4, <2>1 DEF OneWorker
  <2>3. AcceptedIsRecorded'
    BY <1>3, <1>7, <2>1 DEF FanoutInv, AcceptedIsRecorded
  <2>4. LeftIsUnsent' /\ PendingIsLeft' /\ TriedIsSettled'
    BY <1>2, <1>3, <1>4, <2>1 DEF LeftIsUnsent, PendingIsLeft, TriedIsSettled, Sends
  <2>5. DeadJobTriedAll' /\ DoneMeansResolved'
    BY <1>3 DEF DeadJobTriedAll, DoneMeansResolved
  <2> QED
    BY <2>2, <2>3, <2>4, <2>5
<1> QED
  BY <1>5, <1>6, <1>7 DEF FanoutInv

LEMMA PreparingKeepsFanout ==
  ASSUME FanoutInv, NEW w \in FanoutWorkers,
         ListRegistrations(w) \/ ClaimPushDeliveryTargets(w) \/ GetPushDeliveryStatuses(w)
  PROVE  FanoutInv'
<1>0. /\ fan[w] \in FanoutRuns /\ fan \in [FanoutWorkers -> FanoutRuns] /\ Len(regs) \in 1 .. MaxRegs
      /\ DOMAIN regs = 1 .. Len(regs) /\ 1 .. Len(regs) \subseteq RegIds
  BY PushAssumption DEF FanoutInv, FanoutTyped, RegIds
<1>1. ASSUME ListRegistrations(w) PROVE FanoutInv'
  <2> DEFINE mine == Active(Owner)
             run == [fan[w] EXCEPT !.pc = "claiming", !.todo = mine]
  <2>1. mine \subseteq RegIds /\ \A r \in mine : OfOwner(r)
    BY <1>0 DEF Active, OfOwner
  <2>2. \A r \in RegIds : delivery[r] # "none" /\ regs[r].active => r \in mine
    BY <1>0 DEF FanoutInv, SentToOwner, OfOwner, Active
  <2> HIDE DEF mine
  <2>3. /\ fan' = [fan EXCEPT ![w] = run] /\ fan[w].pc = "loading"
        /\ UNCHANGED <<note, regs, delivery, accepted, fanJob, attempted, pushFaults>>
    BY <1>1 DEF ListRegistrations, jobRest, mine
  <2>4. /\ run \in FanoutRuns /\ run.pc = "claiming" /\ run.try = fan[w].try /\ run.todo = mine
        /\ run.transient = fan[w].transient
    BY <1>0, <2>1 DEF FanoutRuns, FanoutSteps
  <2> HIDE DEF run
  <2>5. FanoutTyped' /\ OneRegistration'
    BY <1>0, <2>3, <2>4 DEF FanoutInv, FanoutTyped, OneRegistration
  <2>6. SentToOwner'
    BY <1>0, <2>1, <2>3, <2>4 DEF FanoutInv, SentToOwner, OfOwner
  <2>7. pushFaults' = 0 => pushFaults = 0 /\ \A r \in RegIds : accepted'[r] # 0 => accepted'[r] = 1 /\ delivery'[r] = "delivered"
    BY <2>3 DEF FanoutInv, AcceptedIsRecorded, OneWorker
  <2>8. pushFaults' = 0 => attempted' = {} /\ ~run.transient
    BY <2>3, <2>4 DEF FanoutInv, TriedIsSettled
  <2> QED
    BY <2>2, <2>3, <2>4, <2>5, <2>6, <2>7, <2>8, RunKeepsFanout
<1>2. ASSUME ClaimPushDeliveryTargets(w) PROVE FanoutInv'
  <2> DEFINE run == [fan[w] EXCEPT !.pc = "checking"]
  <2>1. /\ fan' = [fan EXCEPT ![w] = run] /\ fan[w].pc = "claiming"
        /\ delivery' = [r \in RegIds |-> IF r \in fan[w].todo /\ delivery[r] = "none" THEN "pending" ELSE delivery[r]]
        /\ UNCHANGED <<note, fanJob, regs, accepted, attempted, pushFaults>>
    BY <1>2 DEF ClaimPushDeliveryTargets, To
  <2>2. /\ run \in FanoutRuns /\ run.pc = "checking" /\ run.try = fan[w].try /\ run.todo = fan[w].todo
        /\ run.transient = fan[w].transient
    BY <1>0 DEF FanoutRuns, FanoutSteps
  <2> HIDE DEF run
  <2>3. delivery' \in [RegIds -> {"none", "pending", "delivered", "failed"}]
    BY <2>1 DEF FanoutInv, FanoutTyped
  <2>4. FanoutTyped' /\ OneRegistration'
    BY <1>0, <2>1, <2>2, <2>3 DEF FanoutInv, FanoutTyped, OneRegistration
  <2>5. SentToOwner'
    BY <1>0, <2>1, <2>2 DEF FanoutInv, SentToOwner, OfOwner
  <2>6. pushFaults' = 0 => pushFaults = 0 /\ \A r \in RegIds : accepted'[r] # 0 => accepted'[r] = 1 /\ delivery'[r] = "delivered"
    BY <2>1 DEF FanoutInv, AcceptedIsRecorded, OneWorker
  <2>7. pushFaults' = 0 => attempted' = {} /\ ~run.transient
    BY <2>1, <2>2 DEF FanoutInv, TriedIsSettled
  <2>8. pushFaults' = 0 => \A r \in RegIds : delivery'[r] = "pending" /\ regs'[r].active => r \in run.todo
    BY <2>1, <2>2 DEF FanoutInv, PendingIsLeft
  <2> QED
    BY <2>1, <2>2, <2>4, <2>5, <2>6, <2>7, <2>8, RunKeepsFanout
<1>3. ASSUME GetPushDeliveryStatuses(w) PROVE FanoutInv'
  <2> DEFINE over == {r \in RegIds : delivery[r] \in {"delivered", "failed"}}
             run == [fan[w] EXCEPT !.pc = "sending", !.resolved = over]
  <2>0. over \subseteq RegIds
    OBVIOUS
  <2> HIDE DEF over
  <2>1. /\ fan' = [fan EXCEPT ![w] = run] /\ fan[w].pc = "checking"
        /\ UNCHANGED <<note, regs, delivery, accepted, fanJob, attempted, pushFaults>>
    BY <1>3 DEF GetPushDeliveryStatuses, jobRest, over
  <2>2. /\ run \in FanoutRuns /\ run.pc = "sending" /\ run.try = fan[w].try /\ run.todo = fan[w].todo
        /\ run.resolved = over
    BY <1>0, <2>0 DEF FanoutRuns, FanoutSteps
  <2> HIDE DEF run
  <2>3. FanoutTyped' /\ OneRegistration' /\ SentToOwner'
    BY <1>0, <2>1, <2>2 DEF FanoutInv, FanoutTyped, OneRegistration, SentToOwner, OfOwner
  <2>4. pushFaults' = 0 => pushFaults = 0 /\ \A r \in RegIds : accepted'[r] # 0 => accepted'[r] = 1 /\ delivery'[r] = "delivered"
    BY <2>1 DEF FanoutInv, AcceptedIsRecorded, OneWorker
  <2>5. pushFaults' = 0 => attempted' = {}
    BY <2>1, <2>2 DEF FanoutInv, TriedIsSettled
  <2>6. \A r \in run.todo \ run.resolved : delivery'[r] # "delivered"
    BY <1>0, <2>1, <2>2 DEF over, FanoutRuns
  <2>7. pushFaults' = 0 => \A r \in RegIds : delivery'[r] = "pending" /\ regs'[r].active => r \in run.todo \ run.resolved
    BY <2>1, <2>2 DEF FanoutInv, PendingIsLeft, over
  <2> QED
    BY <2>1, <2>2, <2>3, <2>4, <2>5, <2>6, <2>7, RunKeepsFanout
<1> QED
  BY <1>1, <1>2, <1>3


LEMMA Greatest ==
  ASSUME NEW m \in Nat, NEW T \in SUBSET (1 .. m), T # {}
  PROVE  \E x \in T : \A y \in T : y <= x
<1> DEFINE U == {m - x : x \in T}
<1>1. U \in SUBSET Nat /\ U # {}
  <2>1. \A x \in T : x \in 1 .. m /\ m - x \in Nat
    OBVIOUS
  <2> QED
    BY <2>1
<1>2. PICK u \in U : \A v \in U : u <= v
  <2> HIDE DEF U
  <2> QED
    BY <1>1, Least
<1>3. PICK x \in T : u = m - x
  BY <1>2
<1>4. \A y \in T : m - x <= m - y
  BY <1>2, <1>3
<1>5. \A y \in T : y \in Nat /\ x \in Nat /\ m - x <= m - y => y <= x
  OBVIOUS
<1> QED
  BY <1>4, <1>5

LEMMA NewestIsLeft ==
  ASSUME FanoutInv, NEW w \in FanoutWorkers, Left(w) # {}
  PROVE  NewestLeft(w) \in Left(w)
<1>1. Left(w) \in SUBSET (1 .. MaxRegs) /\ MaxRegs \in Nat
  BY PushAssumption DEF FanoutInv, FanoutTyped, FanoutRuns, Left, RegIds
<1>2. \E r \in Left(w) : \A q \in Left(w) : q <= r
  BY <1>1, Greatest
<1> QED
  BY <1>2 DEF NewestLeft

LEMMA SendingKeepsFanout ==
  ASSUME FanoutInv, NEW w \in FanoutWorkers, SendPush(w)
  PROVE  FanoutInv'
<1> DEFINE r == NewestLeft(w)
<1>0. /\ fan[w] \in FanoutRuns /\ fan \in [FanoutWorkers -> FanoutRuns] /\ r \in Left(w) /\ fan[w].pc = "sending"
      /\ r \in fan[w].todo /\ r \in RegIds /\ accepted \in [RegIds -> Nat] /\ pushFaults \in Nat
  BY NewestIsLeft DEF FanoutInv, FanoutTyped, FanoutRuns, Left, SendPush
<1>1. PICK answer \in Answers :
        fan' = [fan EXCEPT ![w].pc = "recording", ![w].cur = r, ![w].answer = answer, ![w].todo = @ \ {r}]
  BY DEF SendPush
<1> DEFINE left == fan[w].todo \ {r}
           run == [fan[w] EXCEPT !.pc = "recording", !.cur = r, !.answer = answer, !.todo = left]
<1>2. fan' = [fan EXCEPT ![w] = run]
  BY <1>1
<1>3. left \subseteq RegIds /\ left \subseteq fan[w].todo /\ r \notin left
  BY <1>0 DEF FanoutRuns
<1>4. /\ attempted' = IF fan[w].try = fanJob.attempts THEN attempted \cup {r} ELSE attempted
      /\ UNCHANGED <<note, fanJob, regs, delivery>>
  BY DEF SendPush
<1>5. left = fan[w].todo \ {r}
  OBVIOUS
<1> HIDE DEF left
<1>6. /\ run \in FanoutRuns /\ run.pc = "recording" /\ run.try = fan[w].try /\ run.todo = left /\ run.cur = r
      /\ run.answer = answer /\ run.resolved = fan[w].resolved /\ run.transient = fan[w].transient
  BY <1>0, <1>3 DEF FanoutRuns, FanoutSteps
<1> HIDE DEF run
<1>7. fan'[w] = run /\ fan' \in [FanoutWorkers -> FanoutRuns] /\ \A v \in FanoutWorkers \ {w} : fan'[v] = fan[v]
  BY <1>0, <1>2, <1>6
<1>8. \/ answer = "delivered" /\ pushFaults' = pushFaults /\ accepted' = [accepted EXCEPT ![r] = @ + 1]
      \/ pushFaults' = pushFaults + 1 /\ accepted' = [accepted EXCEPT ![r] = @ + 1]
      \/ answer # "delivered" /\ pushFaults' = pushFaults /\ accepted' = accepted
  BY <1>6, <1>7 DEF SendPush, PushFault
<1> HIDE DEF r
<1>9. FanoutTyped' /\ OneRegistration'
  <2>1. accepted' \in [RegIds -> Nat] /\ pushFaults' \in Nat
    BY <1>0, <1>8
  <2>2. attempted' \subseteq RegIds
    BY <1>0, <1>4 DEF FanoutInv, FanoutTyped
  <2> QED
    BY <1>4, <1>7, <2>1, <2>2 DEF FanoutInv, FanoutTyped, OneRegistration
<1>10. SentToOwner'
  BY <1>0, <1>3, <1>4, <1>6, <1>7 DEF FanoutInv, SentToOwner, OfOwner
<1>11. ASSUME pushFaults' = 0
       PROVE  /\ pushFaults = 0
              /\ \A q \in RegIds : accepted'[q] # 0 =>
                   accepted'[q] = 1 /\ (delivery'[q] = "delivered" \/ (run.cur = q /\ run.answer = "delivered"))
              /\ \A q \in run.todo \ run.resolved : delivery'[q] # "delivered"
              /\ delivery'[run.cur] # "delivered"
              /\ \A q \in RegIds : delivery'[q] = "pending" /\ regs'[q].active =>
                    q \in attempted' \/ q \in run.todo \ run.resolved
              /\ \A q \in attempted' : delivery'[q] = "pending" => run.transient \/ run.cur = q
  <2>1. pushFaults = 0 /\ fanJob.attempts = fan[w].try /\ \A v \in FanoutWorkers \ {w} : fan[v].pc = "idle"
    BY <1>0, <1>8, <1>11 DEF FanoutInv, OneWorker
  <2>2. delivery[r] # "delivered"
    BY <1>0, <2>1 DEF FanoutInv, LeftIsUnsent, Sends
  <2>3. \A q \in RegIds : accepted[q] # 0 => accepted[q] = 1 /\ delivery[q] = "delivered"
    BY <1>0, <2>1 DEF FanoutInv, AcceptedIsRecorded
  <2>4. accepted[r] = 0
    BY <1>0, <2>2, <2>3
  <2>5. \A q \in RegIds : accepted'[q] # 0 =>
          accepted'[q] = 1 /\ (delivery'[q] = "delivered" \/ (run.cur = q /\ run.answer = "delivered"))
    <3>1. CASE answer = "delivered" /\ accepted' = [accepted EXCEPT ![r] = @ + 1]
      <4>1. accepted'[r] = 1 /\ \A q \in RegIds \ {r} : accepted'[q] = accepted[q]
        BY <1>0, <2>4, <3>1
      <4> QED
        BY <1>4, <1>6, <2>3, <3>1, <4>1
    <3>2. CASE accepted' = accepted
      BY <1>4, <2>3, <3>2
    <3>3. pushFaults' # pushFaults + 1
      BY <1>0, <1>11
    <3> QED
      BY <1>8, <3>1, <3>2, <3>3
  <2>6. \A q \in run.todo \ run.resolved : delivery'[q] # "delivered"
    BY <1>0, <1>3, <1>4, <1>6, <2>1 DEF FanoutInv, LeftIsUnsent, Sends, Left
  <2>7. \A q \in RegIds : delivery'[q] = "pending" /\ regs'[q].active => q \in attempted' \/ q \in run.todo \ run.resolved
    BY <1>0, <1>4, <1>5, <1>6, <2>1 DEF FanoutInv, PendingIsLeft, Sends, Left
  <2>8. \A q \in attempted' : delivery'[q] = "pending" => run.transient \/ run.cur = q
    BY <1>0, <1>4, <1>6, <2>1 DEF FanoutInv, TriedIsSettled, Sends
  <2> QED
    BY <1>4, <1>6, <2>1, <2>2, <2>5, <2>6, <2>7, <2>8
<1> QED
  BY <1>0, <1>2, <1>4, <1>6, <1>9, <1>10, <1>11, RunKeepsFanout

LEMMA RecordingKeepsFanout ==
  ASSUME FanoutInv, NEW w \in FanoutWorkers, RecordAnswer(w)
  PROVE  FanoutInv'
<1> DEFINE r == fan[w].cur
           verdict == fan[w].answer
           target == regs[r].device
           kept == [q \in 1 .. Len(regs) |-> [regs[q] EXCEPT !.active = @ /\ regs[q].device # target]]
           failed == fan[w].transient \/ verdict = "transient"
           run == [fan[w] EXCEPT !.pc = "sending", !.transient = failed]
<1>0. /\ fan[w] \in FanoutRuns /\ fan \in [FanoutWorkers -> FanoutRuns] /\ fan[w].pc = "recording"
      /\ regs \in Seq(Registrations) /\ Len(regs) \in 1 .. MaxRegs /\ DOMAIN regs = 1 .. Len(regs)
      /\ OfOwner(r) /\ r \notin fan[w].todo /\ failed \in BOOLEAN
  BY DEF FanoutInv, FanoutTyped, SentToOwner, RecordAnswer
<1>1. /\ fan' = [fan EXCEPT ![w].pc = "sending", ![w].transient = @ \/ verdict = "transient"]
      /\ delivery' = IF verdict = "transient" THEN delivery
                     ELSE [delivery EXCEPT ![r] = IF verdict = "delivered" THEN verdict ELSE "failed"]
      /\ regs' = IF verdict # "permanent" THEN regs ELSE kept
      /\ UNCHANGED <<note, fanJob, accepted, attempted, pushFaults>>
  BY DEF RecordAnswer
<1>2. fan' = [fan EXCEPT ![w] = run]
  BY <1>0, <1>1, Zenon
<1>3. \A q \in DOMAIN regs : /\ kept[q] \in Registrations /\ kept[q].owner = regs[q].owner
                             /\ kept[q].device = regs[q].device /\ (kept[q].active => regs[q].active)
  <2> SUFFICES ASSUME NEW q \in DOMAIN regs
               PROVE /\ kept[q] \in Registrations /\ kept[q].owner = regs[q].owner
                     /\ kept[q].device = regs[q].device /\ (kept[q].active => regs[q].active)
    OBVIOUS
  <2>0. regs[q] \in Registrations
    BY <1>0
  <2>1. ASSUME NEW b \in BOOLEAN
        PROVE  LET s == [regs[q] EXCEPT !.active = b] IN
               s \in Registrations /\ s.owner = regs[q].owner /\ s.device = regs[q].device /\ s.active = b
    BY <2>0 DEF Registrations
  <2> DEFINE b == regs[q].active /\ regs[q].device # target
  <2>2. b \in BOOLEAN
    OBVIOUS
  <2>3. kept[q] = [regs[q] EXCEPT !.active = b]
    BY <1>0, Zenon
  <2>4. b => regs[q].active
    OBVIOUS
  <2> HIDE DEF kept, b
  <2> QED
    BY <2>1, <2>2, <2>3, <2>4
<1>4. DOMAIN kept = 1 .. Len(regs)
  OBVIOUS
<1>5. kept \in Seq(Registrations) /\ Len(kept) = Len(regs)
  <2>1. kept = [q \in 1 .. Len(regs) |-> kept[q]]
    OBVIOUS
  <2> HIDE DEF kept
  <2>2. \A q \in 1 .. Len(regs) : kept[q] \in Registrations
    BY <1>0, <1>3
  <2>3. Len(regs) \in Nat
    BY <1>0
  <2> QED
    BY <2>1, <2>2, <2>3
<1> HIDE DEF kept
<1>6. /\ regs' \in Seq(Registrations) /\ Len(regs') = Len(regs) /\ DOMAIN regs' = DOMAIN regs
      /\ \A q \in DOMAIN regs : /\ regs'[q].owner = regs[q].owner /\ regs'[q].device = regs[q].device
                                /\ (regs'[q].active => regs[q].active)
  BY <1>0, <1>1, <1>3, <1>4, <1>5
<1>7. failed = (fan[w].transient \/ verdict = "transient")
  OBVIOUS
<1> HIDE DEF failed
<1>8. /\ run \in FanoutRuns /\ run.pc = "sending" /\ run.try = fan[w].try /\ run.todo = fan[w].todo
      /\ run.resolved = fan[w].resolved /\ run.transient = failed
  BY <1>0 DEF FanoutRuns, FanoutSteps
<1> HIDE DEF run
<1>9. r \in RegIds /\ delivery \in [RegIds -> {"none", "pending", "delivered", "failed"}]
  BY <1>0, PushAssumption DEF FanoutInv, FanoutTyped, OfOwner, RegIds
<1>10. /\ \A q \in RegIds \ {r} : delivery'[q] = delivery[q]
       /\ verdict = "delivered" => delivery'[r] = "delivered"
       /\ verdict = "transient" => delivery'[r] = delivery[r]
       /\ verdict \notin {"delivered", "transient"} => delivery'[r] = "failed"
       /\ delivery' \in [RegIds -> {"none", "pending", "delivered", "failed"}]
  BY <1>1, <1>9
<1>11. FanoutTyped' /\ OneRegistration'
  <2>1. fan' \in [FanoutWorkers -> FanoutRuns]
    BY <1>0, <1>2, <1>8
  <2> HIDE DEF r, verdict, target
  <2>2. FanoutTyped'
    BY <1>0, <1>1, <1>6, <1>10, <2>1 DEF FanoutInv, FanoutTyped
  <2>3. OneRegistration'
    BY <1>6 DEF FanoutInv, OneRegistration
  <2> QED
    BY <2>2, <2>3
<1>12. SentToOwner'
  <2>1. fan'[w] = run /\ \A v \in FanoutWorkers \ {w} : fan'[v] = fan[v]
    BY <1>0, <1>2
  <2> HIDE DEF r, verdict, target
  <2>2. \A q \in DOMAIN regs : OfOwner(q) => OfOwner(q)'
    BY <1>6 DEF OfOwner
  <2>3. \A q : OfOwner(q) => OfOwner(q)'
    BY <2>2 DEF OfOwner
  <2>4. \A q \in RegIds : delivery'[q] # "none" => OfOwner(q)
    BY <1>0, <1>10 DEF FanoutInv, SentToOwner
  <2> QED
    BY <1>8, <2>1, <2>3, <2>4 DEF FanoutInv, SentToOwner
<1> HIDE DEF target
<1>13. ASSUME pushFaults' = 0
       PROVE  /\ pushFaults = 0
              /\ \A q \in RegIds : accepted'[q] # 0 => accepted'[q] = 1 /\ delivery'[q] = "delivered"
              /\ \A q \in run.todo \ run.resolved : delivery'[q] # "delivered"
              /\ \A q \in RegIds : delivery'[q] = "pending" /\ regs'[q].active =>
                    q \in attempted' \/ q \in run.todo \ run.resolved
              /\ \A q \in attempted' : delivery'[q] = "pending" => run.transient
  <2>1. pushFaults = 0 /\ \A v \in FanoutWorkers \ {w} : fan[v].pc = "idle"
    BY <1>0, <1>1, <1>13 DEF FanoutInv, OneWorker
  <2>2. delivery[r] # "delivered"
    BY <1>0, <2>1 DEF FanoutInv, LeftIsUnsent
  <2>3. \A q \in RegIds : accepted[q] # 0 =>
           accepted[q] = 1 /\ (delivery[q] = "delivered" \/ (q = r /\ verdict = "delivered"))
    BY <1>0, <2>1 DEF FanoutInv, AcceptedIsRecorded
  <2>4. \A q \in RegIds : delivery'[q] = "pending" => delivery[q] = "pending" /\ (q = r => verdict = "transient")
    BY <1>10
  <2>5. \A q \in RegIds : accepted'[q] # 0 => accepted'[q] = 1 /\ delivery'[q] = "delivered"
    BY <1>1, <1>9, <1>10, <2>2, <2>3
  <2>6. \A q \in run.todo \ run.resolved : delivery'[q] # "delivered"
    BY <1>0, <1>8, <1>9, <1>10, <2>1 DEF FanoutInv, LeftIsUnsent, Sends, Left, FanoutRuns
  <2>7. \A q \in RegIds : delivery'[q] = "pending" => q \in DOMAIN regs
    BY <2>4 DEF FanoutInv, SentToOwner, OfOwner
  <2>8. \A q \in RegIds : delivery'[q] = "pending" /\ regs'[q].active =>
           q \in attempted' \/ q \in run.todo \ run.resolved
    BY <1>0, <1>1, <1>6, <1>8, <2>1, <2>4, <2>7 DEF FanoutInv, PendingIsLeft, Sends, Left
  <2>9. \A q \in attempted' : delivery'[q] = "pending" => run.transient
    <3>1. \A q \in attempted : delivery'[q] = "pending" => q \in RegIds /\ delivery[q] = "pending" /\ (q = r => verdict = "transient")
      BY <2>4 DEF FanoutInv, FanoutTyped
    <3>2. \A q \in attempted : delivery[q] = "pending" => fan[w].transient \/ q = r
      BY <1>0, <2>1 DEF FanoutInv, TriedIsSettled, Sends
    <3>3. \A q \in attempted : delivery'[q] = "pending" => failed
      BY <1>7, <3>1, <3>2
    <3> QED
      BY <1>1, <1>8, <3>3
  <2> QED
    BY <2>1, <2>5, <2>6, <2>8, <2>9
<1> HIDE DEF r, verdict
<1>14. fan[w].pc # "idle" /\ run.pc # "idle" /\ UNCHANGED <<note, fanJob>>
  BY <1>0, <1>1, <1>8
<1> QED
  BY <1>2, <1>8, <1>11, <1>12, <1>13, <1>14, RunKeepsFanout


(* How a run that ends leaves the job.                                     *)
LEMMA EndKeepsFanout ==
  ASSUME FanoutInv, NEW w \in FanoutWorkers, fan[w].pc # "idle", fan' = [fan EXCEPT ![w] = FanoutIdle],
         NEW st \in {"queued", "dead", "done"}, st = "queued" => fanJob.attempts < FanoutTries,
         fanJob' = IF fanJob.state # "locked" \/ fanJob.attempts # fan[w].try THEN fanJob
                   ELSE [fanJob EXCEPT !.state = st],
         UNCHANGED <<note, regs, delivery, accepted, attempted>>, pushFaults' \in Nat,
         pushFaults' = 0 => /\ pushFaults = 0 /\ fan[w].pc # "recording"
                            /\ st = "dead" => \A r \in RegIds : delivery[r] = "pending" => r \in attempted \/ ~regs[r].active
                            /\ st = "done" => \A r \in RegIds : delivery[r] = "pending" => ~regs[r].active
  PROVE  FanoutInv'
<1>0. /\ fanJob \in [state : {"none", "queued", "locked", "done", "dead"}, attempts : 0 .. FanoutTries]
      /\ fan \in [FanoutWorkers -> FanoutRuns]
  BY DEF FanoutInv, FanoutTyped
<1>r. FanoutIdle \in FanoutRuns /\ FanoutIdle.pc = "idle" /\ FanoutIdle.todo = {}
  BY RestingRun
<1>1. /\ fan'[w] = FanoutIdle /\ \A v \in FanoutWorkers \ {w} : fan'[v] = fan[v]
      /\ fan' \in [FanoutWorkers -> FanoutRuns]
  BY <1>0, <1>r
<1>2. /\ fanJob' \in [state : {"none", "queued", "locked", "done", "dead"}, attempts : 0 .. FanoutTries]
      /\ fanJob'.attempts = fanJob.attempts
      /\ fanJob' = fanJob \/ (fanJob.state = "locked" /\ fanJob'.state = st)
  BY <1>0
<1>3. FanoutTyped' /\ JobFits' /\ OneRegistration'
  BY <1>1, <1>2 DEF FanoutInv, FanoutTyped, JobFits, OneRegistration
<1>4. SentToOwner'
  BY <1>1, <1>r DEF FanoutInv, SentToOwner, OfOwner
<1>5. ASSUME pushFaults' = 0
      PROVE  /\ OneWorker' /\ AcceptedIsRecorded' /\ LeftIsUnsent' /\ PendingIsLeft' /\ TriedIsSettled'
             /\ DeadJobTriedAll' /\ DoneMeansResolved'
  <2>1. /\ pushFaults = 0 /\ fanJob.state = "locked" /\ fanJob.attempts = fan[w].try
        /\ \A v \in FanoutWorkers : fan'[v].pc = "idle"
    BY <1>1, <1>5, <1>r DEF FanoutInv, OneWorker
  <2>2. fanJob'.state = st
    BY <1>0, <2>1
  <2>3. OneWorker' /\ LeftIsUnsent' /\ PendingIsLeft' /\ TriedIsSettled'
    BY <2>1 DEF OneWorker, LeftIsUnsent, PendingIsLeft, TriedIsSettled, Sends
  <2>4. AcceptedIsRecorded'
    BY <1>1, <1>5, <2>1 DEF FanoutInv, AcceptedIsRecorded
  <2>5. DeadJobTriedAll' /\ DoneMeansResolved'
    BY <1>5, <2>2 DEF DeadJobTriedAll, DoneMeansResolved
  <2> QED
    BY <2>3, <2>4, <2>5
<1> QED
  BY <1>3, <1>4, <1>5 DEF FanoutInv

LEMMA EndingKeepsFanout ==
  ASSUME FanoutInv, NEW w \in FanoutWorkers, FinishFanout(w) \/ FanoutCrashes(w)
  PROVE  FanoutInv'
<1>0. pushFaults \in Nat
  BY DEF FanoutInv, FanoutTyped
<1> DEFINE next == IF fanJob.attempts < FanoutTries THEN "queued" ELSE "dead"
<1>1. next \in {"queued", "dead", "done"} /\ (next = "queued" => fanJob.attempts < FanoutTries)
  OBVIOUS
<1>2. JobFails(w) => fanJob' = IF fanJob.state # "locked" \/ fanJob.attempts # fan[w].try THEN fanJob
                               ELSE [fanJob EXCEPT !.state = next]
  BY DEF JobFails
<1> HIDE DEF next
<1>3. CASE FanoutCrashes(w)
  <2>1. /\ fan[w].pc # "idle" /\ fan' = [fan EXCEPT ![w] = FanoutIdle] /\ JobFails(w)
        /\ UNCHANGED <<note, regs, delivery, accepted, attempted>> /\ pushFaults' \in Nat /\ pushFaults' # 0
    BY <1>0, <1>3 DEF FanoutCrashes, PushFault, jobRest
  <2> QED
    BY <1>1, <1>2, <2>1, EndKeepsFanout
<1>4. CASE FinishFanout(w)
  <2>1. /\ fan[w].pc = "sending" /\ Left(w) = {} /\ fan' = [fan EXCEPT ![w] = FanoutIdle]
        /\ UNCHANGED <<note, regs, delivery, accepted, attempted>> /\ pushFaults' = pushFaults
    BY <1>4 DEF FinishFanout, jobRest
  <2>2. pushFaults = 0 => \A r \in RegIds : delivery[r] = "pending" /\ regs[r].active => r \in attempted
    BY <2>1 DEF FanoutInv, PendingIsLeft, Sends
  <2>3. pushFaults = 0 => \A r \in attempted : delivery[r] = "pending" => fan[w].transient
    BY <2>1 DEF FanoutInv, TriedIsSettled, Sends
  <2>4. CASE fan[w].transient
    <3>1. JobFails(w)
      BY <1>4, <2>4 DEF FinishFanout
    <3>2. next # "done"
      BY DEF next
    <3> QED
      BY <1>0, <1>1, <1>2, <2>1, <2>2, <3>1, <3>2, EndKeepsFanout
  <2>5. CASE ~fan[w].transient
    <3> DEFINE st == "done"
    <3>1. fanJob' = IF fanJob.state # "locked" \/ fanJob.attempts # fan[w].try THEN fanJob
                    ELSE [fanJob EXCEPT !.state = st]
      BY <1>4, <2>5 DEF FinishFanout
    <3>2. st \in {"queued", "dead", "done"} /\ st # "queued" /\ st # "dead"
      OBVIOUS
    <3>3. pushFaults = 0 => \A r \in RegIds : delivery[r] = "pending" => ~regs[r].active
      BY <2>2, <2>3, <2>5
    <3> HIDE DEF st
    <3> QED
      BY <1>0, <2>1, <3>1, <3>2, <3>3, EndKeepsFanout
  <2> QED
    BY <2>4, <2>5
<1> QED
  BY <1>3, <1>4

LEMMA StaleLockKeepsFanout ==
  ASSUME FanoutInv, NEW w \in FanoutWorkers, FanoutLockGoesStale(w)
  PROVE  FanoutInv'
<1>1. /\ fanJob.state = "locked" /\ fanJob.attempts < FanoutTries /\ fanJob' = [fanJob EXCEPT !.state = "queued"]
      /\ pushFaults \in Nat /\ pushFaults' = pushFaults + 1
      /\ UNCHANGED <<note, regs, delivery, accepted, fan, attempted>>
  BY DEF FanoutInv, FanoutTyped, FanoutLockGoesStale, PushFault, jobRest
<1>2. /\ fanJob' \in [state : {"none", "queued", "locked", "done", "dead"}, attempts : 0 .. FanoutTries]
      /\ fanJob'.state = "queued" /\ fanJob'.attempts = fanJob.attempts /\ pushFaults' \in Nat /\ pushFaults' # 0
  BY <1>1 DEF FanoutInv, FanoutTyped
<1> QED
  BY <1>1, <1>2 DEF FanoutInv, FanoutTyped, JobFits, OneRegistration, SentToOwner, OfOwner

LEMMA FanoutKept == ASSUME FanoutInv, [PushNext]_pushVars PROVE FanoutInv'
<1>1. CASE UNCHANGED pushVars
  BY <1>1 DEF pushVars, FanoutInv, FanoutTyped, JobFits, OneRegistration, SentToOwner, OfOwner, OneWorker,
              AcceptedIsRecorded, LeftIsUnsent, PendingIsLeft, TriedIsSettled, Sends, Left,
              DeadJobTriedAll, DoneMeansResolved
<1> QED
  BY <1>1, ProducersKeepFanout, RegisteringKeepsFanout, TakingKeepsFanout, PreparingKeepsFanout, SendingKeepsFanout,
     RecordingKeepsFanout, EndingKeepsFanout, StaleLockKeepsFanout DEF PushNext, FanoutStep

LEMMA FanoutInvMeans ==
  ASSUME FanoutInv
  PROVE  PushTypeOK /\ PushedTwiceNeedsFault /\ DeadJobTriedAll /\ DoneMeansResolved
<1>0. /\ Len(regs) \in 1 .. MaxRegs /\ DOMAIN regs = 1 .. Len(regs) /\ fan \in [FanoutWorkers -> FanoutRuns]
      /\ pushFaults \in Nat
  BY DEF FanoutInv, FanoutTyped
<1>1. \A d \in PushDevices : Cardinality({r \in 1 .. Len(regs) : regs[r].device = d /\ regs[r].active}) <= 1
  <2> SUFFICES ASSUME NEW d \in PushDevices
               PROVE  Cardinality({r \in 1 .. Len(regs) : regs[r].device = d /\ regs[r].active}) <= 1
    OBVIOUS
  <2> DEFINE S == {r \in 1 .. Len(regs) : regs[r].device = d /\ regs[r].active}
  <2>1. \A q, r \in S : q = r
    BY <1>0 DEF FanoutInv, OneRegistration
  <2> HIDE DEF S
  <2>2. Cardinality(S) <= 1
    BY <2>1, AtMostOne
  <2> QED
    BY <2>2 DEF S
<1>2. \A w \in FanoutWorkers : fan[w].todo \subseteq 1 .. Len(regs)
  BY <1>0 DEF FanoutInv, SentToOwner, OfOwner, FanoutRuns
<1>3. PushTypeOK
  BY <1>0, <1>1, <1>2 DEF FanoutInv, FanoutTyped, PushTypeOK
<1>4. PushedTwiceNeedsFault
  BY <1>0 DEF FanoutInv, AcceptedIsRecorded, PushedTwiceNeedsFault
<1>5. DeadJobTriedAll /\ DoneMeansResolved
  BY <1>0 DEF FanoutInv, DeadJobTriedAll, DoneMeansResolved
<1> QED
  BY <1>3, <1>4, <1>5

(* The push fanout (packages/notifications): unless an answer got lost, a  *)
(* process died between a push and its record or two workers ran the job,  *)
(* a registration receives a notification once, a job that gave up has     *)
(* tried every active registration that is left, and one that ended well   *)
(* left none, for any number of accounts, devices, registrations, workers  *)
(* and attempts.                                                           *)
THEOREM FanoutTellsOnce == PushSpec => [](PushedTwiceNeedsFault /\ DeadJobTriedAll /\ DoneMeansResolved)
<1>1. FanoutInv => PushedTwiceNeedsFault /\ DeadJobTriedAll /\ DoneMeansResolved
  BY FanoutInvMeans
<1> QED
  BY <1>1, FanoutInitially, FanoutKept, PTL DEF PushSpec

-----------------------------------------------------------------------------
(* The sync server.                                                        *)

HubMessages == [type : {"invalidation"}, v : Nat] \cup [type : {"revoked"}, c : Clients, n : Nat]
Sockets == [st : {"none", "authenticating", "authenticated", "open", "closing"}, session : Nat, before : Nat,
            pending : Nat, missed : 0 .. 2, code : Nat]
Devices == [copy : Nat, frame : Nat, stale : BOOLEAN, gaveUp : BOOLEAN, silent : BOOLEAN]
PhaseNames == {"run", "listener", "drain", "mail", "queue", "pool", "exit"}

HubTyped ==
    /\ version \in 0 .. MaxWrites /\ publishing \subseteq HubMessages /\ wire \in Seq(HubMessages)
    /\ hubListen \in {"up", "down", "connecting"} /\ phase \in PhaseNames
    /\ tenantUp \in BOOLEAN /\ toldHub \in BOOLEAN /\ lostInvalidation \in BOOLEAN
    /\ deviceSession \in [Clients -> [n : Nat, active : BOOLEAN]]
    /\ statusListen \in {"up", "down", "listening", "read", "closed"}
    /\ statusHeld \in BOOLEAN /\ statusSnap \in BOOLEAN
    /\ closeCount \in Nat /\ lastClose \in Nat /\ hubEvents \in Nat
    /\ sock \in [Clients -> Sockets] /\ device \in [Clients -> Devices]

\* Nothing tells of a version that is not committed yet.
NewsIsOld ==
    /\ \A m \in publishing : m.type = "invalidation" => m.v <= version
    /\ \A i \in DOMAIN wire : wire[i].type = "invalidation" => wire[i].v <= version

\* The news of the newest version is on its way to this process.
NewestIsSent ==
    \/ \E m \in publishing : m.type = "invalidation" /\ m.v = version
    \/ \E i \in DOMAIN wire : wire[i].type = "invalidation" /\ wire[i].v = version

\* A socket and its device: s is a socket, d its device.
ClientFits(s, d) ==
    /\ s.before <= closeCount /\ s.pending <= version /\ d.copy <= version /\ d.frame <= version
    /\ HubClosed => s.st # "open"
    /\ ~tenantUp /\ toldHub => s.st # "open" /\ (s.st = "authenticated" => s.before < lastClose)
    /\ s.st = "open" /\ hubListen = "up" /\ ~d.stale /\ ~lostInvalidation /\ d.copy # version =>
          d.frame = version \/ s.pending = version \/ NewestIsSent

HubInv ==
    /\ HubTyped /\ NewsIsOld
    /\ HubClosed => hubListen # "up"
    /\ \A c \in Clients : ClientFits(sock[c], device[c])

restVars == <<version, publishing, wire, hubListen, phase, tenantUp, closeCount, lastClose, toldHub, lostInvalidation>>

LEMMA HubInitially == HubInit => HubInv
<1> SUFFICES ASSUME HubInit PROVE HubInv
  OBVIOUS
<1> USE DEF HubInit
<1>1. NoSocket \in Sockets /\ NoSocket.st = "none" /\ NoSocket.before = 0 /\ NoSocket.pending = 0
  BY DEF NoSocket, Sockets
<1>2. /\ sock \in [Clients -> Sockets] /\ device \in [Clients -> Devices]
      /\ deviceSession \in [Clients -> [n : Nat, active : BOOLEAN]]
      /\ \A c \in Clients : sock[c] = NoSocket /\ device[c].copy = 0 /\ device[c].frame = 0
  BY <1>1 DEF Devices
<1>3. HubTyped
  <2>1. version \in 0 .. MaxWrites /\ wire \in Seq(HubMessages) /\ phase \in PhaseNames
    BY HubAssumption DEF PhaseNames
  <2> QED
    BY <1>2, <2>1 DEF HubTyped
<1>4. NewsIsOld /\ ~HubClosed
  BY DEF NewsIsOld, HubClosed
<1>5. \A c \in Clients : ClientFits(sock[c], device[c])
  BY <1>1, <1>2, <1>4 DEF ClientFits
<1> QED
  BY <1>3, <1>4, <1>5 DEF HubInv

(* A step of one socket and its device: only these have to be looked at.   *)
LEMMA ClientKeepsHub ==
  ASSUME HubInv, NEW c \in Clients, NEW s \in Sockets, NEW d \in Devices,
         sock' = [sock EXCEPT ![c] = s], device' = [device EXCEPT ![c] = d], ClientFits(s, d),
         UNCHANGED <<restVars, deviceSession, statusListen, statusHeld, statusSnap>>, hubEvents' \in Nat
  PROVE  HubInv'
<1> USE DEF restVars
<1>1. /\ sock' \in [Clients -> Sockets] /\ device' \in [Clients -> Devices] /\ sock'[c] = s /\ device'[c] = d
      /\ \A b \in Clients \ {c} : sock'[b] = sock[b] /\ device'[b] = device[b]
  BY DEF HubInv, HubTyped
<1>2. HubTyped' /\ NewsIsOld' /\ (HubClosed => hubListen # "up")'
  BY <1>1 DEF HubInv, HubTyped, NewsIsOld, HubClosed
<1>3. \A b \in Clients : ClientFits(sock'[b], device'[b])
  BY <1>1 DEF HubInv
<1>4. \A b \in Clients : ClientFits(sock'[b], device'[b]) => ClientFits(sock[b], device[b])'
  BY DEF ClientFits, HubClosed, NewestIsSent
<1> QED
  BY <1>2, <1>3, <1>4 DEF HubInv

LEMMA SocketsAre ==
  /\ NoSocket \in Sockets /\ NoSocket.st = "none" /\ NoSocket.before = 0 /\ NoSocket.pending = 0
  BY DEF NoSocket, Sockets

LEMMA DeviceKeepsHub ==
  ASSUME HubInv, NEW c \in Clients, Refetch(c) \/ ReadsFrame(c) \/ FallsSilent(c) \/ HandleUpgrade(c) \/ PeerLeaves(c)
  PROVE  HubInv'
<1>0. /\ sock \in [Clients -> Sockets] /\ device \in [Clients -> Devices] /\ sock[c] \in Sockets /\ device[c] \in Devices
      /\ version \in Nat /\ closeCount \in Nat /\ hubEvents \in Nat /\ ClientFits(sock[c], device[c])
      /\ sock = [sock EXCEPT ![c] = sock[c]] /\ device = [device EXCEPT ![c] = device[c]]
  BY HubAssumption DEF HubInv, HubTyped
<1> USE DEF restVars, dataVars, statusVars
<1>1. CASE Refetch(c)
  <2> DEFINE d == [device[c] EXCEPT !.copy = version, !.stale = FALSE]
  <2>1. d \in Devices /\ d.copy = version /\ d.frame = device[c].frame
    BY <1>0 DEF Devices
  <2>2. /\ sock' = [sock EXCEPT ![c] = sock[c]] /\ device' = [device EXCEPT ![c] = d]
        /\ UNCHANGED <<restVars, deviceSession, statusListen, statusHeld, statusSnap, hubEvents>>
    BY <1>0, <1>1 DEF Refetch
  <2> HIDE DEF d
  <2>3. ClientFits(sock[c], d)
    BY <1>0, <2>1 DEF ClientFits
  <2> QED
    BY <1>0, <2>1, <2>2, <2>3, ClientKeepsHub
<1>2. CASE ReadsFrame(c)
  <2> DEFINE copy == IF device[c].frame > device[c].copy THEN version ELSE device[c].copy
             d == [device[c] EXCEPT !.frame = 0, !.copy = copy]
  <2>1. d \in Devices /\ d.copy = copy /\ d.frame = 0 /\ d.stale = device[c].stale
    BY <1>0 DEF Devices
  <2>2. /\ sock' = [sock EXCEPT ![c] = sock[c]] /\ device' = [device EXCEPT ![c] = d]
        /\ UNCHANGED <<restVars, deviceSession, statusListen, statusHeld, statusSnap, hubEvents>>
    BY <1>0, <1>2 DEF ReadsFrame
  <2>3. /\ copy = device[c].copy \/ copy = version
        /\ device[c].frame = version /\ device[c].copy # version => copy = version
    BY <1>0 DEF ClientFits, Devices
  <2> HIDE DEF d, copy
  <2>4. ClientFits(sock[c], d)
    BY <1>0, <2>1, <2>3 DEF ClientFits
  <2> QED
    BY <1>0, <2>1, <2>2, <2>4, ClientKeepsHub
<1>3. CASE FallsSilent(c)
  <2> DEFINE d == [device[c] EXCEPT !.silent = TRUE]
  <2>1. d \in Devices /\ d.copy = device[c].copy /\ d.frame = device[c].frame /\ d.stale = device[c].stale
    BY <1>0 DEF Devices
  <2>2. /\ sock' = [sock EXCEPT ![c] = sock[c]] /\ device' = [device EXCEPT ![c] = d]
        /\ UNCHANGED <<restVars, deviceSession, statusListen, statusHeld, statusSnap>> /\ hubEvents' \in Nat
    BY <1>0, <1>3 DEF FallsSilent, Event
  <2> HIDE DEF d
  <2>3. ClientFits(sock[c], d)
    BY <1>0, <2>1 DEF ClientFits
  <2> QED
    BY <1>0, <2>1, <2>2, <2>3, ClientKeepsHub
<1>4. CASE HandleUpgrade(c)
  <2> DEFINE s == [NoSocket EXCEPT !.st = "authenticating", !.before = closeCount]
  <2>1. s \in Sockets /\ s.st = "authenticating" /\ s.before = closeCount /\ s.pending = 0
    BY <1>0, SocketsAre DEF Sockets
  <2>2. /\ sock' = [sock EXCEPT ![c] = s] /\ device' = [device EXCEPT ![c] = device[c]]
        /\ UNCHANGED <<restVars, deviceSession, statusListen, statusHeld, statusSnap, hubEvents>>
    BY <1>0, <1>4 DEF HandleUpgrade
  <2> HIDE DEF s
  <2>3. ClientFits(s, device[c])
    BY <1>0, <2>1 DEF ClientFits
  <2> QED
    BY <1>0, <2>1, <2>2, <2>3, ClientKeepsHub
<1>5. CASE PeerLeaves(c)
  <2> DEFINE d == [device[c] EXCEPT !.frame = 0, !.silent = FALSE]
  <2>1. d \in Devices /\ d.copy = device[c].copy /\ d.frame = 0
    BY <1>0 DEF Devices
  <2>2. /\ sock' = [sock EXCEPT ![c] = NoSocket] /\ device' = [device EXCEPT ![c] = d]
        /\ UNCHANGED <<restVars, deviceSession, statusListen, statusHeld, statusSnap>> /\ hubEvents' = hubEvents + 1
    BY <1>5 DEF PeerLeaves, Event
  <2> HIDE DEF d
  <2>3. ClientFits(NoSocket, d)
    BY <1>0, <2>1, SocketsAre DEF ClientFits, Devices
  <2>4. NoSocket \in Sockets /\ hubEvents' \in Nat
    BY <1>0, <2>2, SocketsAre
  <2> QED
    BY <2>1, <2>2, <2>3, <2>4, ClientKeepsHub
<1> QED
  BY <1>1, <1>2, <1>3, <1>4, <1>5


LEMMA ServerKeepsHub ==
  ASSUME HubInv, NEW c \in Clients, ServerStep(c)
  PROVE  HubInv'
<1>0. /\ sock \in [Clients -> Sockets] /\ device \in [Clients -> Devices] /\ sock[c] \in Sockets /\ device[c] \in Devices
      /\ version \in Nat /\ closeCount \in Nat /\ hubEvents \in Nat /\ ClientFits(sock[c], device[c])
      /\ sock = [sock EXCEPT ![c] = sock[c]] /\ device = [device EXCEPT ![c] = device[c]]
      /\ NoSocket \in Sockets /\ deviceSession[c].n \in Nat
  BY HubAssumption, SocketsAre DEF HubInv, HubTyped
<1> USE DEF restVars, dataVars, statusVars
<1>g. ASSUME NEW b \in BOOLEAN
      PROVE  LET d == [device[c] EXCEPT !.gaveUp = b] IN
             d \in Devices /\ d.copy = device[c].copy /\ d.frame = device[c].frame /\ d.stale = device[c].stale
  BY <1>0 DEF Devices
<1>n. ASSUME NEW d \in Devices, d.copy <= version, d.frame <= version PROVE ClientFits(NoSocket, d)
  BY <1>0, <1>n, SocketsAre DEF ClientFits, Devices
<1>1. CASE Authenticate(c)
  <2>0. /\ sock[c].st = "authenticating"
        /\ UNCHANGED <<restVars, deviceSession, statusListen, statusHeld, statusSnap, hubEvents>>
    BY <1>1 DEF Authenticate
  <2>1. CASE deviceSession[c].active /\ tenantUp /\ phase # "pool"
    <3> DEFINE n == deviceSession[c].n
               s == [sock[c] EXCEPT !.st = "authenticated", !.session = n]
    <3>0. n \in Nat
      BY <1>0
    <3> HIDE DEF n
    <3>1. s \in Sockets /\ s.st = "authenticated" /\ s.before = sock[c].before /\ s.pending = sock[c].pending
      BY <1>0, <3>0 DEF Sockets
    <3>2. sock' = [sock EXCEPT ![c] = s] /\ device' = [device EXCEPT ![c] = device[c]]
      BY <1>0, <1>1, <2>1 DEF Authenticate, n
    <3> HIDE DEF s
    <3>3. ClientFits(s, device[c])
      BY <1>0, <2>1, <3>1 DEF ClientFits
    <3> QED
      BY <1>0, <2>0, <3>1, <3>2, <3>3, ClientKeepsHub
  <2>2. CASE ~(deviceSession[c].active /\ tenantUp /\ phase # "pool")
    <3> DEFINE d == [device[c] EXCEPT !.gaveUp = TRUE]
    <3>1. d \in Devices /\ d.copy = device[c].copy /\ d.frame = device[c].frame
      BY <1>g
    <3>2. sock' = [sock EXCEPT ![c] = NoSocket] /\ device' = [device EXCEPT ![c] = d]
      BY <1>0, <1>1, <2>2 DEF Authenticate
    <3> HIDE DEF d
    <3>3. ClientFits(NoSocket, d)
      BY <1>0, <1>n, <3>1 DEF ClientFits
    <3> QED
      BY <1>0, <2>0, <3>1, <3>2, <3>3, ClientKeepsHub
  <2> QED
    BY <2>1, <2>2
<1>2. CASE AttachClient(c)
  <2>0. /\ sock[c].st = "authenticated"
        /\ UNCHANGED <<restVars, deviceSession, statusListen, statusHeld, statusSnap, hubEvents>>
    BY <1>2 DEF AttachClient
  <2>1. CASE HubClosed
    <3>1. sock' = [sock EXCEPT ![c] = NoSocket] /\ device' = [device EXCEPT ![c] = device[c]]
      BY <1>0, <1>2, <2>1 DEF AttachClient, Refused
    <3>2. ClientFits(NoSocket, device[c])
      BY <1>0, <1>n DEF ClientFits
    <3> QED
      BY <1>0, <2>0, <3>1, <3>2, ClientKeepsHub
  <2>2. CASE ~HubClosed /\ lastClose > sock[c].before
    <3> DEFINE code == 4401
               s == [sock[c] EXCEPT !.st = "closing", !.code = code]
    <3>0. sock' = [sock EXCEPT ![c].st = "closing", ![c].code = code] /\ device' = device
      BY <1>2, <2>2 DEF AttachClient
    <3>a. code \in Nat
      OBVIOUS
    <3> HIDE DEF code
    <3>1. s \in Sockets /\ s.st = "closing" /\ s.before = sock[c].before /\ s.pending = sock[c].pending
      BY <1>0, <3>a DEF Sockets
    <3>2. sock' = [sock EXCEPT ![c] = s] /\ device' = [device EXCEPT ![c] = device[c]]
      BY <1>0, <3>0
    <3> HIDE DEF s
    <3>3. ClientFits(s, device[c])
      BY <1>0, <3>1 DEF ClientFits
    <3> QED
      BY <1>0, <2>0, <3>1, <3>2, <3>3, ClientKeepsHub
  <2>3. CASE ~HubClosed /\ ~(lastClose > sock[c].before)
    <3> DEFINE s == [sock[c] EXCEPT !.st = "open"]
               d == [device[c] EXCEPT !.stale = TRUE, !.frame = 0]
    <3>1. s \in Sockets /\ s.st = "open" /\ s.before = sock[c].before /\ s.pending = sock[c].pending
      BY <1>0 DEF Sockets
    <3>2. d \in Devices /\ d.stale /\ d.copy = device[c].copy /\ d.frame = 0
      BY <1>0 DEF Devices
    <3>3. sock' = [sock EXCEPT ![c] = s] /\ device' = [device EXCEPT ![c] = d]
      BY <1>2, <2>3 DEF AttachClient, Opened
    <3> HIDE DEF s, d
    <3>4. lastClose \in Nat /\ sock[c].before \in Nat
      BY <1>0 DEF HubInv, HubTyped, Sockets
    <3>5. ~(~tenantUp /\ toldHub)
      BY <1>0, <2>0, <2>3, <3>4 DEF ClientFits
    <3>6. ClientFits(s, d)
      BY <1>0, <2>3, <3>1, <3>2, <3>5 DEF ClientFits
    <3> QED
      BY <1>0, <2>0, <3>1, <3>2, <3>3, <3>6, ClientKeepsHub
  <2> QED
    BY <2>1, <2>2, <2>3
<1>3. CASE SocketCloses(c)
  <2> DEFINE b == (sock[c].code = 4401)
             d == [device[c] EXCEPT !.gaveUp = b, !.frame = 0, !.silent = FALSE]
  <2>0. b \in BOOLEAN
    OBVIOUS
  <2>a. /\ sock' = [sock EXCEPT ![c] = NoSocket]
        /\ UNCHANGED <<restVars, deviceSession, statusListen, statusHeld, statusSnap, hubEvents>>
    BY <1>3 DEF SocketCloses
  <2>b. device' = [device EXCEPT ![c].gaveUp = b, ![c].frame = 0, ![c].silent = FALSE]
    BY <1>3 DEF SocketCloses
  <2> HIDE DEF b
  <2>1. /\ sock' = [sock EXCEPT ![c] = NoSocket] /\ device' = [device EXCEPT ![c] = d]
        /\ UNCHANGED <<restVars, deviceSession, statusListen, statusHeld, statusSnap, hubEvents>>
    BY <1>0, <2>a, <2>b
  <2>2. d \in Devices /\ d.copy = device[c].copy /\ d.frame = 0
    BY <1>0, <2>0 DEF Devices
  <2> HIDE DEF d
  <2>3. ClientFits(NoSocket, d)
    BY <1>0, <1>n, <2>2 DEF ClientFits
  <2> QED
    BY <1>0, <2>1, <2>2, <2>3, ClientKeepsHub
<1>4. CASE Flush(c)
  <2> DEFINE s == [sock[c] EXCEPT !.pending = 0]
             d == [device[c] EXCEPT !.frame = sock[c].pending]
  <2>1. s \in Sockets /\ s.st = sock[c].st /\ s.before = sock[c].before /\ s.pending = 0
    BY <1>0 DEF Sockets
  <2>2. d \in Devices /\ d.copy = device[c].copy /\ d.frame = sock[c].pending /\ d.stale = device[c].stale
    BY <1>0 DEF Devices, Sockets
  <2>3. /\ sock' = [sock EXCEPT ![c] = s] /\ device' = [device EXCEPT ![c] = d]
        /\ UNCHANGED <<restVars, deviceSession, statusListen, statusHeld, statusSnap, hubEvents>>
        /\ device[c].frame = 0
    BY <1>4 DEF Flush
  <2> HIDE DEF s, d
  <2>4. ClientFits(s, d)
    <3>1. device[c].frame = version => device[c].copy = version
      BY <1>0, <2>3 DEF ClientFits, Devices
    <3> QED
      BY <1>0, <2>1, <2>2, <2>3, <3>1 DEF ClientFits
  <2> QED
    BY <1>0, <2>1, <2>2, <2>3, <2>4, ClientKeepsHub
<1>5. CASE Heartbeat(c)
  <2>0. UNCHANGED <<restVars, deviceSession, statusListen, statusHeld, statusSnap, hubEvents>>
    BY <1>5 DEF Heartbeat
  <2>1. CASE sock[c].missed = 2
    <3> DEFINE d == [device[c] EXCEPT !.frame = 0, !.silent = FALSE]
    <3>1. sock' = [sock EXCEPT ![c] = NoSocket] /\ device' = [device EXCEPT ![c] = d]
      BY <1>5, <2>1 DEF Heartbeat
    <3>2. d \in Devices /\ d.copy = device[c].copy /\ d.frame = 0
      BY <1>0 DEF Devices
    <3> HIDE DEF d
    <3>3. ClientFits(NoSocket, d)
      BY <1>0, <1>n, <3>2 DEF ClientFits
    <3> QED
      BY <1>0, <2>0, <3>1, <3>2, <3>3, ClientKeepsHub
  <2>2. CASE sock[c].missed # 2
    <3> DEFINE m == IF device[c].silent THEN sock[c].missed + 1 ELSE 0
               st == IF Alive(c, sock[c].session) THEN sock[c].st ELSE "closing"
               code == IF Alive(c, sock[c].session) THEN sock[c].code ELSE 4401
               s == [sock[c] EXCEPT !.missed = m, !.st = st, !.code = code]
    <3>1. /\ m \in 0 .. 2 /\ st \in {"none", "authenticating", "authenticated", "open", "closing"} /\ code \in Nat
          /\ st = sock[c].st \/ st = "closing"
      BY <1>0, <2>2 DEF Sockets
    <3>2. sock' = [sock EXCEPT ![c] = s] /\ device' = [device EXCEPT ![c] = device[c]]
      <4>1. /\ sock' = [sock EXCEPT ![c].missed = m, ![c].st = st, ![c].code = code] /\ device' = device
        BY <1>5, <2>2 DEF Heartbeat
      <4> HIDE DEF m, st, code
      <4> QED
        BY <1>0, <4>1
    <3> HIDE DEF m, st, code
    <3>3. s \in Sockets /\ s.st = st /\ s.before = sock[c].before /\ s.pending = sock[c].pending
      BY <1>0, <3>1 DEF Sockets
    <3> HIDE DEF s
    <3>4. ClientFits(s, device[c])
      BY <1>0, <3>1, <3>3 DEF ClientFits
    <3> QED
      BY <1>0, <2>0, <3>2, <3>3, <3>4, ClientKeepsHub
  <2> QED
    BY <2>1, <2>2
<1> QED
  BY <1>1, <1>2, <1>3, <1>4, <1>5 DEF ServerStep


(* Steps that leave the sockets or close them: the devices stay, and what  *)
(* a socket that is left open needs is shown for the whole process.        *)
LEMMA ClosingIs ==
  ASSUME sock \in [Clients -> Sockets], NEW S, NEW code \in Nat
  PROVE  /\ Closing(S, code) \in [Clients -> Sockets]
         /\ \A c \in Clients : LET s == Closing(S, code)[c] IN
              /\ s.before = sock[c].before /\ s.pending = sock[c].pending
              /\ s.st = sock[c].st \/ (s.st = "closing" /\ c \in S)
              /\ c \in S => s.st # "open"
<1> DEFINE shut == [c \in Clients |-> IF c \in S /\ SocketOpen(c)
                                      THEN [sock[c] EXCEPT !.st = "closing", !.code = code] ELSE sock[c]]
<1>1. ASSUME NEW c \in Clients
      PROVE  /\ shut[c] \in Sockets /\ shut[c].before = sock[c].before /\ shut[c].pending = sock[c].pending
             /\ shut[c].st = sock[c].st \/ (shut[c].st = "closing" /\ c \in S)
             /\ c \in S => shut[c].st # "open"
  <2>1. CASE c \in S /\ SocketOpen(c)
    <3>1. sock[c] \in Sockets
      OBVIOUS
    <3>2. LET s == [sock[c] EXCEPT !.st = "closing", !.code = code] IN
          s \in Sockets /\ s.before = sock[c].before /\ s.pending = sock[c].pending /\ s.st = "closing"
      BY <3>1 DEF Sockets
    <3>3. shut[c] = [sock[c] EXCEPT !.st = "closing", !.code = code]
      BY <2>1
    <3> QED
      BY <2>1, <3>2, <3>3
  <2>2. CASE ~(c \in S /\ SocketOpen(c))
    BY <2>2 DEF SocketOpen
  <2> QED
    BY <2>1, <2>2
<1>2. shut = Closing(S, code)
  BY DEF Closing
<1>3. shut = [c \in Clients |-> shut[c]]
  OBVIOUS
<1> HIDE DEF shut
<1>4. shut \in [Clients -> Sockets]
  BY <1>1, <1>3
<1> QED
  BY <1>1, <1>2, <1>4

LEMMA SomeCodes == 4401 \in Nat /\ 1012 \in Nat
  OBVIOUS

(* Each client fits after a step that opens no socket and commits nothing. *)
LEMMA ClientsStay ==
  ASSUME HubInv, HubTyped', NewsIsOld', (HubClosed => hubListen # "up")', version' = version,
         \A c \in Clients : /\ device'[c].copy = device[c].copy /\ device'[c].frame = device[c].frame
                            /\ device'[c].stale = device[c].stale,
         closeCount <= closeCount',
         \A c \in Clients : /\ sock'[c].before = sock[c].before /\ sock'[c].pending = sock[c].pending
                            /\ sock'[c].st = sock[c].st \/ sock'[c].st = "closing",
         HubClosed' => HubClosed \/ \A c \in Clients : sock'[c].st # "open",
         (~tenantUp /\ toldHub)' => \A c \in Clients :
            sock'[c].st # "open" /\ (sock'[c].st = "authenticated" => sock'[c].before < lastClose'),
         hubListen' = "up" => hubListen = "up" \/ \A c \in Clients : sock'[c].st # "open",
         lostInvalidation => lostInvalidation',
         NewestIsSent => NewestIsSent' \/ lostInvalidation' \/ hubListen' # "up"
  PROVE  HubInv'
<1>1. ASSUME NEW c \in Clients PROVE ClientFits(sock[c], device[c])'
  <2>1. ClientFits(sock[c], device[c])
    BY DEF HubInv
  <2>2. /\ sock'[c].before <= closeCount' /\ sock'[c].pending <= version' /\ device'[c].copy <= version'
        /\ device'[c].frame <= version'
    <3>1. /\ sock[c].before \in Nat /\ closeCount \in Nat /\ closeCount' \in Nat
      BY DEF HubInv, HubTyped, Sockets
    <3> QED
      BY <2>1, <3>1 DEF ClientFits
  <2>3. HubClosed' => sock'[c].st # "open"
    BY <2>1 DEF ClientFits
  <2>4. (~tenantUp /\ toldHub)' => sock'[c].st # "open" /\ (sock'[c].st = "authenticated" => sock'[c].before < lastClose')
    OBVIOUS
  <2>5. sock'[c].st = "open" /\ hubListen' = "up" /\ ~device'[c].stale /\ ~lostInvalidation' /\ device'[c].copy # version' =>
           device'[c].frame = version' \/ sock'[c].pending = version' \/ NewestIsSent'
    BY <2>1 DEF ClientFits
  <2> QED
    BY <2>2, <2>3, <2>4, <2>5 DEF ClientFits
<1> QED
  BY <1>1 DEF HubInv


LEMMA WiresAre ==
  ASSUME wire \in Seq(HubMessages), wire # <<>>
  PROVE  /\ Head(wire) \in HubMessages /\ Head(wire) = wire[1] /\ Tail(wire) \in Seq(HubMessages)
         /\ \A i \in DOMAIN Tail(wire) : i + 1 \in DOMAIN wire /\ Tail(wire)[i] = wire[i + 1]
         /\ \A i \in DOMAIN wire : i = 1 \/ (i - 1 \in DOMAIN Tail(wire) /\ Tail(wire)[i - 1] = wire[i])
  OBVIOUS

LEMMA WritesKeepHub ==
  ASSUME HubInv, NotifyInvalidation
  PROVE  HubInv'
<1> DEFINE m == [type |-> "invalidation", v |-> version + 1]
<1>0. /\ version \in Nat /\ version + 1 <= MaxWrites /\ version' = version + 1 /\ publishing' = publishing \cup {m}
      /\ hubEvents' = hubEvents + 1 /\ hubEvents \in Nat
      /\ UNCHANGED <<wire, hubListen, phase, tenantUp, deviceSession, sock, device, statusListen, statusHeld, statusSnap,
                     closeCount, lastClose, toldHub, lostInvalidation>>
  BY HubAssumption DEF NotifyInvalidation, Event, statusVars, HubInv, HubTyped
<1>1. m \in HubMessages /\ m.type = "invalidation" /\ m.v = version'
  BY <1>0 DEF HubMessages
<1> HIDE DEF m
<1>2. HubTyped'
  BY <1>0, <1>1, HubAssumption DEF HubInv, HubTyped
<1>3. NewsIsOld' /\ (HubClosed => hubListen # "up")'
  <2>1. \A k \in publishing : k.type = "invalidation" => k.v <= version' /\ k \in HubMessages
    BY <1>0 DEF HubInv, HubTyped, NewsIsOld, HubMessages
  <2>2. \A i \in DOMAIN wire : wire[i].type = "invalidation" => wire[i].v <= version'
    <3>1. \A i \in DOMAIN wire : wire[i] \in HubMessages
      BY DEF HubInv, HubTyped
    <3> QED
      BY <1>0, <3>1 DEF HubInv, NewsIsOld, HubMessages
  <2> QED
    BY <1>0, <1>1, <2>1, <2>2 DEF HubInv, NewsIsOld, HubClosed
<1>4. NewestIsSent'
  BY <1>0, <1>1 DEF NewestIsSent
<1>5. ASSUME NEW c \in Clients PROVE ClientFits(sock[c], device[c])'
  <2>1. /\ ClientFits(sock[c], device[c]) /\ sock[c].pending \in Nat /\ device[c].copy \in Nat /\ device[c].frame \in Nat
    BY DEF HubInv, HubTyped, Sockets, Devices
  <2> QED
    BY <1>0, <1>4, <2>1 DEF ClientFits, HubClosed
<1> QED
  BY <1>2, <1>3, <1>5 DEF HubInv

LEMMA PublishingKeepsHub ==
  ASSUME HubInv, NEW m \in publishing, PublishRealtimeMessage(m) \/ PublishFails(m)
  PROVE  HubInv'
<1> USE DEF dataVars, statusVars
<1>0. /\ m \in HubMessages /\ wire \in Seq(HubMessages) /\ hubEvents \in Nat /\ lostInvalidation \in BOOLEAN
      /\ closeCount \in Nat
  BY DEF HubInv, HubTyped
<1>1. /\ publishing' = publishing \ {m}
      /\ UNCHANGED <<version, tenantUp, deviceSession, hubListen, phase, sock, device, statusListen, statusHeld,
                     statusSnap, closeCount, lastClose, toldHub>>
  BY DEF PublishRealtimeMessage, PublishFails
<1>2. CASE PublishRealtimeMessage(m)
  <2>1. /\ wire' = IF hubListen = "up" THEN Append(wire, m) ELSE wire
        /\ UNCHANGED <<lostInvalidation, hubEvents>>
    BY <1>2 DEF PublishRealtimeMessage
  <2>2. wire' \in Seq(HubMessages) /\ \A i \in DOMAIN wire' : (i \in DOMAIN wire /\ wire'[i] = wire[i]) \/ wire'[i] = m
    BY <1>0, <2>1
  <2>3. HubTyped' /\ NewsIsOld' /\ (HubClosed => hubListen # "up")'
    BY <1>1, <2>1, <2>2 DEF HubInv, HubTyped, NewsIsOld, HubClosed
  <2>4. hubListen = "up" => /\ \A i \in DOMAIN wire : i \in DOMAIN wire' /\ wire'[i] = wire[i]
                            /\ \E i \in DOMAIN wire' : wire'[i] = m
    <3>1. SUFFICES ASSUME hubListen = "up"
                   PROVE  /\ \A i \in DOMAIN wire : i \in DOMAIN Append(wire, m) /\ Append(wire, m)[i] = wire[i]
                          /\ Len(wire) + 1 \in DOMAIN Append(wire, m) /\ Append(wire, m)[Len(wire) + 1] = m
      BY <2>1
    <3> QED
      BY <1>0
  <2>5. NewestIsSent => NewestIsSent' \/ hubListen' # "up"
    BY <1>1, <2>4 DEF NewestIsSent
  <2> QED
    BY <1>0, <1>1, <2>1, <2>3, <2>5, ClientsStay DEF HubInv, ClientFits, HubClosed
<1>3. CASE PublishFails(m)
  <2>1. wire' = wire /\ lostInvalidation' = (lostInvalidation \/ m.type = "invalidation") /\ hubEvents' = hubEvents + 1
    BY <1>3 DEF PublishFails, Event
  <2>2. HubTyped' /\ NewsIsOld' /\ (HubClosed => hubListen # "up")'
    BY <1>0, <1>1, <2>1 DEF HubInv, HubTyped, NewsIsOld, HubClosed
  <2>3. lostInvalidation => lostInvalidation'
    BY <2>1
  <2>4. NewestIsSent => NewestIsSent' \/ lostInvalidation'
    BY <1>1, <2>1 DEF NewestIsSent
  <2> QED
    BY <1>0, <1>1, <2>1, <2>2, <2>3, <2>4, ClientsStay DEF HubInv, ClientFits, HubClosed
<1> QED
  BY <1>2, <1>3

LEMMA SessionsKeepHub ==
  ASSUME HubInv, \/ \E c \in Clients : RevokeSession(c) \/ Login(c)
                 \/ DeactivateTenant \/ ReactivateTenant
  PROVE  HubInv'
<1> USE DEF dataVars, statusVars
<1>0. /\ wire \in Seq(HubMessages) /\ hubEvents \in Nat /\ closeCount \in Nat /\ publishing \subseteq HubMessages
      /\ deviceSession \in [Clients -> [n : Nat, active : BOOLEAN]] /\ device \in [Clients -> Devices]
  BY DEF HubInv, HubTyped
<1>1. /\ UNCHANGED <<version, wire, hubListen, phase, sock, statusListen, statusSnap, closeCount, lastClose, lostInvalidation>>
      /\ hubEvents' = hubEvents + 1
  BY DEF RevokeSession, Login, DeactivateTenant, ReactivateTenant, Event
<1>2. \A S \in SUBSET Clients : Revocations(S) \subseteq HubMessages /\ \A m \in Revocations(S) : m.type # "invalidation"
  BY <1>0 DEF Revocations, HubMessages
<1>3. /\ publishing \subseteq publishing' /\ publishing' \subseteq HubMessages
      /\ \A m \in publishing' : m.type = "invalidation" => m \in publishing
  <2>1. CASE \E c \in Clients : RevokeSession(c)
    BY <1>0, <1>2, <2>1 DEF RevokeSession
  <2>2. CASE DeactivateTenant
    <3> DEFINE live == {c \in Clients : deviceSession[c].active}
    <3>1. publishing' = publishing \cup Revocations(live) /\ live \in SUBSET Clients
      BY <2>2 DEF DeactivateTenant
    <3> HIDE DEF live
    <3> QED
      BY <1>0, <1>2, <3>1
  <2>3. CASE \E c \in Clients : Login(c)
    BY <1>0, <2>3 DEF Login
  <2>4. CASE ReactivateTenant
    BY <1>0, <2>4 DEF ReactivateTenant
  <2> QED
    BY <2>1, <2>2, <2>3, <2>4
<1>4. deviceSession' \in [Clients -> [n : Nat, active : BOOLEAN]]
  <2>1. ASSUME NEW c \in Clients, RevokeSession(c) PROVE deviceSession' \in [Clients -> [n : Nat, active : BOOLEAN]]
    <3>1. [deviceSession[c] EXCEPT !.active = FALSE] \in [n : Nat, active : BOOLEAN]
      BY <1>0
    <3>2. deviceSession' = [deviceSession EXCEPT ![c] = [deviceSession[c] EXCEPT !.active = FALSE]]
      BY <2>1 DEF RevokeSession
    <3> QED
      BY <1>0, <3>1, <3>2
  <2>2. CASE DeactivateTenant
    <3>1. \A c \in Clients : [deviceSession[c] EXCEPT !.active = FALSE] \in [n : Nat, active : BOOLEAN]
      BY <1>0
    <3>2. deviceSession' = [c \in Clients |-> [deviceSession[c] EXCEPT !.active = FALSE]]
      BY <2>2 DEF DeactivateTenant
    <3> QED
      BY <3>1, <3>2
  <2>3. ASSUME NEW c \in Clients, Login(c) PROVE deviceSession' \in [Clients -> [n : Nat, active : BOOLEAN]]
    <3>1. deviceSession[c].n + 1 \in Nat
      BY <1>0
    <3>2. deviceSession' = [deviceSession EXCEPT ![c] = [n |-> deviceSession[c].n + 1, active |-> TRUE]]
      BY <2>3 DEF Login
    <3> QED
      BY <1>0, <3>1, <3>2
  <2>4. CASE ReactivateTenant
    BY <1>0, <2>4 DEF ReactivateTenant
  <2> QED
    BY <2>1, <2>2, <2>3, <2>4
<1>5. /\ device' \in [Clients -> Devices]
      /\ \A c \in Clients : /\ device'[c].copy = device[c].copy /\ device'[c].frame = device[c].frame
                            /\ device'[c].stale = device[c].stale
  <2>1. ASSUME NEW c \in Clients, Login(c)
        PROVE  /\ device' \in [Clients -> Devices]
               /\ \A b \in Clients : /\ device'[b].copy = device[b].copy /\ device'[b].frame = device[b].frame
                                     /\ device'[b].stale = device[b].stale
    <3> DEFINE d == [device[c] EXCEPT !.gaveUp = FALSE]
    <3>1. d \in Devices /\ d.copy = device[c].copy /\ d.frame = device[c].frame /\ d.stale = device[c].stale
      BY <1>0 DEF Devices
    <3>2. device' = [device EXCEPT ![c] = d]
      BY <2>1 DEF Login
    <3> HIDE DEF d
    <3> QED
      BY <1>0, <3>1, <3>2
  <2>2. CASE ~\E c \in Clients : Login(c)
    BY <1>0, <2>2 DEF RevokeSession, DeactivateTenant, ReactivateTenant
  <2> QED
    BY <2>1, <2>2
<1>6. tenantUp' \in BOOLEAN /\ toldHub' \in BOOLEAN /\ statusHeld' \in BOOLEAN
  BY DEF RevokeSession, Login, DeactivateTenant, ReactivateTenant, HubInv, HubTyped
<1>7. (~tenantUp /\ toldHub)' => ~tenantUp /\ toldHub
  BY DEF RevokeSession, Login, DeactivateTenant, ReactivateTenant
<1>8. HubTyped' /\ NewsIsOld' /\ (HubClosed => hubListen # "up")'
  BY <1>0, <1>1, <1>3, <1>4, <1>5, <1>6 DEF HubInv, HubTyped, NewsIsOld, HubClosed
<1>9. NewestIsSent => NewestIsSent'
  BY <1>1, <1>3 DEF NewestIsSent
<1> QED
  BY <1>0, <1>1, <1>5, <1>7, <1>8, <1>9, ClientsStay DEF HubInv, ClientFits, HubClosed


(* Steps that close every socket, or none, and send nothing to a device.   *)
LEMMA ClosingKeepsHub ==
  ASSUME HubInv, NEW code \in Nat,
         UNCHANGED <<version, publishing, tenantUp, deviceSession, device, lostInvalidation>>,
         sock' = sock \/ sock' = Closing(Clients, code) \/ sock' = [c \in Clients |-> NoSocket],
         \/ UNCHANGED <<closeCount, lastClose, toldHub>>
         \/ /\ closeCount' = closeCount + 1 /\ lastClose' = closeCount + 1 /\ toldHub' = TRUE
            /\ sock' = Closing(Clients, code),
         wire' = wire \/ (wire' = <<>> /\ hubListen' # "up"),
         hubListen' \in {"up", "down", "connecting"}, phase' \in PhaseNames,
         statusListen' \in {"up", "down", "listening", "read", "closed"},
         statusHeld' \in BOOLEAN, statusSnap' \in BOOLEAN, hubEvents' \in Nat,
         HubClosed' => hubListen' # "up" /\ (HubClosed \/ sock' # sock \/ \A c \in Clients : sock[c].st # "open"),
         hubListen' = "up" => hubListen = "up" \/ sock' # sock \/ \A c \in Clients : sock[c].st # "open"
  PROVE  HubInv'
<1>0. /\ sock \in [Clients -> Sockets] /\ closeCount \in Nat /\ wire \in Seq(HubMessages) /\ toldHub \in BOOLEAN
      /\ \A c \in Clients : sock[c] \in Sockets /\ ClientFits(sock[c], device[c])
      /\ <<>> \in Seq(HubMessages) /\ closeCount + 1 \in Nat /\ lastClose \in Nat
  BY DEF HubInv, HubTyped
<1>3. wire' \in Seq(HubMessages) /\ NewsIsOld'
  <2>1. CASE wire' = wire
    BY <1>0, <2>1 DEF HubInv, NewsIsOld
  <2>2. CASE wire' = <<>>
    BY <1>0, <2>2 DEF HubInv, NewsIsOld
  <2> QED
    BY <2>1, <2>2
<1>1. CASE sock' = [c \in Clients |-> NoSocket]
  <2>1. \A c \in Clients : sock'[c] = NoSocket
    BY <1>1
  <2>2. closeCount' \in Nat /\ lastClose' \in Nat /\ toldHub' \in BOOLEAN /\ sock' \in [Clients -> Sockets]
    BY <1>0, <1>1, SocketsAre
  <2>3. HubTyped' /\ NewsIsOld' /\ (HubClosed => hubListen # "up")'
    BY <1>0, <1>3, <2>2 DEF HubInv, HubTyped
  <2>4. \A c \in Clients : ClientFits(sock[c], device[c])'
    BY <1>0, <2>1, <2>2, SocketsAre DEF ClientFits, HubInv, HubTyped
  <2> QED
    BY <2>3, <2>4 DEF HubInv
<1>2. CASE sock' = sock \/ sock' = Closing(Clients, code)
  <2>1. /\ sock' \in [Clients -> Sockets]
        /\ sock' # sock => \A c \in Clients : sock'[c].st # "open"
        /\ sock' = Closing(Clients, code) => \A c \in Clients : sock'[c].st # "open"
        /\ \A c \in Clients : /\ sock'[c].before = sock[c].before /\ sock'[c].pending = sock[c].pending
                              /\ sock'[c].st = sock[c].st \/ sock'[c].st = "closing"
    <3>1. CASE sock' = Closing(Clients, code)
      BY <1>0, <3>1, ClosingIs
    <3>2. CASE sock' = sock /\ sock' # Closing(Clients, code)
      BY <1>0, <3>2
    <3> QED
      BY <1>2, <3>1, <3>2
  <2>2. closeCount' \in Nat /\ lastClose' \in Nat /\ toldHub' \in BOOLEAN /\ closeCount <= closeCount'
    <3>1. CASE UNCHANGED <<closeCount, lastClose, toldHub>>
      BY <1>0, <3>1
    <3>2. CASE closeCount' = closeCount + 1 /\ lastClose' = closeCount + 1 /\ toldHub' = TRUE
      BY <1>0, <3>2
    <3> QED
      BY <3>1, <3>2
  <2>3. HubTyped' /\ NewsIsOld' /\ (HubClosed => hubListen # "up")'
    BY <1>0, <1>3, <2>1, <2>2 DEF HubInv, HubTyped
  <2>4. (~tenantUp /\ toldHub)' => \A c \in Clients :
            sock'[c].st # "open" /\ (sock'[c].st = "authenticated" => sock'[c].before < lastClose')
    <3>1. CASE UNCHANGED <<closeCount, lastClose, toldHub>>
      BY <1>0, <2>1, <3>1 DEF ClientFits
    <3>2. CASE lastClose' = closeCount + 1 /\ sock' = Closing(Clients, code)
      BY <1>0, <2>1, <3>2 DEF ClientFits, Sockets
    <3> QED
      BY <3>1, <3>2
  <2>5. NewestIsSent => NewestIsSent' \/ hubListen' # "up"
    BY DEF NewestIsSent
  <2>6. hubListen' = "up" => hubListen = "up" \/ \A c \in Clients : sock'[c].st # "open"
    BY <2>1
  <2>7. HubClosed' => HubClosed \/ \A c \in Clients : sock'[c].st # "open"
    BY <2>1
  <2> QED
    BY <2>1, <2>2, <2>3, <2>4, <2>5, <2>6, <2>7, ClientsStay
<1> QED
  BY <1>1, <1>2

LEMMA ListeningKeepsHub ==
  ASSUME HubInv, \/ ListenError \/ ConnectListen \/ ReconnectListen \/ StatusStep \/ StatusListenError \/ Shutdown
  PROVE  HubInv'
<1> USE DEF dataVars, statusVars
<1>0. /\ hubEvents \in Nat /\ (HubClosed => hubListen # "up") /\ phase \in PhaseNames
      /\ hubListen \in {"up", "down", "connecting"} /\ statusListen \in {"up", "down", "listening", "read", "closed"}
      /\ statusHeld \in BOOLEAN /\ statusSnap \in BOOLEAN /\ tenantUp \in BOOLEAN
  BY DEF HubInv, HubTyped
<1> DEFINE shut == 1012
           told == 4401
<1>c. shut \in Nat /\ told \in Nat
  OBVIOUS
<1>o. HubClosed => \A c \in Clients : sock[c].st # "open"
  BY DEF HubInv, ClientFits
<1>1. CASE ListenError
  <2>1. sock' = Closing(Clients, shut)
    BY <1>1 DEF ListenError
  <2> HIDE DEF shut
  <2>2. UNCHANGED <<version, publishing, tenantUp, deviceSession, device, lostInvalidation, closeCount, lastClose, toldHub,
                    phase, statusListen, statusHeld, statusSnap>>
        /\ wire' = <<>> /\ hubListen' = "down" /\ hubEvents' \in Nat /\ (HubClosed' => HubClosed)
    BY <1>0, <1>1 DEF ListenError, Event, HubClosed
  <2> QED
    BY <1>0, <1>c, <2>1, <2>2, ClosingKeepsHub
<1>2. CASE ConnectListen
  <2>1. UNCHANGED <<version, publishing, tenantUp, deviceSession, device, lostInvalidation, closeCount, lastClose, toldHub,
                    phase, statusListen, statusHeld, statusSnap, sock, wire, hubEvents>>
        /\ hubListen' = "connecting" /\ (HubClosed' => HubClosed)
    BY <1>0, <1>2 DEF ConnectListen, HubClosed
  <2> QED
    BY <1>0, <1>c, <2>1, ClosingKeepsHub
<1>3. CASE ReconnectListen
  <2>1. UNCHANGED <<version, publishing, tenantUp, deviceSession, device, lostInvalidation, closeCount, lastClose, toldHub,
                    phase, statusListen, statusHeld, statusSnap, wire, hubEvents>>
    BY <1>0, <1>3 DEF ReconnectListen
  <2>2. \/ HubClosed /\ hubListen' = "down" /\ sock' = sock
        \/ ~HubClosed /\ hubListen' = "up" /\ sock' = Closing(Clients, shut)
    BY <1>3 DEF ReconnectListen
  <2> HIDE DEF shut
  <2>3. HubClosed' <=> HubClosed
    BY <2>1 DEF HubClosed
  <2>4. sock' = sock /\ sock' = Closing(Clients, shut) => \A c \in Clients : sock[c].st # "open"
    BY <1>c, ClosingIs DEF HubInv, HubTyped
  <2> QED
    BY <1>0, <1>c, <2>1, <2>2, <2>3, <2>4, ClosingKeepsHub
<1>4. CASE StatusListens \/ ResyncReads \/ StatusListenError
  <2>1. UNCHANGED <<version, publishing, tenantUp, deviceSession, device, lostInvalidation, closeCount, lastClose, toldHub,
                    phase, sock, wire, hubListen>> /\ hubEvents' \in Nat
        /\ statusListen' \in {"up", "down", "listening", "read", "closed"}
        /\ statusHeld' \in BOOLEAN /\ statusSnap' \in BOOLEAN
    <3>1. CASE StatusListens
      BY <1>0, <3>1 DEF StatusListens
    <3>2. CASE ResyncReads
      BY <1>0, <3>2 DEF ResyncReads
    <3>3. CASE StatusListenError
      <4>1. hubEvents' = hubEvents + 1
        BY <3>3 DEF StatusListenError, Event
      <4>2. UNCHANGED <<version, publishing, tenantUp, deviceSession, device, lostInvalidation, closeCount, lastClose,
                        toldHub, phase, sock, wire, hubListen>>
            /\ statusListen' = "down" /\ statusHeld' = FALSE /\ statusSnap' = FALSE
        BY <3>3 DEF StatusListenError
      <4>3. hubEvents' \in Nat
        BY <1>0, <4>1
      <4>4. statusHeld' \in BOOLEAN /\ statusSnap' \in BOOLEAN
        BY <4>2, Zenon
      <4> QED
        BY <4>2, <4>3, <4>4
    <3> QED
      BY <1>4, <3>1, <3>2, <3>3
  <2>2. HubClosed' <=> HubClosed
    BY <2>1 DEF HubClosed
  <2> QED
    BY <1>0, <1>c, <2>1, <2>2, ClosingKeepsHub
<1>5. CASE TenantDeactivated \/ AttachListener
  <2>1. UNCHANGED <<version, publishing, tenantUp, deviceSession, device, lostInvalidation, phase, wire, hubListen, hubEvents>>
        /\ statusListen' \in {"up", "down", "listening", "read", "closed"}
        /\ statusHeld' \in BOOLEAN /\ statusSnap' \in BOOLEAN
    BY <1>0, <1>5 DEF TenantDeactivated, AttachListener
  <2>2. \/ UNCHANGED <<closeCount, lastClose, toldHub, sock>>
        \/ /\ closeCount' = closeCount + 1 /\ lastClose' = closeCount + 1 /\ toldHub' = TRUE
           /\ sock' = Closing(Clients, told)
    BY <1>5 DEF TenantDeactivated, AttachListener, CloseTenant
  <2> HIDE DEF told
  <2>3. (HubClosed' => HubClosed /\ hubListen' # "up") /\ phase' \in PhaseNames
    BY <1>0, <2>1 DEF HubClosed
  <2>4. hubListen' = hubListen /\ wire' = wire /\ hubListen' \in {"up", "down", "connecting"} /\ hubEvents' \in Nat
    BY <1>0, <2>1
  <2>5. CASE UNCHANGED <<closeCount, lastClose, toldHub, sock>>
    BY <1>c, <2>1, <2>3, <2>4, <2>5, ClosingKeepsHub
  <2>6. CASE /\ closeCount' = closeCount + 1 /\ lastClose' = closeCount + 1 /\ toldHub' = TRUE
             /\ sock' = Closing(Clients, told)
    BY <1>c, <2>1, <2>3, <2>4, <2>6, ClosingKeepsHub
  <2> QED
    BY <2>2, <2>5, <2>6
<1>6. CASE CloseListener
  <2>1. UNCHANGED <<version, publishing, tenantUp, deviceSession, device, lostInvalidation, closeCount, lastClose, toldHub,
                    sock, wire, hubListen, hubEvents>>
        /\ statusListen' = "closed" /\ statusHeld' = FALSE /\ statusSnap' = FALSE /\ phase' = "listener"
    BY <1>6 DEF CloseListener, Advance
  <2>2. ~HubClosed' /\ phase' \in PhaseNames
    BY <2>1 DEF HubClosed, PhaseNames
  <2>3. /\ statusListen' \in {"up", "down", "listening", "read", "closed"} /\ statusHeld' \in BOOLEAN
        /\ statusSnap' \in BOOLEAN /\ hubListen' \in {"up", "down", "connecting"} /\ hubEvents' \in Nat
    BY <1>0, <2>1
  <2> QED
    BY <1>c, <2>1, <2>2, <2>3, ClosingKeepsHub
<1>7. CASE CloseSyncServer
  <2>1. sock' = Closing(Clients, shut)
    BY <1>7 DEF CloseSyncServer
  <2> HIDE DEF shut
  <2>2. UNCHANGED <<version, publishing, tenantUp, deviceSession, device, lostInvalidation, closeCount, lastClose, toldHub,
                    statusListen, statusHeld, statusSnap, hubEvents>>
        /\ wire' = <<>> /\ hubListen' # "up" /\ hubListen' \in {"up", "down", "connecting"} /\ phase' \in PhaseNames
    BY <1>0, <1>7 DEF CloseSyncServer, Advance, PhaseNames
  <2>3. sock' = sock => \A c \in Clients : sock[c].st # "open"
    <3>1. \A c \in Clients : sock'[c].st # "open"
      BY <1>c, <2>1, ClosingIs DEF HubInv, HubTyped
    <3> QED
      BY <3>1
  <2>4. /\ statusListen' \in {"up", "down", "listening", "read", "closed"} /\ statusHeld' \in BOOLEAN
        /\ statusSnap' \in BOOLEAN /\ hubEvents' \in Nat
    BY <1>0, <2>2
  <2> QED
    BY <1>c, <2>1, <2>2, <2>3, <2>4, ClosingKeepsHub
<1>8. CASE ServerDrained \/ DrainTimesOut \/ StopMailLiveSync \/ StopQueueRuntime
  <2>1. UNCHANGED <<version, publishing, tenantUp, deviceSession, device, lostInvalidation, closeCount, lastClose, toldHub,
                    statusListen, statusHeld, statusSnap, hubEvents, sock, wire, hubListen>>
        /\ phase' \in PhaseNames /\ HubClosed
    BY <1>8 DEF ServerDrained, DrainTimesOut, StopMailLiveSync, StopQueueRuntime, Advance, PhaseNames, HubClosed
  <2> QED
    BY <1>0, <1>c, <2>1, ClosingKeepsHub
<1>9. CASE EndPool
  <2>1. UNCHANGED <<version, publishing, tenantUp, deviceSession, device, lostInvalidation, closeCount, lastClose, toldHub,
                    statusListen, statusHeld, statusSnap, hubEvents>>
        /\ wire' = <<>> /\ hubListen' = "down" /\ phase' \in PhaseNames /\ HubClosed
        /\ sock' = [c \in Clients |-> NoSocket]
    BY <1>9 DEF EndPool, Advance, PhaseNames, HubClosed
  <2> QED
    BY <1>0, <1>c, <2>1, ClosingKeepsHub
<1> QED
  BY <1>1, <1>2, <1>3, <1>4, <1>5, <1>6, <1>7, <1>8, <1>9 DEF StatusStep, Shutdown


LEMMA NotifiedKeepsHub ==
  ASSUME HubInv, OnNotification
  PROVE  HubInv'
<1> USE DEF dataVars, statusVars
<1> DEFINE m == Head(wire)
<1>0. /\ sock \in [Clients -> Sockets] /\ device \in [Clients -> Devices] /\ closeCount \in Nat
      /\ \A c \in Clients : sock[c] \in Sockets /\ device[c] \in Devices /\ ClientFits(sock[c], device[c])
      /\ version \in Nat /\ lastClose \in Nat
  BY HubAssumption DEF HubInv, HubTyped
<1>1. /\ wire' = Tail(wire) /\ wire \in Seq(HubMessages) /\ wire # <<>>
      /\ UNCHANGED <<version, tenantUp, deviceSession, publishing, hubListen, phase, statusListen, statusHeld, statusSnap,
                     closeCount, lastClose, toldHub, lostInvalidation, hubEvents>>
  BY DEF OnNotification, HubInv, HubTyped
<1>2. /\ m \in HubMessages /\ m = wire[1] /\ wire' \in Seq(HubMessages) /\ 1 \in DOMAIN wire
      /\ \A i \in DOMAIN wire' : i + 1 \in DOMAIN wire /\ wire'[i] = wire[i + 1]
      /\ \A i \in DOMAIN wire : i = 1 \/ (i - 1 \in DOMAIN wire' /\ wire'[i - 1] = wire[i])
  BY <1>1, WiresAre
<1>3. NewsIsOld' /\ (m.type = "invalidation" => m.v <= version /\ m.v \in Nat)
  BY <1>1, <1>2 DEF HubInv, NewsIsOld, HubMessages
<1>4. NewestIsSent => NewestIsSent' \/ (m.type = "invalidation" /\ m.v = version)
  BY <1>1, <1>2 DEF NewestIsSent
<1>5. (HubClosed => hubListen # "up")' /\ (HubClosed' => HubClosed)
  BY <1>1 DEF HubInv, HubClosed
<1>6. CASE m.type # "invalidation"
  <2> DEFINE S == {c \in Clients : m.c = c /\ m.n = sock[c].session}
             code == 4401
  <2>1. sock' = Closing(S, code) /\ device' = device /\ code \in Nat
    BY <1>6 DEF OnNotification
  <2> HIDE DEF S, code
  <2>2. /\ sock' \in [Clients -> Sockets]
        /\ \A c \in Clients : /\ sock'[c].before = sock[c].before /\ sock'[c].pending = sock[c].pending
                              /\ sock'[c].st = sock[c].st \/ sock'[c].st = "closing"
    BY <1>0, <2>1, ClosingIs
  <2>3. HubTyped'
    BY <1>0, <1>1, <1>2, <2>1, <2>2 DEF HubInv, HubTyped
  <2>4. (~tenantUp /\ toldHub)' => \A c \in Clients :
            sock'[c].st # "open" /\ (sock'[c].st = "authenticated" => sock'[c].before < lastClose')
    BY <1>0, <1>1, <2>2 DEF ClientFits
  <2> HIDE DEF m
  <2> QED
    BY <1>0, <1>1, <1>3, <1>4, <1>5, <1>6, <2>1, <2>2, <2>3, <2>4, ClientsStay
<1>7. CASE m.type = "invalidation"
  <2> DEFINE v == m.v
             E(c) == Enqueue(sock[c], device[c].frame, v)
  <2>0. v \in Nat /\ v <= version
    BY <1>3, <1>7
  <2>1. /\ sock' = [c \in Clients |-> IF SocketOpen(c) THEN [sock[c] EXCEPT !.pending = E(c).pending] ELSE sock[c]]
        /\ device' = [c \in Clients |-> IF SocketOpen(c) THEN [device[c] EXCEPT !.frame = E(c).send] ELSE device[c]]
    BY <1>7 DEF OnNotification, SendInvalidation
  <2>2. NewestIsSent => NewestIsSent' \/ v = version
    BY <1>4
  <2> HIDE DEF v, m
  <2>3. ASSUME NEW c \in Clients
        PROVE  /\ E(c).pending \in Nat /\ E(c).send \in Nat
               /\ \/ device[c].frame = 0 /\ E(c).send = v /\ E(c).pending = 0 /\ sock[c].pending = 0
                  \/ E(c).send = device[c].frame /\ E(c).pending = v /\ v >= sock[c].pending
                  \/ E(c).send = device[c].frame /\ E(c).pending = sock[c].pending /\ v < sock[c].pending
    <3>1. sock[c].pending \in Nat /\ device[c].frame \in Nat
      BY <1>0 DEF Sockets, Devices
    <3> QED
      BY <2>0, <3>1 DEF Enqueue
  <2>4. ASSUME NEW c \in Clients
        PROVE  /\ sock'[c] \in Sockets /\ device'[c] \in Devices
               /\ sock'[c].st = sock[c].st /\ sock'[c].before = sock[c].before
               /\ device'[c].copy = device[c].copy /\ device'[c].stale = device[c].stale
               /\ SocketOpen(c) => sock'[c].pending = E(c).pending /\ device'[c].frame = E(c).send
               /\ ~SocketOpen(c) => sock'[c] = sock[c] /\ device'[c] = device[c]
    <3> DEFINE p == E(c).pending
               f == E(c).send
    <3>1. p \in Nat /\ f \in Nat
      BY <2>3
    <3>2. /\ SocketOpen(c) => sock'[c] = [sock[c] EXCEPT !.pending = p] /\ device'[c] = [device[c] EXCEPT !.frame = f]
          /\ ~SocketOpen(c) => sock'[c] = sock[c] /\ device'[c] = device[c]
      BY <2>1
    <3> HIDE DEF p, f
    <3>3. LET s == [sock[c] EXCEPT !.pending = p] IN
          s \in Sockets /\ s.st = sock[c].st /\ s.before = sock[c].before /\ s.pending = p
      BY <1>0, <3>1 DEF Sockets
    <3>4. LET d == [device[c] EXCEPT !.frame = f] IN
          d \in Devices /\ d.copy = device[c].copy /\ d.stale = device[c].stale /\ d.frame = f
      BY <1>0, <3>1 DEF Devices
    <3>5. SocketOpen(c) => sock'[c].pending = p /\ device'[c].frame = f
      BY <3>2, <3>3, <3>4
    <3>6. /\ sock'[c] \in Sockets /\ device'[c] \in Devices
          /\ sock'[c].st = sock[c].st /\ sock'[c].before = sock[c].before
          /\ device'[c].copy = device[c].copy /\ device'[c].stale = device[c].stale
      BY <1>0, <3>2, <3>3, <3>4
    <3> QED
      BY <3>2, <3>5, <3>6 DEF p, f
  <2>5. sock' \in [Clients -> Sockets] /\ device' \in [Clients -> Devices]
    BY <2>1, <2>4
  <2> HIDE DEF E
  <2>6. HubTyped'
    BY <1>0, <1>1, <1>2, <2>5 DEF HubInv, HubTyped
  <2>7. ASSUME NEW c \in Clients PROVE ClientFits(sock[c], device[c])'
    <3>1. CASE ~SocketOpen(c)
      BY <1>0, <1>1, <1>5, <2>4, <3>1 DEF ClientFits, SocketOpen
    <3>2. CASE SocketOpen(c)
      <4>1. sock'[c].pending <= version /\ device'[c].frame <= version
        BY <1>0, <2>0, <2>3, <2>4, <3>2 DEF ClientFits, Sockets, Devices
      <4>2. ASSUME device[c].frame = version \/ sock[c].pending = version \/ v = version \/ NewestIsSent', device[c].copy # version
            PROVE  device'[c].frame = version \/ sock'[c].pending = version \/ NewestIsSent'
        <5>1. device[c].copy \in Nat /\ sock[c].pending \in Nat /\ device[c].copy <= version /\ sock[c].pending <= version
              /\ version > 0
          BY <1>0, <4>2 DEF ClientFits, Sockets, Devices
        <5> QED
          BY <2>0, <2>3, <2>4, <3>2, <4>2, <5>1
      <4>3. (SocketOpen(c) /\ hubListen = "up" /\ ~device[c].stale /\ ~lostInvalidation /\ device[c].copy # version) =>
              device'[c].frame = version \/ sock'[c].pending = version \/ NewestIsSent'
        BY <1>0, <2>2, <4>2 DEF ClientFits, SocketOpen
      <4> QED
        BY <1>0, <1>1, <1>5, <2>4, <3>2, <4>1, <4>3 DEF ClientFits, SocketOpen
    <3> QED
      BY <3>1, <3>2
  <2> QED
    BY <1>3, <1>5, <2>6, <2>7 DEF HubInv
<1> QED
  BY <1>6, <1>7

LEMMA HubKept == ASSUME HubInv, [HubNext]_hubVars PROVE HubInv'
<1>1. CASE UNCHANGED hubVars
  BY <1>1 DEF hubVars, HubInv, HubTyped, NewsIsOld, NewestIsSent, ClientFits, HubClosed
<1> QED
  BY <1>1, WritesKeepHub, PublishingKeepsHub, SessionsKeepHub, DeviceKeepsHub, ServerKeepsHub, NotifiedKeepsHub,
     ListeningKeepsHub DEF HubNext, DeviceStep

LEMMA HubInvMeans ==
  ASSUME HubInv
  PROVE  HubTypeOK /\ InvalidationsArrive /\ DeactivatedHasNoSocket /\ ClosedServerIsQuiet
<1>0. /\ version \in 0 .. MaxWrites /\ MaxWrites \in Nat
      /\ \A c \in Clients : sock[c] \in Sockets /\ device[c] \in Devices /\ ClientFits(sock[c], device[c])
  BY HubAssumption DEF HubInv, HubTyped
<1>1. phase \in {Phases[i] : i \in 1 .. Len(Phases)}
  <2>1. PhaseNames = {Phases[i] : i \in 1 .. Len(Phases)}
    <3>1. /\ Len(Phases) = 7 /\ Phases[1] = "run" /\ Phases[2] = "listener" /\ Phases[3] = "drain" /\ Phases[4] = "mail"
          /\ Phases[5] = "queue" /\ Phases[6] = "pool" /\ Phases[7] = "exit"
      BY DEF Phases
    <3>2. 1 .. 7 = {1, 2, 3, 4, 5, 6, 7}
      OBVIOUS
    <3> QED
      BY <3>1, <3>2 DEF PhaseNames
  <2> QED
    BY <2>1 DEF HubInv, HubTyped
<1>2. \A c \in Clients : /\ sock[c].pending \in 0 .. MaxWrites /\ device[c].copy <= version /\ device[c].frame <= version
                         /\ sock[c].st \in {"none", "authenticating", "authenticated", "open", "closing"}
                         /\ sock[c].missed \in 0 .. 2
  BY <1>0 DEF ClientFits, Sockets, Devices
<1>3. HubTypeOK
  BY <1>1, <1>2 DEF HubTypeOK, HubInv, HubTyped
<1>4. InvalidationsArrive
  <2> SUFFICES ASSUME NEW c \in Clients, SocketOpen(c), hubListen = "up", wire = <<>>, sock[c].pending = 0,
                      \A m \in publishing : m.type # "invalidation", ~device[c].stale, device[c].frame = 0,
                      ~lostInvalidation, device[c].copy # version
               PROVE  FALSE
    BY DEF InvalidationsArrive
  <2>1. version # 0
    BY <1>0 DEF ClientFits, Devices
  <2>2. ~NewestIsSent
    BY DEF NewestIsSent
  <2> QED
    BY <1>0, <2>1, <2>2 DEF ClientFits, SocketOpen
<1>5. DeactivatedHasNoSocket /\ ClosedServerIsQuiet
  BY <1>0 DEF HubInv, ClientFits, DeactivatedHasNoSocket, ClosedServerIsQuiet, SocketOpen
<1> QED
  BY <1>3, <1>4, <1>5

(* The sync server (packages/realtime): a client that has read all there   *)
(* is to read has the newest version unless a NOTIFY itself failed, a      *)
(* deactivated tenant has no open socket once the process has heard of it, *)
(* and a closed server opens nothing more, for any number of clients,      *)
(* writes, logins and faults.                                              *)
THEOREM SocketsAreTold == HubSpec => [](InvalidationsArrive /\ DeactivatedHasNoSocket /\ ClosedServerIsQuiet)
<1>1. HubInv => InvalidationsArrive /\ DeactivatedHasNoSocket /\ ClosedServerIsQuiet
  BY HubInvMeans
<1> QED
  BY <1>1, HubInitially, HubKept, PTL DEF HubSpec

-----------------------------------------------------------------------------
(* The review follow-ups.                                                  *)

HarvestIssues == [prs : SUBSET PullRequests, block : SUBSET AllFindings, marks : SUBSET AllFindings,
                  ready : BOOLEAN, open : BOOLEAN, results : SUBSET AllFindings]
FollowUpIssues == [marks : SUBSET AllFindings, epicOf : Nat, proposed : BOOLEAN, open : BOOLEAN, parent : Nat]
HarvestRuns == [step : {"idle", "create", "close", "label"}, prs : SUBSET PullRequests, block : SUBSET AllFindings,
                skipped : SUBSET AllFindings, toLabel : SUBSET PullRequests]
TriageSteps == {"idle", "failed", "check", "epic", "draft", "link", "unready", "closeH"}
TriageRuns == [step : TriageSteps, h : Nat, drafts : Seq(SUBSET AllFindings), rejected : SUBSET AllFindings,
               next : Nat, epic : Nat]

FollowTyped ==
    /\ merged \subseteq PullRequests /\ harvestedL \subseteq merged /\ failures \in Nat
    /\ harvests \in Seq(HarvestIssues) /\ followups \in Seq(FollowUpIssues)
    /\ hrun \in HarvestRuns /\ trun \in TriageRuns

MarksOf(issues) == UNION {issues[i].marks : i \in DOMAIN issues}
Drafted == MarksOf(followups)
AllMarks == MarksOf(harvests)
RecordedPr(pr) == Found[pr] \subseteq AllMarks

\* A finding is marked by one harvest issue, and published by a draft or there.
IssuesFit ==
    /\ \A h \in DOMAIN harvests :
          /\ harvests[h].results \subseteq harvests[h].block /\ harvests[h].block \subseteq harvests[h].marks
          /\ harvests[h].prs \subseteq merged /\ \A pr \in harvests[h].prs : RecordedPr(pr)
          /\ ~harvests[h].ready \/ ~harvests[h].open => harvests[h].block \subseteq TerminalFor(h)
          /\ harvests[h].results \cap Drafted = {}
    /\ \A g, h \in DOMAIN harvests : g # h => harvests[g].marks \cap harvests[h].marks = {}

DraftsFit ==
    /\ Drafted \subseteq AllMarks
    /\ \A i, j \in DOMAIN followups : i # j => followups[i].marks \cap followups[j].marks = {}
    /\ \A i, j \in DOMAIN followups : followups[i].epicOf = followups[j].epicOf /\ followups[i].epicOf # 0 => i = j

HarvestFits ==
    /\ \A pr \in harvestedL : RecordedPr(pr)
    /\ hrun.toLabel \subseteq merged /\ hrun.prs \subseteq merged
    /\ hrun.step = "create" =>
          /\ (hrun.block \cup hrun.skipped) \cap AllMarks = {}
          /\ \A pr \in hrun.prs : Found[pr] \subseteq AllMarks \cup hrun.block \cup hrun.skipped
          /\ \A pr \in hrun.toLabel : pr \in hrun.prs \/ RecordedPr(pr)
    /\ hrun.step \in {"close", "label"} => \A pr \in hrun.toLabel : RecordedPr(pr)
    /\ hrun.step = "close" => harvests # <<>> /\ harvests[Len(harvests)].block = {}

Publishing == trun.step \in {"epic", "draft", "link"}
\* Draft i of the proposal has been created.
IsCreated(i) == i < trun.next \/ (i = trun.next /\ trun.step = "link")

\* The proposal is about findings of its harvest issue, each once, and leaves out only published ones.
ProposalFits ==
    /\ trun.h \in DOMAIN harvests /\ trun.epic \in 0 .. Len(followups)
    /\ Claimed \subseteq harvests[trun.h].block
    /\ harvests[trun.h].block \subseteq TerminalFor(trun.h) \cup Claimed
    /\ \A i \in DOMAIN trun.drafts : /\ trun.drafts[i] \cap trun.rejected = {}
                                     /\ \A j \in DOMAIN trun.drafts : i # j => trun.drafts[i] \cap trun.drafts[j] = {}

PublishFits ==
    /\ trun.rejected \cap TerminalFor(trun.h) = {} /\ trun.next >= 1
    /\ \A i \in DOMAIN trun.drafts : IF IsCreated(i) THEN trun.drafts[i] \subseteq Drafted
                                     ELSE trun.drafts[i] \cap TerminalFor(trun.h) = {}

TriageFits ==
    /\ trun.step = "idle" => trun = TriageIdle
    /\ trun.step # "idle" => ProposalFits
    /\ trun.step \in {"check", "epic"} => trun.next = 1
    /\ Publishing => PublishFits
    /\ trun.step = "link" => followups # <<>>
    /\ trun.step = "epic" /\ trun.epic = 0 => EpicsOf(trun.h) = {}
    /\ trun.step \in {"unready", "closeH"} => Claimed \subseteq TerminalFor(trun.h)

FollowInv == FollowTyped /\ IssuesFit /\ DraftsFit /\ HarvestFits /\ TriageFits


LEMMA MarksAre ==
  ASSUME NEW S, NEW s \in Seq(S)
  PROVE  /\ \A f : f \in MarksOf(s) <=> \E i \in DOMAIN s : f \in s[i].marks
         /\ \A i \in DOMAIN s : s[i].marks \subseteq MarksOf(s)
         /\ DOMAIN s = 1 .. Len(s) /\ Len(s) \in Nat
  BY DEF MarksOf

\* One issue more.
LEMMA MarksAppended ==
  ASSUME NEW S, NEW s \in Seq(S), NEW t \in Seq(S), Len(t) = Len(s) + 1, \A i \in DOMAIN s : t[i] = s[i]
  PROVE  MarksOf(t) = MarksOf(s) \cup t[Len(s) + 1].marks
<1>1. DOMAIN t = DOMAIN s \cup {Len(s) + 1}
  OBVIOUS
<1>2. \A f : f \in MarksOf(t) <=> f \in MarksOf(s) \cup t[Len(s) + 1].marks
  BY <1>1, MarksAre
<1> QED
  BY <1>2

\* One issue changed.
LEMMA IssueChanged ==
  ASSUME NEW S, NEW s \in Seq(S), NEW k \in DOMAIN s, NEW e \in S, NEW t, t = [s EXCEPT ![k] = e]
  PROVE  /\ t \in Seq(S) /\ Len(t) = Len(s) /\ DOMAIN t = DOMAIN s
         /\ t[k] = e /\ \A i \in DOMAIN s \ {k} : t[i] = s[i]
  OBVIOUS

LEMMA FollowRecords ==
  /\ HarvestIdle \in HarvestRuns /\ HarvestIdle.step = "idle" /\ HarvestIdle.toLabel = {} /\ HarvestIdle.prs = {}
  /\ TriageIdle \in TriageRuns /\ TriageIdle.step = "idle" /\ TriageIdle.h = 0 /\ TriageIdle.epic = 0
  BY DEF HarvestIdle, TriageIdle, HarvestRuns, TriageRuns, TriageSteps

LEMMA TerminalIs == \A h : TerminalFor(h) = Drafted \cup harvests[h].results
  BY DEF TerminalFor, Drafted, MarksOf, ResultsOf

\* What is published was harvested.
LEMMA HarvestedIs ==
  ASSUME FollowTyped, IssuesFit, DraftsFit
  PROVE  Harvested = AllMarks /\ \A pr \in HarvestedPrs : RecordedPr(pr)
<1>1. \A f \in Terminal : f \in Drafted \/ \E h \in DOMAIN harvests : f \in harvests[h].results
  BY DEF Terminal, ResultsOf, Drafted, MarksOf
<1>2. Terminal \subseteq AllMarks
  BY <1>1, MarksAre DEF IssuesFit, DraftsFit, AllMarks, FollowTyped
<1>3. Harvested = Terminal \cup AllMarks
  BY DEF Harvested, AllMarks, MarksOf
<1>4. \A pr \in HarvestedPrs : \E h \in DOMAIN harvests : pr \in harvests[h].prs
  BY DEF HarvestedPrs
<1> QED
  BY <1>2, <1>3, <1>4 DEF IssuesFit

LEMMA FollowInitially == FollowInit => FollowInv
<1> SUFFICES ASSUME FollowInit PROVE FollowInv
  OBVIOUS
<1>1. DOMAIN harvests = {} /\ DOMAIN followups = {} /\ Drafted = {}
  BY DEF FollowInit, Drafted, MarksOf
<1>2. FollowTyped
  BY FollowRecords DEF FollowInit, FollowTyped
<1>3. IssuesFit /\ DraftsFit
  BY <1>1 DEF IssuesFit, DraftsFit, FollowInit
<1>4. HarvestFits
  BY FollowRecords DEF FollowInit, HarvestFits
<1>5. TriageFits
  BY FollowRecords DEF FollowInit, TriageFits, Publishing
<1> QED
  BY <1>2, <1>3, <1>4, <1>5 DEF FollowInv

-----------------------------------------------------------------------------
\* What a step that leaves the issues alone keeps.
LEMMA IssuesKept ==
  ASSUME FollowInv, UNCHANGED <<harvests, followups>>, merged \subseteq merged'
  PROVE  /\ IssuesFit' /\ DraftsFit' /\ (trun' = trun => TriageFits')
         /\ (harvestedL' = harvestedL /\ hrun' = hrun => HarvestFits')
         /\ AllMarks' = AllMarks /\ Drafted' = Drafted /\ \A pr : RecordedPr(pr)' <=> RecordedPr(pr)
<1>1. AllMarks' = AllMarks /\ Drafted' = Drafted /\ \A h : TerminalFor(h)' = TerminalFor(h) /\ EpicsOf(h)' = EpicsOf(h)
  BY DEF AllMarks, Drafted, TerminalFor, ResultsOf, EpicsOf
<1>2. \A pr : RecordedPr(pr)' <=> RecordedPr(pr)
  BY <1>1 DEF RecordedPr
<1>3. IssuesFit' /\ DraftsFit'
  BY <1>1, <1>2 DEF FollowInv, IssuesFit, DraftsFit
<1>4. ASSUME trun' = trun PROVE TriageFits'
  BY <1>1, <1>4 DEF FollowInv, TriageFits, ProposalFits, PublishFits, Publishing, IsCreated, Claimed
<1>5. ASSUME harvestedL' = harvestedL, hrun' = hrun PROVE HarvestFits'
  BY <1>1, <1>2, <1>5 DEF FollowInv, HarvestFits
<1> QED
  BY <1>1, <1>2, <1>3, <1>4, <1>5

LEMMA MergeKeeps == FollowInv /\ (\E pr \in PullRequests : Merge(pr)) => FollowInv'
<1> SUFFICES ASSUME FollowInv, NEW pr \in PullRequests, Merge(pr) PROVE FollowInv'
  OBVIOUS
<1>1. FollowTyped'
  BY DEF FollowInv, FollowTyped, Merge
<1> QED
  BY <1>1, IssuesKept DEF FollowInv, Merge

LEMMA PlanIs ==
  ASSUME FollowInv
  PROVE  /\ HarvestPlan.prs = Taken \ HarvestedPrs /\ HarvestPlan.block = Offered(Taken)
         /\ HarvestPlan.skipped = SkippedOf(Taken) /\ HarvestPlan.toLabel \subseteq Taken
         /\ Taken \subseteq merged /\ Offered(Taken) \subseteq AllFindings /\ SkippedOf(Taken) \subseteq AllFindings
         /\ (Offered(Taken) \cup SkippedOf(Taken)) \cap AllMarks = {}
         /\ \A pr \in Taken \ HarvestedPrs : Found[pr] \subseteq AllMarks \cup Offered(Taken) \cup SkippedOf(Taken)
<1>1. Taken \subseteq merged /\ merged \subseteq PullRequests
  BY DEF Taken, Candidates, FollowInv, FollowTyped
<1>2. \A pr \in Taken : OpenFindings(pr) = Found[pr] \ AllMarks
  BY HarvestedIs DEF OpenFindings, MemoryFindings, FollowInv
<1>3. \A f : f \in Offered(Taken) <=> \E pr \in Taken \ HarvestedPrs : f \in OpenFindings(pr) \ ConfirmedFix
  BY DEF Offered
<1>4. \A f : f \in SkippedOf(Taken) <=> \E pr \in Taken \ HarvestedPrs : f \in OpenFindings(pr) \cap ConfirmedFix
  BY DEF SkippedOf
<1>5. \A pr \in PullRequests : Found[pr] \subseteq AllFindings
  BY DEF AllFindings
<1>6. Offered(Taken) \subseteq AllFindings /\ SkippedOf(Taken) \subseteq AllFindings
  BY <1>1, <1>2, <1>3, <1>4, <1>5
<1>7. (Offered(Taken) \cup SkippedOf(Taken)) \cap AllMarks = {}
  BY <1>2, <1>3, <1>4
<1>8. \A pr \in Taken \ HarvestedPrs : Found[pr] \subseteq AllMarks \cup Offered(Taken) \cup SkippedOf(Taken)
  BY <1>2, <1>3, <1>4
<1>9. HarvestPlan.toLabel \subseteq Taken
  BY DEF HarvestPlan
<1> QED
  BY <1>1, <1>6, <1>7, <1>8, <1>9 DEF HarvestPlan

LEMMA RunHarvestKeeps == FollowInv /\ RunHarvest => FollowInv'
<1> SUFFICES ASSUME FollowInv, RunHarvest PROVE FollowInv'
  OBVIOUS
<1>1. /\ hrun' = [step |-> IF Offered(Taken) \cup SkippedOf(Taken) # {} THEN "create" ELSE "label",
                  prs |-> Taken \ HarvestedPrs, block |-> Offered(Taken), skipped |-> SkippedOf(Taken),
                  toLabel |-> HarvestPlan.toLabel]
      /\ UNCHANGED <<merged, harvestedL, harvests, followups, trun, failures>>
  BY PlanIs DEF RunHarvest
<1>2. /\ hrun'.step = IF Offered(Taken) \cup SkippedOf(Taken) # {} THEN "create" ELSE "label"
      /\ hrun'.prs = Taken \ HarvestedPrs /\ hrun'.block = Offered(Taken) /\ hrun'.skipped = SkippedOf(Taken)
      /\ hrun'.toLabel \subseteq Taken /\ Taken \subseteq merged
  BY <1>1, PlanIs
<1>3. FollowTyped'
  <2>1. hrun' \in HarvestRuns
    BY <1>1, PlanIs DEF FollowInv, FollowTyped, HarvestRuns
  <2> QED
    BY <1>1, <2>1 DEF FollowInv, FollowTyped
<1>4. \A pr \in Taken : RecordedPr(pr) \/ pr \in hrun'.prs
  BY <1>2, HarvestedIs DEF FollowInv
<1>5. /\ AllMarks' = AllMarks /\ \A pr : RecordedPr(pr)' <=> RecordedPr(pr)
      /\ IssuesFit' /\ DraftsFit' /\ TriageFits'
  BY <1>1, IssuesKept
<1>6. HarvestFits'
  <2>1. \A pr \in harvestedL' : RecordedPr(pr)'
    BY <1>1, <1>5 DEF FollowInv, HarvestFits
  <2>2. hrun'.toLabel \subseteq merged' /\ hrun'.prs \subseteq merged'
    BY <1>1, <1>2
  <2>3. CASE hrun'.step = "create"
    <3>1. (hrun'.block \cup hrun'.skipped) \cap AllMarks' = {}
      BY <1>2, <1>5, PlanIs
    <3>2. \A pr \in hrun'.prs : Found[pr] \subseteq AllMarks' \cup hrun'.block \cup hrun'.skipped
      BY <1>2, <1>5, PlanIs
    <3>3. \A pr \in hrun'.toLabel : pr \in hrun'.prs \/ RecordedPr(pr)'
      BY <1>2, <1>4, <1>5
    <3> QED
      BY <2>1, <2>2, <2>3, <3>1, <3>2, <3>3 DEF HarvestFits
  <2>4. CASE hrun'.step = "label"
    <3>1. Offered(Taken) \cup SkippedOf(Taken) = {}
      BY <1>2, <2>4
    <3>2. \A pr \in Taken : RecordedPr(pr)
      BY <1>2, <1>4, <3>1, PlanIs DEF RecordedPr
    <3> QED
      BY <1>2, <1>5, <2>1, <2>2, <2>4, <3>2 DEF HarvestFits
  <2> QED
    BY <1>2, <2>3, <2>4
<1> QED
  BY <1>3, <1>5, <1>6 DEF FollowInv

LEMMA LabelKeeps == FollowInv /\ LabelPullRequest => FollowInv'
<1> SUFFICES ASSUME FollowInv, LabelPullRequest PROVE FollowInv'
  OBVIOUS
<1>1. UNCHANGED <<merged, harvests, followups, trun, failures>> /\ hrun.step = "label"
  BY DEF LabelPullRequest
<1>2. /\ AllMarks' = AllMarks /\ \A pr : RecordedPr(pr)' <=> RecordedPr(pr)
      /\ IssuesFit' /\ DraftsFit' /\ TriageFits'
  BY <1>1, IssuesKept
<1>3. CASE hrun' = HarvestIdle /\ harvestedL' = harvestedL
  <2>1. FollowTyped'
    BY <1>1, <1>3, FollowRecords DEF FollowInv, FollowTyped
  <2>2. HarvestFits'
    BY <1>1, <1>2, <1>3, FollowRecords DEF FollowInv, HarvestFits
  <2> QED
    BY <1>2, <2>1, <2>2 DEF FollowInv
<1>4. CASE \E pr \in hrun.toLabel : harvestedL' = harvestedL \cup {pr} /\ hrun' = [hrun EXCEPT !.toLabel = @ \ {pr}]
  <2>1. PICK pr \in hrun.toLabel : harvestedL' = harvestedL \cup {pr} /\ hrun' = [hrun EXCEPT !.toLabel = @ \ {pr}]
    BY <1>4
  <2>2. hrun \in HarvestRuns /\ hrun.toLabel \subseteq merged /\ \A q \in hrun.toLabel : RecordedPr(q)
    BY <1>1 DEF FollowInv, FollowTyped, HarvestFits
  <2>3. hrun' \in HarvestRuns /\ hrun'.step = "label" /\ hrun'.toLabel \subseteq hrun.toLabel /\ hrun'.prs = hrun.prs
    BY <1>1, <2>1, <2>2 DEF HarvestRuns
  <2>4. FollowTyped'
    BY <1>1, <2>1, <2>2, <2>3 DEF FollowInv, FollowTyped
  <2>5. HarvestFits'
    BY <1>1, <1>2, <2>1, <2>2, <2>3 DEF FollowInv, HarvestFits
  <2> QED
    BY <1>2, <2>4, <2>5 DEF FollowInv
<1> QED
  BY <1>3, <1>4 DEF LabelPullRequest

LEMMA HarvestFailsKeeps == FollowInv /\ HarvestFails => FollowInv'
<1> SUFFICES ASSUME FollowInv, HarvestFails PROVE FollowInv'
  OBVIOUS
<1>1. UNCHANGED <<merged, harvestedL, harvests, followups, trun>> /\ hrun' = HarvestIdle /\ failures' = failures + 1
  BY DEF HarvestFails, Fault
<1>2. /\ AllMarks' = AllMarks /\ \A pr : RecordedPr(pr)' <=> RecordedPr(pr)
      /\ IssuesFit' /\ DraftsFit' /\ TriageFits'
  BY <1>1, IssuesKept
<1>3. FollowTyped'
  BY <1>1, FollowRecords DEF FollowInv, FollowTyped
<1>4. HarvestFits'
  BY <1>1, <1>2, FollowRecords DEF FollowInv, HarvestFits
<1> QED
  BY <1>2, <1>3, <1>4 DEF FollowInv


-----------------------------------------------------------------------------
\* What a change of the harvest issues' other fields keeps.
LEMMA HarvestsKept ==
  ASSUME FollowInv, followups' = followups, harvests' \in Seq(HarvestIssues), DOMAIN harvests' = DOMAIN harvests,
         \A h \in DOMAIN harvests : /\ harvests'[h].marks = harvests[h].marks /\ harvests'[h].block = harvests[h].block
                                    /\ harvests'[h].results = harvests[h].results /\ harvests'[h].prs = harvests[h].prs
  PROVE  /\ AllMarks' = AllMarks /\ Drafted' = Drafted /\ (\A pr : RecordedPr(pr)' <=> RecordedPr(pr)) /\ DraftsFit'
         /\ \A h \in DOMAIN harvests : TerminalFor(h)' = TerminalFor(h) /\ EpicsOf(h)' = EpicsOf(h)
         /\ (trun' = trun => TriageFits')
         /\ (UNCHANGED <<merged, harvestedL, hrun>> => HarvestFits')
         /\ (merged' = merged /\ (\A h \in DOMAIN harvests : (harvests[h].ready /\ harvests[h].open
                => (harvests'[h].ready /\ harvests'[h].open) \/ harvests[h].block \subseteq TerminalFor(h)))
             => IssuesFit')
<1>1. harvests \in Seq(HarvestIssues) /\ Len(harvests') = Len(harvests) /\ DOMAIN harvests = 1 .. Len(harvests)
      /\ Len(harvests) \in Nat
  BY DEF FollowInv, FollowTyped
<1>2. \A f : f \in AllMarks' <=> f \in AllMarks
  BY <1>1, MarksAre DEF AllMarks
<1>3. AllMarks' = AllMarks /\ Drafted' = Drafted
  BY <1>2 DEF Drafted
<1>4. \A pr : RecordedPr(pr)' <=> RecordedPr(pr)
  BY <1>3 DEF RecordedPr
<1>5. \A h \in DOMAIN harvests : TerminalFor(h)' = TerminalFor(h) /\ EpicsOf(h)' = EpicsOf(h)
  <2>1. TAKE h \in DOMAIN harvests
  <2>2. harvests'[h].results = harvests[h].results
    OBVIOUS
  <2> QED
    BY <2>2 DEF TerminalFor, ResultsOf, EpicsOf
<1>6. DraftsFit'
  BY <1>3 DEF FollowInv, DraftsFit
<1>7. ASSUME trun' = trun PROVE TriageFits'
  BY <1>1, <1>3, <1>5, <1>7 DEF FollowInv, TriageFits, ProposalFits, PublishFits, Publishing, IsCreated, Claimed
<1>8. ASSUME UNCHANGED <<merged, harvestedL, hrun>> PROVE HarvestFits'
  <2>1. hrun.step = "close" => harvests' # <<>> /\ harvests'[Len(harvests')].block = {}
    BY <1>1 DEF FollowInv, HarvestFits
  <2> QED
    BY <1>3, <1>4, <1>8, <2>1 DEF FollowInv, HarvestFits
<1>9. ASSUME merged' = merged, \A h \in DOMAIN harvests : (harvests[h].ready /\ harvests[h].open
                => (harvests'[h].ready /\ harvests'[h].open) \/ harvests[h].block \subseteq TerminalFor(h))
      PROVE IssuesFit'
  <2>1. ASSUME NEW h \in DOMAIN harvests
        PROVE  /\ harvests'[h].results \subseteq harvests'[h].block /\ harvests'[h].block \subseteq harvests'[h].marks
               /\ harvests'[h].prs \subseteq merged' /\ (\A pr \in harvests'[h].prs : RecordedPr(pr)')
               /\ (~harvests'[h].ready \/ ~harvests'[h].open => harvests'[h].block \subseteq TerminalFor(h)')
               /\ harvests'[h].results \cap Drafted' = {}
    BY <1>3, <1>4, <1>5, <1>9, <2>1 DEF FollowInv, IssuesFit
  <2>2. \A g, h \in DOMAIN harvests' : g # h => harvests'[g].marks \cap harvests'[h].marks = {}
    BY DEF FollowInv, IssuesFit
  <2> QED
    BY <2>1, <2>2 DEF IssuesFit
<1> QED
  BY <1>3, <1>4, <1>5, <1>6, <1>7, <1>8, <1>9

\* A harvest issue whose label or state changes.
LEMMA FlagsChanged ==
  ASSUME FollowInv, followups' = followups, merged' = merged, NEW k \in DOMAIN harvests, NEW b \in BOOLEAN, NEW c \in BOOLEAN,
         harvests' = [harvests EXCEPT ![k] = [harvests[k] EXCEPT !.ready = b, !.open = c]],
         harvests[k].block \subseteq TerminalFor(k)
  PROVE  /\ AllMarks' = AllMarks /\ (\A pr : RecordedPr(pr)' <=> RecordedPr(pr)) /\ DraftsFit' /\ IssuesFit'
         /\ harvests' \in Seq(HarvestIssues) /\ DOMAIN harvests' = DOMAIN harvests
         /\ \A h \in DOMAIN harvests : TerminalFor(h)' = TerminalFor(h) /\ harvests'[h].block = harvests[h].block
                                       /\ harvests'[h].results = harvests[h].results
         /\ (trun' = trun => TriageFits')
         /\ (UNCHANGED <<harvestedL, hrun>> => HarvestFits')
<1> DEFINE e == [harvests[k] EXCEPT !.ready = b, !.open = c]
<1>1. harvests \in Seq(HarvestIssues) /\ harvests[k] \in HarvestIssues
  BY DEF FollowInv, FollowTyped
<1>2. e \in HarvestIssues /\ e.marks = harvests[k].marks /\ e.block = harvests[k].block
      /\ e.results = harvests[k].results /\ e.prs = harvests[k].prs
  BY <1>1 DEF HarvestIssues
<1>3. harvests' = [harvests EXCEPT ![k] = e]
  OBVIOUS
<1> HIDE DEF e
<1>4. /\ harvests' \in Seq(HarvestIssues) /\ DOMAIN harvests' = DOMAIN harvests
      /\ harvests'[k] = e /\ \A h \in DOMAIN harvests \ {k} : harvests'[h] = harvests[h]
  BY <1>1, <1>2, <1>3, IssueChanged
<1>5. \A h \in DOMAIN harvests : /\ harvests'[h].marks = harvests[h].marks /\ harvests'[h].block = harvests[h].block
                                 /\ harvests'[h].results = harvests[h].results /\ harvests'[h].prs = harvests[h].prs
  BY <1>2, <1>4
<1>6. \A h \in DOMAIN harvests : (harvests[h].ready /\ harvests[h].open
                => (harvests'[h].ready /\ harvests'[h].open) \/ harvests[h].block \subseteq TerminalFor(h))
  BY <1>4
<1> QED
  BY <1>4, <1>5, <1>6, HarvestsKept

\* The two forms in which the actions write it.
LEMMA FlagForms ==
  ASSUME FollowTyped, NEW k \in DOMAIN harvests
  PROVE  /\ [harvests EXCEPT ![k].ready = FALSE] = [harvests EXCEPT ![k] = [harvests[k] EXCEPT !.ready = FALSE, !.open = harvests[k].open]]
         /\ [harvests EXCEPT ![k].open = FALSE] = [harvests EXCEPT ![k] = [harvests[k] EXCEPT !.ready = harvests[k].ready, !.open = FALSE]]
         /\ harvests[k].open \in BOOLEAN /\ harvests[k].ready \in BOOLEAN
<1>1. harvests[k] \in HarvestIssues
  BY DEF FollowTyped
<1>2. harvests[k].open \in BOOLEAN /\ harvests[k].ready \in BOOLEAN
  BY <1>1 DEF HarvestIssues
<1>3. [harvests[k] EXCEPT !.ready = FALSE, !.open = harvests[k].open] = [harvests[k] EXCEPT !.ready = FALSE]
  BY <1>1, <1>2 DEF HarvestIssues
<1>4. [harvests[k] EXCEPT !.ready = harvests[k].ready, !.open = FALSE] = [harvests[k] EXCEPT !.open = FALSE]
  BY <1>1, <1>2 DEF HarvestIssues
<1> QED
  BY <1>2, <1>3, <1>4, Zenon

LEMMA CloseRecordOnlyKeeps == FollowInv /\ CloseRecordOnly => FollowInv'
<1> SUFFICES ASSUME FollowInv, CloseRecordOnly PROVE FollowInv'
  OBVIOUS
<1> DEFINE k == Len(harvests)
<1>1. /\ harvests # <<>> /\ harvests[k].block = {} /\ harvests \in Seq(HarvestIssues) /\ hrun \in HarvestRuns
      /\ \A pr \in hrun.toLabel : RecordedPr(pr)
  BY DEF CloseRecordOnly, FollowInv, FollowTyped, HarvestFits
<1>2. k \in DOMAIN harvests
  BY <1>1
<1>3. harvests' = [harvests EXCEPT ![k].open = FALSE] /\ UNCHANGED <<merged, harvestedL, followups, trun, failures>>
      /\ hrun' = [hrun EXCEPT !.step = "label"]
  BY DEF CloseRecordOnly
<1> HIDE DEF k
<1>4. harvests' = [harvests EXCEPT ![k] = [harvests[k] EXCEPT !.ready = harvests[k].ready, !.open = FALSE]]
      /\ harvests[k].ready \in BOOLEAN
  BY <1>2, <1>3, FlagForms DEF FollowInv
<1>5. /\ (\A pr : RecordedPr(pr)' <=> RecordedPr(pr)) /\ DraftsFit' /\ IssuesFit'
      /\ harvests' \in Seq(HarvestIssues) /\ TriageFits'
  BY <1>1, <1>2, <1>3, <1>4, FlagsChanged
<1>6. hrun' \in HarvestRuns /\ hrun'.step = "label" /\ hrun'.toLabel = hrun.toLabel /\ hrun'.prs = hrun.prs
  BY <1>1, <1>3 DEF HarvestRuns
<1>7. FollowTyped'
  BY <1>3, <1>5, <1>6 DEF FollowInv, FollowTyped
<1>8. HarvestFits'
  BY <1>1, <1>3, <1>5, <1>6 DEF FollowInv, HarvestFits
<1> QED
  BY <1>5, <1>7, <1>8 DEF FollowInv

LEMMA CloseByHandKeeps == FollowInv /\ (\E h \in DOMAIN harvests : CloseByHand(h)) => FollowInv'
<1> SUFFICES ASSUME FollowInv, NEW k \in DOMAIN harvests, CloseByHand(k) PROVE FollowInv'
  OBVIOUS
<1>1. /\ harvests' = [harvests EXCEPT ![k].open = FALSE] /\ UNCHANGED <<merged, harvestedL, followups, hrun, failures>>
      /\ ~harvests[k].ready /\ trun' = IF trun.h = k THEN TriageIdle ELSE trun
  BY DEF CloseByHand
<1>2. harvests[k].block \subseteq TerminalFor(k)
  BY <1>1 DEF FollowInv, IssuesFit
<1>3. harvests' = [harvests EXCEPT ![k] = [harvests[k] EXCEPT !.ready = harvests[k].ready, !.open = FALSE]]
      /\ harvests[k].ready \in BOOLEAN
  BY <1>1, FlagForms DEF FollowInv
<1>4. DraftsFit' /\ IssuesFit' /\ harvests' \in Seq(HarvestIssues) /\ HarvestFits' /\ (trun' = trun => TriageFits')
  BY <1>1, <1>2, <1>3, FlagsChanged
<1>5. trun' = TriageIdle => TriageFits'
  BY FollowRecords DEF TriageFits, Publishing
<1>6. FollowTyped'
  BY <1>1, <1>4, FollowRecords DEF FollowInv, FollowTyped
<1> QED
  BY <1>1, <1>4, <1>5, <1>6 DEF FollowInv


-----------------------------------------------------------------------------
\* The harvest issue is created.
LEMMA CreateHarvestKeeps == FollowInv /\ CreateHarvestIssue => FollowInv'
<1> SUFFICES ASSUME FollowInv, CreateHarvestIssue PROVE FollowInv'
  OBVIOUS
<1> DEFINE e == [prs |-> hrun.prs, block |-> hrun.block, marks |-> hrun.block \cup hrun.skipped,
                 ready |-> hrun.block # {}, open |-> TRUE, results |-> {}]
           n == Len(harvests) + 1
<1>1. /\ harvests \in Seq(HarvestIssues) /\ followups \in Seq(FollowUpIssues) /\ hrun \in HarvestRuns
      /\ hrun.prs \subseteq merged /\ hrun.toLabel \subseteq merged
      /\ (hrun.block \cup hrun.skipped) \cap AllMarks = {}
      /\ \A pr \in hrun.prs : Found[pr] \subseteq AllMarks \cup hrun.block \cup hrun.skipped
      /\ \A pr \in hrun.toLabel : pr \in hrun.prs \/ RecordedPr(pr)
  BY DEF CreateHarvestIssue, FollowInv, FollowTyped, HarvestFits
<1>2. e \in HarvestIssues
  <2>1. (hrun.block # {}) \in BOOLEAN
    OBVIOUS
  <2>2. \A b \in BOOLEAN : [prs |-> hrun.prs, block |-> hrun.block, marks |-> hrun.block \cup hrun.skipped,
                            ready |-> b, open |-> TRUE, results |-> {}] \in HarvestIssues
    BY <1>1 DEF HarvestIssues, HarvestRuns
  <2> QED
    BY <2>1, <2>2
<1>3. /\ e.prs = hrun.prs /\ e.block = hrun.block /\ e.marks = hrun.block \cup hrun.skipped
      /\ (e.ready <=> hrun.block # {}) /\ e.open /\ e.results = {}
  <2>1. e.prs = hrun.prs /\ e.block = hrun.block /\ e.marks = hrun.block \cup hrun.skipped /\ e.results = {}
    OBVIOUS
  <2>2. (e.ready <=> hrun.block # {}) /\ e.open
    BY Zenon
  <2> QED
    BY <2>1, <2>2
<1>4. harvests' = Append(harvests, e) /\ UNCHANGED <<merged, harvestedL, followups, trun>>
  BY DEF CreateHarvestIssue
<1>5. \/ hrun' = [hrun EXCEPT !.step = IF hrun.block = {} THEN "close" ELSE "label"] /\ failures' = failures
      \/ hrun' = HarvestIdle /\ failures' = failures + 1
  BY DEF CreateHarvestIssue, Fault
<1> HIDE DEF e
<1>6. /\ harvests' \in Seq(HarvestIssues) /\ Len(harvests') = n /\ DOMAIN harvests' = DOMAIN harvests \cup {n}
      /\ harvests' # <<>> /\ n \notin DOMAIN harvests /\ harvests'[n] = e
      /\ \A h \in DOMAIN harvests : harvests'[h] = harvests[h]
      /\ AllMarks' = AllMarks \cup hrun.block \cup hrun.skipped
  <2>1. /\ harvests' \in Seq(HarvestIssues) /\ Len(harvests') = n /\ DOMAIN harvests' = DOMAIN harvests \cup {n}
        /\ harvests' # <<>> /\ n \notin DOMAIN harvests /\ harvests'[n] = e
        /\ \A h \in DOMAIN harvests : harvests'[h] = harvests[h]
    <3>1. harvests' \in Seq(HarvestIssues) /\ Len(harvests') = n /\ harvests'[n] = e
          /\ \A h \in DOMAIN harvests : harvests'[h] = harvests[h]
      BY <1>1, <1>2, <1>4
    <3> QED
      BY <1>1, <3>1
  <2>4. MarksOf(harvests') = MarksOf(harvests) \cup e.marks
    BY <1>1, <2>1, MarksAppended
  <2>2. AllMarks' = MarksOf(harvests')
    BY DEF AllMarks, MarksOf
  <2> QED
    BY <1>3, <2>1, <2>2, <2>4 DEF AllMarks
<1> HIDE DEF n
<1>7. Drafted' = Drafted /\ \A pr : RecordedPr(pr) => RecordedPr(pr)'
  BY <1>4, <1>6 DEF RecordedPr, Drafted
<1>8. \A h \in DOMAIN harvests : TerminalFor(h)' = TerminalFor(h) /\ EpicsOf(h)' = EpicsOf(h)
  <2>1. TAKE h \in DOMAIN harvests
  <2>2. harvests'[h].results = harvests[h].results
    BY <1>6
  <2> QED
    BY <1>4, <2>2 DEF TerminalFor, ResultsOf, EpicsOf
<1>9. \A pr \in hrun.prs : RecordedPr(pr)'
  BY <1>1, <1>6 DEF RecordedPr
<1>10. IssuesFit'
  <2>1. ASSUME NEW h \in DOMAIN harvests
        PROVE  /\ harvests'[h].results \subseteq harvests'[h].block /\ harvests'[h].block \subseteq harvests'[h].marks
               /\ harvests'[h].prs \subseteq merged' /\ (\A pr \in harvests'[h].prs : RecordedPr(pr)')
               /\ (~harvests'[h].ready \/ ~harvests'[h].open => harvests'[h].block \subseteq TerminalFor(h)')
               /\ harvests'[h].results \cap Drafted' = {}
    BY <1>4, <1>6, <1>7, <1>8 DEF FollowInv, IssuesFit
  <2>2. /\ harvests'[n].results \subseteq harvests'[n].block /\ harvests'[n].block \subseteq harvests'[n].marks
        /\ harvests'[n].prs \subseteq merged' /\ (\A pr \in harvests'[n].prs : RecordedPr(pr)')
        /\ (~harvests'[n].ready \/ ~harvests'[n].open => harvests'[n].block = {})
        /\ harvests'[n].results \cap Drafted' = {}
    BY <1>1, <1>3, <1>4, <1>6, <1>9
  <2>3. harvests'[n].marks \cap AllMarks = {} /\ \A h \in DOMAIN harvests : harvests[h].marks \subseteq AllMarks
    BY <1>1, <1>3, <1>6, MarksAre DEF AllMarks
  <2>4. \A g, h \in DOMAIN harvests' : g # h => harvests'[g].marks \cap harvests'[h].marks = {}
    BY <1>6, <2>3 DEF FollowInv, IssuesFit
  <2>5. \A h \in DOMAIN harvests' : h \in DOMAIN harvests \/ h = n
    BY <1>6
  <2> QED
    BY <2>1, <2>2, <2>4, <2>5 DEF IssuesFit
<1>11. DraftsFit'
  BY <1>4, <1>6, <1>7 DEF FollowInv, DraftsFit
<1>12. /\ hrun' \in HarvestRuns /\ hrun'.step \in {"close", "label", "idle"}
       /\ hrun'.toLabel \subseteq hrun.toLabel /\ hrun'.prs \subseteq hrun.prs /\ (hrun'.step = "close" => hrun.block = {})
       /\ failures' \in Nat
  <2>1. CASE hrun' = HarvestIdle /\ failures' = failures + 1
    BY <2>1, FollowRecords DEF FollowInv, FollowTyped
  <2>2. CASE hrun' = [hrun EXCEPT !.step = IF hrun.block = {} THEN "close" ELSE "label"] /\ failures' = failures
    BY <1>1, <2>2 DEF HarvestRuns, FollowInv, FollowTyped
  <2> QED
    BY <1>5, <2>1, <2>2
<1>13. HarvestFits'
  <2>1. \A pr \in hrun'.toLabel : RecordedPr(pr)'
    BY <1>1, <1>7, <1>9, <1>12
  <2>2. \A pr \in harvestedL' : RecordedPr(pr)'
    BY <1>4, <1>7 DEF FollowInv, HarvestFits
  <2>3. hrun'.toLabel \subseteq merged' /\ hrun'.prs \subseteq merged'
    BY <1>1, <1>4, <1>12
  <2>4. hrun'.step = "close" => harvests' # <<>> /\ harvests'[Len(harvests')].block = {}
    BY <1>3, <1>6, <1>12
  <2> QED
    BY <1>12, <2>1, <2>2, <2>3, <2>4 DEF HarvestFits
<1>14. TriageFits'
  BY <1>4, <1>6, <1>7, <1>8 DEF FollowInv, TriageFits, ProposalFits, PublishFits, Publishing, IsCreated, Claimed
<1>15. FollowTyped'
  BY <1>4, <1>6, <1>12 DEF FollowInv, FollowTyped
<1> QED
  BY <1>10, <1>11, <1>13, <1>14, <1>15 DEF FollowInv

-----------------------------------------------------------------------------
\* What a proposal claims.
LEMMA ProposalIs ==
  ASSUME NEW kept, NEW p \in Proposals(kept), ValidateProposal(p, kept)
  PROVE  /\ p.drafts \in Seq(SUBSET kept) /\ p.rejected \subseteq kept
         /\ \A f \in kept : f \in p.rejected \/ \E i \in DOMAIN p.drafts : f \in p.drafts[i]
         /\ \A i \in DOMAIN p.drafts : /\ p.drafts[i] \cap p.rejected = {}
                                       /\ \A j \in DOMAIN p.drafts : i # j => p.drafts[i] \cap p.drafts[j] = {}
<1>1. p.drafts \in Seq(SUBSET kept) /\ p.rejected \subseteq kept
  <2>1. PICK d \in {<<>>} \cup {<<s>> : s \in (SUBSET kept) \ {{}}} \cup {<<{a}, {b}>> : a, b \in kept}, r \in SUBSET kept :
          p = [drafts |-> d, rejected |-> r]
    BY DEF Proposals
  <2>2. d \in Seq(SUBSET kept)
    <3>1. CASE d = <<>>
      BY <3>1
    <3>2. CASE \E s \in (SUBSET kept) \ {{}} : d = <<s>>
      BY <3>2
    <3>3. CASE \E a, b \in kept : d = <<{a}, {b}>>
      BY <3>3
    <3> QED
      BY <3>1, <3>2, <3>3
  <2> QED
    BY <2>1, <2>2
<1> DEFINE n == Len(p.drafts)
<1>2. n \in Nat /\ DOMAIN p.drafts = 1 .. n
  BY <1>1
<1>3. /\ ClaimsOf(p) = n + (IF p.rejected = {} THEN 0 ELSE 1)
      /\ \A i \in 1 .. n : ClaimOf(p, i) = p.drafts[i]
      /\ ClaimOf(p, n + 1) = p.rejected
  BY <1>2 DEF ClaimsOf, ClaimOf
<1>4. /\ \A f \in kept : \E i \in 1 .. ClaimsOf(p) : f \in ClaimOf(p, i)
      /\ \A i, j \in 1 .. ClaimsOf(p) : i # j => ClaimOf(p, i) \cap ClaimOf(p, j) = {}
  BY DEF ValidateProposal, EveryFindingClaimed, ClaimedOnce
<1> HIDE DEF n
<1>5. \A f \in kept : f \in p.rejected \/ \E i \in 1 .. n : f \in p.drafts[i]
  <2>1. TAKE f \in kept
  <2>2. PICK i \in 1 .. ClaimsOf(p) : f \in ClaimOf(p, i)
    BY <1>4
  <2>3. i \in 1 .. n \/ i = n + 1
    BY <1>2, <1>3, <2>2
  <2> QED
    BY <1>3, <2>2, <2>3
<1>6. \A i, j \in 1 .. n : i # j => p.drafts[i] \cap p.drafts[j] = {}
  BY <1>2, <1>3, <1>4
<1>7. \A i \in 1 .. n : p.drafts[i] \cap p.rejected = {}
  <2>1. CASE p.rejected = {}
    BY <2>1
  <2>2. CASE p.rejected # {}
    BY <1>2, <1>3, <1>4, <2>2
  <2> QED
    BY <2>1, <2>2
<1> QED
  BY <1>1, <1>2, <1>5, <1>6, <1>7

LEMMA ClaimedIs ==
  /\ \A f : f \in Claimed <=> f \in trun.rejected \/ \E i \in DOMAIN trun.drafts : f \in trun.drafts[i]
  /\ \A i \in DOMAIN trun.drafts : trun.drafts[i] \subseteq Claimed
<1>1. \A f : f \in UNION Range(trun.drafts) <=> \E i \in DOMAIN trun.drafts : f \in trun.drafts[i]
  BY DEF Range
<1> QED
  BY <1>1 DEF Claimed


-----------------------------------------------------------------------------
\* A step of the triage run that leaves the issues alone.
LEMMA TriageOnly ==
  ASSUME FollowInv, UNCHANGED <<merged, harvestedL, harvests, followups, hrun>>, trun' \in TriageRuns, failures' \in Nat, TriageFits'
  PROVE  FollowInv'
<1>1. FollowTyped'
  BY DEF FollowInv, FollowTyped
<1> QED
  BY <1>1, IssuesKept DEF FollowInv

LEMMA ProposalKept ==
  ASSUME ProposalFits, trun'.h = trun.h, trun'.drafts = trun.drafts, trun'.rejected = trun.rejected,
         trun'.epic \in 0 .. Len(followups'), DOMAIN harvests' = DOMAIN harvests,
         harvests'[trun.h].block = harvests[trun.h].block, TerminalFor(trun.h) \subseteq TerminalFor(trun.h)'
  PROVE  ProposalFits' /\ Claimed' = Claimed
<1>1. Claimed' = Claimed
  BY DEF Claimed
<1> QED
  BY <1>1 DEF ProposalFits

LEMMA PrepareKeeps == FollowInv /\ (\E h \in DOMAIN harvests : Prepare(h)) => FollowInv'
<1> SUFFICES ASSUME FollowInv, NEW h \in DOMAIN harvests, Prepare(h) PROVE FollowInv'
  OBVIOUS
<1> DEFINE kept == InputFindings(h)
<1>1. PICK p \in Proposals(kept) :
         ValidateProposal(p, kept) /\ trun' = [TriageIdle EXCEPT !.step = "check", !.h = h, !.drafts = p.drafts,
                                               !.rejected = p.rejected]
  BY DEF Prepare
<1>2. UNCHANGED <<merged, harvestedL, harvests, followups, hrun, failures>>
  BY DEF Prepare
<1>3. kept = harvests[h].block \ TerminalFor(h) /\ harvests[h] \in HarvestIssues
  BY DEF InputFindings, FollowInv, FollowTyped
<1> HIDE DEF kept
<1>4. /\ p.drafts \in Seq(SUBSET kept) /\ p.rejected \subseteq kept
      /\ \A f \in kept : f \in p.rejected \/ \E i \in DOMAIN p.drafts : f \in p.drafts[i]
      /\ \A i \in DOMAIN p.drafts : /\ p.drafts[i] \cap p.rejected = {}
                                    /\ \A j \in DOMAIN p.drafts : i # j => p.drafts[i] \cap p.drafts[j] = {}
  BY <1>1, ProposalIs
<1>5. /\ trun'.step = "check" /\ trun'.h = h /\ trun'.drafts = p.drafts /\ trun'.rejected = p.rejected
      /\ trun'.next = 1 /\ trun'.epic = 0
      /\ trun' = [step |-> "check", h |-> h, drafts |-> p.drafts, rejected |-> p.rejected, next |-> 1, epic |-> 0]
  BY <1>1 DEF TriageIdle
<1>6. kept \subseteq AllFindings /\ h \in Nat
  BY <1>3 DEF HarvestIssues, FollowInv, FollowTyped
<1>7. p.drafts \in Seq(SUBSET AllFindings) /\ p.rejected \subseteq AllFindings
  BY <1>4, <1>6
<1>8. trun' \in TriageRuns
  BY <1>5, <1>6, <1>7 DEF TriageRuns, TriageSteps
<1>9. TerminalFor(h)' = TerminalFor(h)
  BY <1>2 DEF TerminalFor, ResultsOf
<1>10. Claimed' \subseteq kept /\ kept \subseteq Claimed'
  <2>1. \A f : f \in Claimed' <=> f \in trun'.rejected \/ \E i \in DOMAIN trun'.drafts : f \in trun'.drafts[i]
    BY DEF Claimed, Range
  <2> QED
    BY <1>4, <1>5, <2>1
<1>11. followups \in Seq(FollowUpIssues)
  BY DEF FollowInv, FollowTyped
<1>12. ProposalFits'
  <2>1. trun'.h \in DOMAIN harvests' /\ trun'.epic \in 0 .. Len(followups')
    BY <1>2, <1>5, <1>11
  <2>2. TerminalFor(trun.h)' = TerminalFor(h)
    BY <1>2, <1>5 DEF TerminalFor, ResultsOf
  <2>3. Claimed' \subseteq harvests'[trun'.h].block /\ harvests'[trun'.h].block \subseteq TerminalFor(h) \cup Claimed'
    BY <1>2, <1>3, <1>5, <1>10
  <2> QED
    BY <1>4, <1>5, <2>1, <2>2, <2>3 DEF ProposalFits
<1>13. TriageFits'
  BY <1>5, <1>12 DEF TriageFits, Publishing
<1> QED
  BY <1>2, <1>8, <1>13, TriageOnly DEF FollowInv, FollowTyped

LEMMA RetryPublishKeeps == FollowInv /\ RetryPublish => FollowInv'
<1> SUFFICES ASSUME FollowInv, RetryPublish PROVE FollowInv'
  OBVIOUS
<1>1. /\ trun.step = "failed" /\ trun' = [trun EXCEPT !.step = "check", !.next = 1, !.epic = 0] /\ trun \in TriageRuns
      /\ UNCHANGED <<merged, harvestedL, harvests, followups, hrun, failures>> /\ ProposalFits
      /\ followups \in Seq(FollowUpIssues)
  BY DEF RetryPublish, FollowInv, FollowTyped, TriageFits
<1>2. /\ trun' \in TriageRuns /\ trun'.step = "check" /\ trun'.h = trun.h /\ trun'.drafts = trun.drafts
      /\ trun'.rejected = trun.rejected /\ trun'.next = 1 /\ trun'.epic = 0
  BY <1>1 DEF TriageRuns, TriageSteps
<1>3. TerminalFor(trun.h) \subseteq TerminalFor(trun.h)' /\ trun'.epic \in 0 .. Len(followups')
  BY <1>1, <1>2 DEF TerminalFor, ResultsOf
<1>4. ProposalFits'
  BY <1>1, <1>2, <1>3, ProposalKept
<1>5. TriageFits'
  BY <1>2, <1>4 DEF TriageFits, Publishing
<1> QED
  BY <1>1, <1>2, <1>5, TriageOnly DEF FollowInv, FollowTyped

LEMMA TriageFailsKeeps == FollowInv /\ TriageFails => FollowInv'
<1> SUFFICES ASSUME FollowInv, TriageFails PROVE FollowInv'
  OBVIOUS
<1>1. /\ trun' = [trun EXCEPT !.step = "failed"] /\ trun \in TriageRuns /\ failures' = failures + 1 /\ failures \in Nat
      /\ UNCHANGED <<merged, harvestedL, harvests, followups, hrun>> /\ ProposalFits
  BY DEF TriageFails, Fault, FollowInv, FollowTyped, TriageFits
<1>2. /\ trun' \in TriageRuns /\ trun'.step = "failed" /\ trun'.h = trun.h /\ trun'.drafts = trun.drafts
      /\ trun'.rejected = trun.rejected /\ trun'.epic = trun.epic
  BY <1>1 DEF TriageRuns, TriageSteps
<1>3. TerminalFor(trun.h) \subseteq TerminalFor(trun.h)' /\ trun'.epic \in 0 .. Len(followups')
  BY <1>1, <1>2 DEF TerminalFor, ResultsOf, ProposalFits
<1>4. ProposalFits'
  BY <1>1, <1>2, <1>3, ProposalKept
<1>5. TriageFits'
  BY <1>2, <1>4 DEF TriageFits, Publishing
<1> QED
  BY <1>1, <1>2, <1>5, TriageOnly

LEMMA EpicIs ==
  ASSUME FollowTyped, NEW h
  PROVE  EpicOf(h) \in 0 .. Len(followups) /\ (EpicOf(h) = 0 => EpicsOf(h) = {})
<1>1. EpicsOf(h) \subseteq 1 .. Len(followups) /\ Len(followups) \in Nat
  BY DEF EpicsOf, FollowTyped
<1>2. CASE EpicsOf(h) = {}
  BY <1>1, <1>2 DEF EpicOf
<1>3. CASE EpicsOf(h) # {}
  <2>1. EpicsOf(h) \in SUBSET Nat
    BY <1>1
  <2>2. \E i \in EpicsOf(h) : \A j \in EpicsOf(h) : i <= j
    BY <1>3, <2>1, Least
  <2>3. EpicOf(h) \in EpicsOf(h)
    BY <1>3, <2>2 DEF EpicOf
  <2> QED
    BY <1>1, <2>3
<1> QED
  BY <1>2, <1>3

LEMMA CheckLedgerKeeps == FollowInv /\ CheckLedger => FollowInv'
<1> SUFFICES ASSUME FollowInv, CheckLedger PROVE FollowInv'
  OBVIOUS
<1>1. /\ trun.step = "check" /\ trun \in TriageRuns /\ ProposalFits /\ trun.next = 1
      /\ UNCHANGED <<merged, harvestedL, harvests, followups, hrun, failures>>
  BY DEF CheckLedger, FollowInv, FollowTyped, TriageFits
<1>2. CASE trun' = TriageIdle
  BY <1>1, <1>2, FollowRecords, TriageOnly DEF FollowInv, FollowTyped, TriageFits, Publishing
<1>3. CASE /\ Claimed \cap TerminalFor(trun.h) = {}
           /\ trun' = [trun EXCEPT !.epic = IF NeedsEpic(trun.drafts) THEN EpicOf(trun.h) ELSE 0,
                                   !.step = IF NeedsEpic(trun.drafts) THEN "epic" ELSE "draft"]
  <2>1. EpicOf(trun.h) \in 0 .. Len(followups) /\ (EpicOf(trun.h) = 0 => EpicsOf(trun.h) = {}) /\ Len(followups) \in Nat
    BY EpicIs DEF FollowInv, FollowTyped
  <2>2. /\ trun' \in TriageRuns /\ trun'.step \in {"epic", "draft"} /\ trun'.h = trun.h /\ trun'.drafts = trun.drafts
        /\ trun'.rejected = trun.rejected /\ trun'.next = 1 /\ trun'.epic \in 0 .. Len(followups)
        /\ (trun'.step = "epic" => trun'.epic = EpicOf(trun.h))
    <3>1. ASSUME NEW ep \in Nat, NEW st \in TriageSteps, trun' = [trun EXCEPT !.epic = ep, !.step = st]
          PROVE  /\ trun' \in TriageRuns /\ trun'.step = st /\ trun'.h = trun.h /\ trun'.drafts = trun.drafts
                 /\ trun'.rejected = trun.rejected /\ trun'.next = 1 /\ trun'.epic = ep
      BY <1>1, <3>1 DEF TriageRuns
    <3>2. EpicOf(trun.h) \in Nat /\ 0 \in Nat /\ "epic" \in TriageSteps /\ "draft" \in TriageSteps
      BY <2>1 DEF TriageSteps
    <3>3. CASE trun' = [trun EXCEPT !.epic = EpicOf(trun.h), !.step = "epic"]
      BY <2>1, <3>1, <3>2, <3>3
    <3>4. CASE trun' = [trun EXCEPT !.epic = 0, !.step = "draft"]
      <4>1. /\ trun' \in TriageRuns /\ trun'.step = "draft" /\ trun'.h = trun.h /\ trun'.drafts = trun.drafts
            /\ trun'.rejected = trun.rejected /\ trun'.next = 1 /\ trun'.epic = 0
        BY <3>1, <3>2, <3>4, Zenon
      <4> QED
        BY <2>1, <4>1
    <3> QED
      BY <1>3, <3>3, <3>4
  <2>3. TerminalFor(trun.h) \subseteq TerminalFor(trun.h)' /\ trun'.epic \in 0 .. Len(followups')
    BY <1>1, <2>2 DEF TerminalFor, ResultsOf
  <2>4. ProposalFits'
    BY <1>1, <2>2, <2>3, ProposalKept
  <2>5. TerminalFor(trun.h)' = TerminalFor(trun.h) /\ EpicsOf(trun.h)' = EpicsOf(trun.h)
    BY <1>1, <2>2 DEF TerminalFor, ResultsOf, EpicsOf
  <2>6. \A i \in DOMAIN trun.drafts : ~IsCreated(i)'
    BY <1>1, <2>2 DEF IsCreated, TriageRuns
  <2>7. PublishFits'
    BY <1>3, <2>2, <2>5, <2>6, ClaimedIs DEF PublishFits
  <2>8. TriageFits'
    BY <2>1, <2>2, <2>4, <2>5, <2>7 DEF TriageFits
  <2> QED
    BY <1>1, <2>2, <2>8, TriageOnly DEF FollowInv, FollowTyped
<1> QED
  BY <1>2, <1>3 DEF CheckLedger


-----------------------------------------------------------------------------
\* A follow-up issue is created: marks that nothing published, under an epic
\* that is the harvest issue's first.
LEMMA IssuePublished ==
  ASSUME FollowInv, UNCHANGED <<merged, harvestedL, harvests, hrun>>, NEW m \in SUBSET AllFindings, NEW o \in Nat,
         followups' = Append(followups, FollowUp(m, o)), m \subseteq AllMarks, m \cap Drafted = {},
         \A h \in DOMAIN harvests : harvests[h].results \cap m = {}, o # 0 => EpicsOf(o) = {}
  PROVE  /\ followups' \in Seq(FollowUpIssues) /\ Len(followups') = Len(followups) + 1 /\ Len(followups) \in Nat
         /\ followups' # <<>> /\ Drafted' = Drafted \cup m
         /\ \A h : TerminalFor(h) \subseteq TerminalFor(h)'
         /\ \A h \in DOMAIN harvests : \A f \in TerminalFor(h)' : f \in TerminalFor(h) \/ f \in m
         /\ IssuesFit' /\ DraftsFit' /\ HarvestFits'
<1> DEFINE e == FollowUp(m, o)
           n == Len(followups) + 1
<1>1. followups \in Seq(FollowUpIssues) /\ Len(followups) \in Nat
  BY DEF FollowInv, FollowTyped
<1>2. e \in FollowUpIssues /\ e.marks = m /\ e.epicOf = o
  <2>1. \A b \in BOOLEAN : [marks |-> m, epicOf |-> o, proposed |-> b, open |-> TRUE, parent |-> 0] \in FollowUpIssues
    BY DEF FollowUpIssues
  <2>2. (o = 0) \in BOOLEAN
    OBVIOUS
  <2>3. e \in FollowUpIssues
    BY <2>1, <2>2, Zenon DEF FollowUp
  <2>4. e.marks = m /\ e.epicOf = o
    BY DEF FollowUp
  <2> QED
    BY <2>3, <2>4
<1>0. followups' = Append(followups, e)
  OBVIOUS
<1> HIDE DEF e
<1>3. followups' \in Seq(FollowUpIssues) /\ Len(followups') = n /\ followups'[n] = e
      /\ \A i \in DOMAIN followups : followups'[i] = followups[i]
  BY <1>0, <1>1, <1>2
<1>4. DOMAIN followups' = DOMAIN followups \cup {n} /\ n \notin DOMAIN followups /\ followups' # <<>>
  BY <1>1, <1>3
<1>5. MarksOf(followups') = MarksOf(followups) \cup m
  <2>1. MarksOf(followups') = MarksOf(followups) \cup followups'[Len(followups) + 1].marks
    BY <1>1, <1>3, MarksAppended
  <2> QED
    BY <1>2, <1>3, <2>1
<1>6. Drafted' = Drafted \cup m /\ AllMarks' = AllMarks
  BY <1>5 DEF Drafted, AllMarks, MarksOf
<1> HIDE DEF n
<1>7. \A h : TerminalFor(h)' = Drafted' \cup harvests[h].results
  BY DEF TerminalFor, Drafted, MarksOf, ResultsOf
<1>8. /\ \A h : TerminalFor(h) \subseteq TerminalFor(h)'
      /\ \A h \in DOMAIN harvests : \A f \in TerminalFor(h)' : f \in TerminalFor(h) \/ f \in m
  BY <1>6, <1>7, TerminalIs
<1>9. \A pr : RecordedPr(pr)' <=> RecordedPr(pr)
  BY <1>6 DEF RecordedPr
<1>10. IssuesFit'
  <2>1. ASSUME NEW h \in DOMAIN harvests
        PROVE  /\ harvests'[h].results \subseteq harvests'[h].block /\ harvests'[h].block \subseteq harvests'[h].marks
               /\ harvests'[h].prs \subseteq merged' /\ (\A pr \in harvests'[h].prs : RecordedPr(pr)')
               /\ (~harvests'[h].ready \/ ~harvests'[h].open => harvests'[h].block \subseteq TerminalFor(h)')
               /\ harvests'[h].results \cap Drafted' = {}
    BY <1>6, <1>8, <1>9 DEF FollowInv, IssuesFit
  <2> QED
    BY <2>1 DEF FollowInv, IssuesFit
<1>11. DraftsFit'
  <2>1. \A i \in DOMAIN followups : followups[i].marks \cap m = {}
    BY <1>1, MarksAre DEF Drafted
  <2>2. \A i, j \in DOMAIN followups' : i # j => followups'[i].marks \cap followups'[j].marks = {}
    BY <1>2, <1>3, <1>4, <2>1 DEF FollowInv, DraftsFit
  <2>3. o # 0 => \A i \in DOMAIN followups : followups[i].epicOf # o
    BY DEF EpicsOf
  <2>4. \A i, j \in DOMAIN followups' : followups'[i].epicOf = followups'[j].epicOf /\ followups'[i].epicOf # 0 => i = j
    BY <1>2, <1>3, <1>4, <2>3 DEF FollowInv, DraftsFit
  <2> QED
    BY <1>6, <2>2, <2>4 DEF FollowInv, DraftsFit
<1>12. HarvestFits'
  BY <1>6, <1>9 DEF FollowInv, HarvestFits
<1> QED
  BY <1>1, <1>3, <1>4, <1>6, <1>8, <1>10, <1>11, <1>12 DEF n

\* A follow-up issue's other fields change.
LEMMA DraftsSame ==
  ASSUME FollowInv, UNCHANGED <<merged, harvestedL, harvests, hrun>>, followups' \in Seq(FollowUpIssues),
         DOMAIN followups' = DOMAIN followups,
         \A i \in DOMAIN followups : followups'[i].marks = followups[i].marks /\ followups'[i].epicOf = followups[i].epicOf
  PROVE  /\ Drafted' = Drafted /\ Len(followups') = Len(followups)
         /\ \A h : TerminalFor(h)' = TerminalFor(h) /\ EpicsOf(h)' = EpicsOf(h)
         /\ IssuesFit' /\ DraftsFit' /\ HarvestFits' /\ (trun' = trun => TriageFits')
<1>1. followups \in Seq(FollowUpIssues) /\ Len(followups') = Len(followups) /\ Len(followups) \in Nat
      /\ DOMAIN followups = 1 .. Len(followups)
  BY DEF FollowInv, FollowTyped
<1>2. \A f : f \in Drafted' <=> f \in Drafted
  <2>1. \A f : f \in MarksOf(followups') <=> f \in MarksOf(followups)
    BY <1>1, MarksAre
  <2> QED
    BY <2>1 DEF Drafted, MarksOf
<1>3. Drafted' = Drafted /\ AllMarks' = AllMarks
  BY <1>2 DEF AllMarks
<1>4. \A h : TerminalFor(h)' = TerminalFor(h)
  <2>1. \A h : TerminalFor(h)' = Drafted' \cup harvests[h].results
    BY DEF TerminalFor, Drafted, MarksOf, ResultsOf
  <2> QED
    BY <1>3, <2>1, TerminalIs
<1>5. \A h : EpicsOf(h)' = EpicsOf(h)
  BY DEF EpicsOf
<1>6. \A pr : RecordedPr(pr)' <=> RecordedPr(pr)
  BY <1>3 DEF RecordedPr
<1>7. IssuesFit' /\ DraftsFit'
  BY <1>3, <1>4, <1>6 DEF FollowInv, IssuesFit, DraftsFit
<1>8. HarvestFits'
  BY <1>3, <1>6 DEF FollowInv, HarvestFits
<1>9. ASSUME trun' = trun PROVE TriageFits'
  <2>1. trun.step = "link" => followups' # <<>>
    BY <1>1 DEF FollowInv, TriageFits
  <2> QED
    BY <1>1, <1>3, <1>4, <1>5, <1>9, <2>1 DEF FollowInv, TriageFits, ProposalFits, PublishFits, Publishing, IsCreated, Claimed
<1> QED
  BY <1>1, <1>3, <1>4, <1>5, <1>7, <1>8, <1>9

LEMMA DecideKeeps == FollowInv /\ (\E i \in DOMAIN followups : Decide(i)) => FollowInv'
<1> SUFFICES ASSUME FollowInv, NEW k \in DOMAIN followups, Decide(k) PROVE FollowInv'
  OBVIOUS
<1> DEFINE e == [followups[k] EXCEPT !.proposed = FALSE]
<1>1. followups' = [followups EXCEPT ![k] = e] /\ UNCHANGED <<merged, harvestedL, harvests, hrun, trun, failures>>
  BY Zenon DEF Decide
<1>2. followups \in Seq(FollowUpIssues) /\ followups[k] \in FollowUpIssues
  BY DEF FollowInv, FollowTyped
<1>3. e \in FollowUpIssues /\ e.marks = followups[k].marks /\ e.epicOf = followups[k].epicOf
  BY <1>2 DEF FollowUpIssues
<1> HIDE DEF e
<1>4. /\ followups' \in Seq(FollowUpIssues) /\ DOMAIN followups' = DOMAIN followups
      /\ followups'[k] = e /\ \A i \in DOMAIN followups \ {k} : followups'[i] = followups[i]
  BY <1>1, <1>2, <1>3, IssueChanged
<1>5. \A i \in DOMAIN followups : followups'[i].marks = followups[i].marks /\ followups'[i].epicOf = followups[i].epicOf
  BY <1>3, <1>4
<1>6. IssuesFit' /\ DraftsFit' /\ HarvestFits' /\ TriageFits'
  BY <1>1, <1>4, <1>5, DraftsSame
<1>7. FollowTyped'
  BY <1>1, <1>4 DEF FollowInv, FollowTyped
<1> QED
  BY <1>6, <1>7 DEF FollowInv

\* The run moves to its next step.
LEMMA TriageMoves ==
  ASSUME trun \in TriageRuns, NEW st \in TriageSteps, NEW nx \in Nat, NEW ep \in Nat,
         trun' = [trun EXCEPT !.step = st] \/ trun' = [trun EXCEPT !.step = st, !.next = nx]
           \/ trun' = [trun EXCEPT !.step = st, !.epic = ep]
  PROVE  /\ trun' \in TriageRuns /\ trun'.step = st /\ trun'.h = trun.h /\ trun'.drafts = trun.drafts
         /\ trun'.rejected = trun.rejected
         /\ trun' = [trun EXCEPT !.step = st] => trun'.next = trun.next /\ trun'.epic = trun.epic
         /\ trun' = [trun EXCEPT !.step = st, !.next = nx] => trun'.next = nx /\ trun'.epic = trun.epic
         /\ trun' = [trun EXCEPT !.step = st, !.epic = ep] => trun'.next = trun.next /\ trun'.epic = ep
<1>1. CASE trun' = [trun EXCEPT !.step = st]
  BY <1>1 DEF TriageRuns
<1>2. CASE trun' = [trun EXCEPT !.step = st, !.next = nx]
  BY <1>2 DEF TriageRuns
<1>3. CASE trun' = [trun EXCEPT !.step = st, !.epic = ep]
  BY <1>3 DEF TriageRuns
<1> QED
  BY <1>1, <1>2, <1>3

LEMMA AddSubIssueKeeps == FollowInv /\ AddSubIssue => FollowInv'
<1> SUFFICES ASSUME FollowInv, AddSubIssue PROVE FollowInv'
  OBVIOUS
<1> DEFINE k == Len(followups)
           e == [followups[k] EXCEPT !.parent = trun.epic]
<1>1. /\ followups' = [followups EXCEPT ![k] = e] /\ UNCHANGED <<merged, harvestedL, harvests, hrun>>
      /\ \/ trun' = [trun EXCEPT !.step = "draft", !.next = @ + 1] /\ failures' = failures
         \/ trun' = [trun EXCEPT !.step = "failed"] /\ failures' = failures + 1
  BY Zenon DEF AddSubIssue, Answered, Fault
<1>2. /\ trun.step = "link" /\ followups # <<>> /\ followups \in Seq(FollowUpIssues) /\ trun \in TriageRuns
      /\ ProposalFits /\ PublishFits /\ failures \in Nat
  BY DEF AddSubIssue, FollowInv, FollowTyped, TriageFits, Publishing
<1>3. k \in DOMAIN followups /\ followups[k] \in FollowUpIssues
  BY <1>2
<1>4. e \in FollowUpIssues /\ e.marks = followups[k].marks /\ e.epicOf = followups[k].epicOf
  BY <1>2, <1>3 DEF FollowUpIssues, TriageRuns
<1> HIDE DEF e, k
<1>5. /\ followups' \in Seq(FollowUpIssues) /\ DOMAIN followups' = DOMAIN followups
      /\ followups'[k] = e /\ \A i \in DOMAIN followups \ {k} : followups'[i] = followups[i]
  BY <1>1, <1>2, <1>3, <1>4, IssueChanged
<1>6. \A i \in DOMAIN followups : followups'[i].marks = followups[i].marks /\ followups'[i].epicOf = followups[i].epicOf
  BY <1>4, <1>5
<1>7. /\ Drafted' = Drafted /\ Len(followups') = Len(followups) /\ (\A h : TerminalFor(h)' = TerminalFor(h))
      /\ IssuesFit' /\ DraftsFit' /\ HarvestFits'
  BY <1>1, <1>5, <1>6, DraftsSame
<1>8. /\ trun' \in TriageRuns /\ trun'.h = trun.h /\ trun'.drafts = trun.drafts /\ trun'.rejected = trun.rejected
      /\ trun'.epic = trun.epic /\ failures' \in Nat
      /\ trun'.step = "failed" \/ (trun'.step = "draft" /\ trun'.next = trun.next + 1)
  <2>1. CASE trun' = [trun EXCEPT !.step = "failed"] /\ failures' = failures + 1
    BY <1>2, <2>1 DEF TriageRuns, TriageSteps
  <2>2. CASE trun' = [trun EXCEPT !.step = "draft", !.next = @ + 1] /\ failures' = failures
    <3>1. trun.next + 1 \in Nat /\ "draft" \in TriageSteps
      BY <1>2 DEF TriageRuns, TriageSteps
    <3>2. trun' = [trun EXCEPT !.step = "draft", !.next = trun.next + 1]
      BY <2>2, Zenon
    <3>3. /\ trun' \in TriageRuns /\ trun'.step = "draft" /\ trun'.h = trun.h /\ trun'.drafts = trun.drafts
          /\ trun'.rejected = trun.rejected /\ trun'.next = trun.next + 1 /\ trun'.epic = trun.epic
      BY <1>2, <3>1, <3>2, TriageMoves, 0 \in Nat, Zenon
    <3> QED
      BY <1>2, <2>2, <3>3
  <2> QED
    BY <1>1, <2>1, <2>2
<1>9. TerminalFor(trun.h)' = TerminalFor(trun.h)
  BY <1>7, <1>8 DEF TerminalFor, ResultsOf
<1>10. ProposalFits'
  <2>1. trun'.epic \in 0 .. Len(followups')
    BY <1>2, <1>7, <1>8 DEF ProposalFits
  <2> QED
    BY <1>1, <1>2, <1>8, <1>9, <2>1, ProposalKept
<1>11. CASE trun'.step = "failed"
  <2>1. TriageFits'
    BY <1>10, <1>11 DEF TriageFits, Publishing
  <2> QED
    BY <1>1, <1>5, <1>7, <1>8, <2>1 DEF FollowInv, FollowTyped
<1>12. CASE trun'.step = "draft" /\ trun'.next = trun.next + 1
  <2>1. trun.next \in Nat /\ \A i \in DOMAIN trun.drafts : i \in Nat
    BY <1>2 DEF TriageRuns
  <2>2. \A i \in DOMAIN trun.drafts : IsCreated(i)' <=> IsCreated(i)
    BY <1>2, <1>12, <2>1 DEF IsCreated
  <2>3. PublishFits'
    BY <1>2, <1>7, <1>8, <1>9, <1>12, <2>1, <2>2 DEF PublishFits
  <2>4. TriageFits'
    BY <1>10, <1>12, <2>3 DEF TriageFits
  <2> QED
    BY <1>1, <1>5, <1>7, <1>8, <2>4 DEF FollowInv, FollowTyped
<1> QED
  BY <1>8, <1>11, <1>12


-----------------------------------------------------------------------------
\* The proposal after a follow-up issue was created.
LEMMA PublishedOn ==
  ASSUME FollowInv, trun.step # "idle", UNCHANGED <<merged, harvestedL, harvests, hrun>>, NEW m \in SUBSET AllFindings, NEW o \in Nat,
         followups' = Append(followups, FollowUp(m, o)), m \subseteq AllMarks, m \cap Drafted = {},
         \A h \in DOMAIN harvests : harvests[h].results \cap m = {}, o # 0 => EpicsOf(o) = {},
         trun' \in TriageRuns, trun'.h = trun.h, trun'.drafts = trun.drafts, trun'.rejected = trun.rejected,
         trun'.epic \in 0 .. Len(followups'), failures' \in Nat
  PROVE  /\ ProposalFits' /\ Drafted' = Drafted \cup m /\ followups' # <<>>
         /\ \A f \in TerminalFor(trun.h)' : f \in TerminalFor(trun.h) \/ f \in m
         /\ TriageFits' => FollowInv'
<1>1. /\ followups' \in Seq(FollowUpIssues) /\ followups' # <<>> /\ Drafted' = Drafted \cup m
      /\ \A h : TerminalFor(h) \subseteq TerminalFor(h)'
      /\ \A h \in DOMAIN harvests : \A f \in TerminalFor(h)' : f \in TerminalFor(h) \/ f \in m
      /\ IssuesFit' /\ DraftsFit' /\ HarvestFits'
  BY IssuePublished
<1>2. ProposalFits
  BY DEF FollowInv, TriageFits
<1>3. /\ TerminalFor(trun.h) \subseteq TerminalFor(trun.h)'
      /\ \A f \in TerminalFor(trun.h)' : f \in TerminalFor(trun.h) \/ f \in m
  <2>1. trun.h \in DOMAIN harvests
    BY <1>2 DEF ProposalFits
  <2>2. TerminalFor(trun.h) = Drafted \cup harvests[trun.h].results
    BY TerminalIs
  <2>3. TerminalFor(trun.h)' = Drafted' \cup harvests[trun.h].results
    BY DEF TerminalFor, Drafted, MarksOf, ResultsOf
  <2> QED
    BY <1>1, <2>2, <2>3
<1>4. ProposalFits'
  BY <1>2, <1>3, ProposalKept
<1>5. FollowTyped'
  BY <1>1 DEF FollowInv, FollowTyped
<1> QED
  BY <1>1, <1>3, <1>4, <1>5 DEF FollowInv

LEMMA CreateEpicKeeps == FollowInv /\ CreateEpic => FollowInv'
<1> SUFFICES ASSUME FollowInv, CreateEpic PROVE FollowInv'
  OBVIOUS
<1>1. /\ trun.step = "epic" /\ trun.next = 1 /\ trun \in TriageRuns /\ ProposalFits /\ PublishFits /\ failures \in Nat
      /\ followups \in Seq(FollowUpIssues) /\ UNCHANGED <<merged, harvestedL, harvests, hrun>>
      /\ (trun.epic = 0 => EpicsOf(trun.h) = {}) /\ Len(followups) \in Nat /\ harvests \in Seq(HarvestIssues)
  BY DEF CreateEpic, FollowInv, FollowTyped, TriageFits, Publishing
<1>2. "draft" \in TriageSteps /\ "failed" \in TriageSteps
  BY DEF TriageSteps
<1>3. \A i \in DOMAIN trun.drafts : ~IsCreated(i)
  BY <1>1 DEF IsCreated, TriageRuns
<1>4. CASE trun.epic # 0 /\ trun' = [trun EXCEPT !.step = "draft"] /\ UNCHANGED <<followups, failures>>
  <2>1. /\ trun' \in TriageRuns /\ trun'.step = "draft" /\ trun'.h = trun.h /\ trun'.drafts = trun.drafts
        /\ trun'.rejected = trun.rejected /\ trun'.next = trun.next /\ trun'.epic = trun.epic
    BY <1>1, <1>2, <1>4, TriageMoves, 0 \in Nat
  <2>2. TerminalFor(trun.h)' = TerminalFor(trun.h) /\ Drafted' = Drafted /\ trun'.epic \in 0 .. Len(followups')
    BY <1>1, <1>4, <2>1 DEF TerminalFor, ResultsOf, Drafted, MarksOf, ProposalFits
  <2>3. ProposalFits'
    BY <1>1, <2>1, <2>2, ProposalKept
  <2>4. \A i \in DOMAIN trun.drafts : ~IsCreated(i)'
    BY <1>1, <2>1 DEF IsCreated, TriageRuns
  <2>5. PublishFits'
    BY <1>1, <1>3, <2>1, <2>2, <2>4 DEF PublishFits
  <2>6. TriageFits'
    BY <2>1, <2>3, <2>5 DEF TriageFits
  <2> QED
    BY <1>1, <1>4, <2>1, <2>6, TriageOnly
<1>5. CASE /\ trun.epic = 0 /\ followups' = Append(followups, FollowUp({}, trun.h))
           /\ Answered([trun EXCEPT !.step = "draft", !.epic = Len(followups')])
  <2>1. Len(followups') = Len(followups) + 1 /\ trun.h \in Nat /\ trun.h # 0 /\ {} \in SUBSET AllFindings
        /\ trun.epic \in 0 .. Len(followups') /\ Len(followups') \in Nat
    BY <1>1, <1>5 DEF ProposalFits
  <2>2. \/ trun' = [trun EXCEPT !.step = "draft", !.epic = Len(followups')] /\ failures' = failures
        \/ trun' = [trun EXCEPT !.step = "failed"] /\ failures' = failures + 1
    BY <1>5 DEF Answered, Fault
  <2>3. /\ trun' \in TriageRuns /\ trun'.h = trun.h /\ trun'.drafts = trun.drafts /\ trun'.rejected = trun.rejected
        /\ trun'.step = "failed" \/ (trun'.step = "draft" /\ trun'.next = 1)
        /\ trun'.epic \in 0 .. Len(followups') /\ failures' \in Nat
    <3>1. CASE trun' = [trun EXCEPT !.step = "draft", !.epic = Len(followups')] /\ failures' = failures
      <4>1. /\ trun' \in TriageRuns /\ trun'.step = "draft" /\ trun'.h = trun.h /\ trun'.drafts = trun.drafts
            /\ trun'.rejected = trun.rejected /\ trun'.next = trun.next /\ trun'.epic = Len(followups')
        BY <1>1, <1>2, <2>1, <3>1, TriageMoves, 0 \in Nat, Zenon
      <4> QED
        BY <1>1, <2>1, <3>1, <4>1
    <3>2. CASE trun' = [trun EXCEPT !.step = "failed"] /\ failures' = failures + 1
      <4>1. /\ trun' \in TriageRuns /\ trun'.step = "failed" /\ trun'.h = trun.h /\ trun'.drafts = trun.drafts
            /\ trun'.rejected = trun.rejected /\ trun'.epic = trun.epic
        BY <1>1, <1>2, <3>2, TriageMoves, 0 \in Nat, Zenon
      <4> QED
        BY <1>1, <2>1, <3>2, <4>1
    <3> QED
      BY <2>2, <3>1, <3>2
  <2>4. /\ ProposalFits' /\ Drafted' = Drafted
        /\ \A f \in TerminalFor(trun.h)' : f \in TerminalFor(trun.h)
        /\ TriageFits' => FollowInv'
    BY <1>1, <1>5, <2>1, <2>3, PublishedOn
  <2>5. CASE trun'.step = "failed"
    BY <2>4, <2>5 DEF TriageFits, Publishing
  <2>6. CASE trun'.step = "draft" /\ trun'.next = 1
    <3>1. \A i \in DOMAIN trun.drafts : ~IsCreated(i)'
      BY <1>1, <2>6 DEF IsCreated, TriageRuns
    <3>2. PublishFits'
      BY <1>1, <1>3, <2>3, <2>4, <2>6, <3>1 DEF PublishFits
    <3> QED
      BY <2>4, <2>6, <3>2 DEF TriageFits
  <2> QED
    BY <2>3, <2>5, <2>6
<1> QED
  BY <1>4, <1>5 DEF CreateEpic

LEMMA CreateDraftKeeps == FollowInv /\ CreateDraft => FollowInv'
<1> SUFFICES ASSUME FollowInv, CreateDraft PROVE FollowInv'
  OBVIOUS
<1> DEFINE m == trun.drafts[trun.next]
<1>1. /\ trun.step = "draft" /\ trun.next <= Len(trun.drafts) /\ trun \in TriageRuns /\ ProposalFits /\ PublishFits
      /\ failures \in Nat /\ UNCHANGED <<merged, harvestedL, harvests, hrun>>
      /\ harvests \in Seq(HarvestIssues) /\ followups \in Seq(FollowUpIssues) /\ IssuesFit
      /\ followups' = Append(followups, FollowUp(m, 0))
  BY DEF CreateDraft, FollowInv, FollowTyped, TriageFits, Publishing
<1>2. /\ trun.drafts \in Seq(SUBSET AllFindings) /\ trun.next \in Nat /\ trun.next >= 1 /\ trun.next \in DOMAIN trun.drafts
      /\ \A i \in DOMAIN trun.drafts : i \in Nat
  BY <1>1 DEF TriageRuns, PublishFits
<1>3. m \in SUBSET AllFindings /\ m \subseteq Claimed /\ m \cap TerminalFor(trun.h) = {}
  <2>1. ~IsCreated(trun.next)
    BY <1>1, <1>2 DEF IsCreated
  <2> QED
    BY <1>1, <1>2, <2>1, ClaimedIs DEF PublishFits
<1>4. /\ m \cap trun.rejected = {}
      /\ \A i \in DOMAIN trun.drafts : i # trun.next => trun.drafts[i] \cap m = {}
  BY <1>1, <1>2 DEF ProposalFits
<1> HIDE DEF m
<1>5. m \subseteq harvests[trun.h].marks /\ trun.h \in DOMAIN harvests
  BY <1>1, <1>3 DEF ProposalFits, IssuesFit
<1>6. m \subseteq AllMarks
  BY <1>1, <1>5, MarksAre DEF AllMarks
<1>7. m \cap Drafted = {} /\ harvests[trun.h].results \cap m = {}
  BY <1>3, TerminalIs
<1>8. \A h \in DOMAIN harvests : harvests[h].results \cap m = {}
  BY <1>1, <1>5, <1>7 DEF IssuesFit
<1>9. /\ \/ trun' = [trun EXCEPT !.step = IF trun.epic # 0 THEN "link" ELSE "draft",
                                 !.next = IF trun.epic # 0 THEN @ ELSE @ + 1] /\ failures' = failures
         \/ trun' = [trun EXCEPT !.step = "failed"] /\ failures' = failures + 1
  BY DEF CreateDraft, Answered, Fault
<1>10. /\ trun' \in TriageRuns /\ trun'.h = trun.h /\ trun'.drafts = trun.drafts /\ trun'.rejected = trun.rejected
       /\ trun'.epic = trun.epic /\ failures' \in Nat
       /\ \/ trun'.step = "failed"
          \/ trun'.step = "link" /\ trun'.next = trun.next
          \/ trun'.step = "draft" /\ trun'.next = trun.next + 1
  <2>1. "draft" \in TriageSteps /\ "link" \in TriageSteps /\ "failed" \in TriageSteps /\ trun.next + 1 \in Nat /\ 0 \in Nat
    BY <1>2 DEF TriageSteps
  <2>2. CASE trun' = [trun EXCEPT !.step = "failed"] /\ failures' = failures + 1
    <3>1. /\ trun' \in TriageRuns /\ trun'.step = "failed" /\ trun'.h = trun.h /\ trun'.drafts = trun.drafts
          /\ trun'.rejected = trun.rejected /\ trun'.epic = trun.epic
      BY <1>1, <2>1, <2>2, TriageMoves, Zenon
    <3> QED
      BY <1>1, <2>2, <3>1
  <2>3. CASE trun' = [trun EXCEPT !.step = "link", !.next = trun.next] /\ failures' = failures
    BY <1>1, <1>2, <2>1, <2>3, TriageMoves
  <2>4. CASE trun' = [trun EXCEPT !.step = "draft", !.next = trun.next + 1] /\ failures' = failures
    <3>1. /\ trun' \in TriageRuns /\ trun'.step = "draft" /\ trun'.h = trun.h /\ trun'.drafts = trun.drafts
          /\ trun'.rejected = trun.rejected /\ trun'.next = trun.next + 1 /\ trun'.epic = trun.epic
      BY <1>1, <2>1, <2>4, TriageMoves, Zenon
    <3> QED
      BY <1>1, <2>4, <3>1
  <2> QED
    BY <1>9, <2>2, <2>3, <2>4
<1>11. trun'.epic \in 0 .. Len(followups')
  <2>1. Len(followups') = Len(followups) + 1 /\ Len(followups) \in Nat
    BY <1>1
  <2> QED
    BY <1>1, <1>10, <2>1 DEF ProposalFits
<1>12. /\ ProposalFits' /\ Drafted' = Drafted \cup m /\ followups' # <<>>
       /\ \A f \in TerminalFor(trun.h)' : f \in TerminalFor(trun.h) \/ f \in m
       /\ TriageFits' => FollowInv'
  BY <1>1, <1>3, <1>6, <1>7, <1>8, <1>10, <1>11, PublishedOn, 0 \in Nat
<1>13. CASE trun'.step = "failed"
  BY <1>12, <1>13 DEF TriageFits, Publishing
<1>14. CASE (trun'.step = "link" /\ trun'.next = trun.next) \/ (trun'.step = "draft" /\ trun'.next = trun.next + 1)
  <2>1. \A i \in DOMAIN trun.drafts : IsCreated(i)' <=> IsCreated(i) \/ i = trun.next
    BY <1>1, <1>2, <1>14 DEF IsCreated
  <2>2. ASSUME NEW i \in DOMAIN trun.drafts
        PROVE  IF IsCreated(i)' THEN trun.drafts[i] \subseteq Drafted' ELSE trun.drafts[i] \cap TerminalFor(trun.h)' = {}
    <3>1. CASE i = trun.next
      BY <1>12, <2>1, <3>1 DEF m
    <3>2. CASE i # trun.next
      BY <1>1, <1>4, <1>12, <2>1, <3>2 DEF PublishFits
    <3> QED
      BY <3>1, <3>2
  <2>3. trun.rejected \cap TerminalFor(trun.h)' = {} /\ trun'.next >= 1
    BY <1>1, <1>2, <1>4, <1>12, <1>14 DEF PublishFits
  <2>4. PublishFits'
    BY <1>10, <2>2, <2>3 DEF PublishFits
  <2>5. TriageFits'
    BY <1>12, <1>14, <2>4 DEF TriageFits
  <2> QED
    BY <1>12, <2>5
<1> QED
  BY <1>10, <1>13, <1>14


\* The rejections are published: the harvest issue's results grow.
LEMMA CreateCommentKeeps == FollowInv /\ CreateComment => FollowInv'
<1> SUFFICES ASSUME FollowInv, CreateComment PROVE FollowInv'
  OBVIOUS
<1> DEFINE k == trun.h
           e == [harvests[k] EXCEPT !.results = harvests[k].results \cup trun.rejected]
<1>1. /\ trun.step = "draft" /\ trun.next > Len(trun.drafts) /\ trun \in TriageRuns /\ ProposalFits /\ PublishFits
      /\ failures \in Nat /\ UNCHANGED <<merged, harvestedL, followups, hrun>>
      /\ harvests \in Seq(HarvestIssues) /\ IssuesFit /\ k \in DOMAIN harvests
  BY DEF CreateComment, FollowInv, FollowTyped, TriageFits, Publishing, ProposalFits
<1>2. harvests' = [harvests EXCEPT ![k] = e]
  <2>1. harvests' = [harvests EXCEPT ![k].results = @ \cup trun.rejected]
    BY DEF CreateComment
  <2> QED
    BY <2>1, Zenon
<1>3. harvests[k] \in HarvestIssues /\ trun.rejected \subseteq Claimed /\ Claimed \subseteq harvests[k].block
  BY <1>1 DEF ProposalFits, Claimed
<1>4. trun.rejected \cap Drafted = {}
  BY <1>1, TerminalIs DEF PublishFits
<1>5. /\ e \in HarvestIssues /\ e.results = harvests[k].results \cup trun.rejected /\ e.marks = harvests[k].marks
      /\ e.block = harvests[k].block /\ e.prs = harvests[k].prs /\ e.ready = harvests[k].ready /\ e.open = harvests[k].open
  <2>1. trun.rejected \subseteq AllFindings
    BY <1>1 DEF TriageRuns
  <2> QED
    BY <1>3, <2>1 DEF HarvestIssues
<1> HIDE DEF e
<1>6. /\ harvests' \in Seq(HarvestIssues) /\ Len(harvests') = Len(harvests) /\ DOMAIN harvests' = DOMAIN harvests
      /\ harvests'[k] = e /\ (\A h \in DOMAIN harvests \ {k} : harvests'[h] = harvests[h])
      /\ MarksOf(harvests') = MarksOf(harvests)
  <2>1. PICK h \in DOMAIN harvests : h = k
    BY <1>1
  <2>2. harvests' = [harvests EXCEPT ![h] = e] /\ e.marks = harvests[h].marks
    BY <1>2, <1>5, <2>1
  <2>3. /\ harvests' \in Seq(HarvestIssues) /\ Len(harvests') = Len(harvests) /\ DOMAIN harvests' = DOMAIN harvests
        /\ harvests'[h] = e /\ (\A g \in DOMAIN harvests \ {h} : harvests'[g] = harvests[g])
    BY <1>1, <1>5, <2>2, IssueChanged
  <2>4. \A g \in DOMAIN harvests : harvests'[g].marks = harvests[g].marks
    BY <2>2, <2>3
  <2>5. \A f : f \in MarksOf(harvests') <=> f \in MarksOf(harvests)
    <3>1. \A f : f \in MarksOf(harvests') <=> \E g \in DOMAIN harvests' : f \in harvests'[g].marks
      BY <2>3, MarksAre
    <3>2. \A f : f \in MarksOf(harvests) <=> \E g \in DOMAIN harvests : f \in harvests[g].marks
      BY <1>1, MarksAre
    <3> QED
      BY <2>3, <2>4, <3>1, <3>2
  <2>6. MarksOf(harvests') = MarksOf(harvests)
    BY <2>5
  <2> QED
    BY <2>1, <2>3, <2>6
<1>7. AllMarks' = AllMarks /\ Drafted' = Drafted /\ \A pr : RecordedPr(pr)' <=> RecordedPr(pr)
  BY <1>1, <1>6 DEF AllMarks, Drafted, MarksOf, RecordedPr
<1>8. \A h : TerminalFor(h)' = Drafted \cup harvests'[h].results
  <2>1. \A h : TerminalFor(h)' = Drafted' \cup harvests'[h].results
    BY DEF TerminalFor, Drafted, MarksOf, ResultsOf
  <2> QED
    BY <1>7, <2>1
<1>9. \A h \in DOMAIN harvests : TerminalFor(h) \subseteq TerminalFor(h)'
  BY <1>5, <1>6, <1>8, TerminalIs
<1>10. \A h \in DOMAIN harvests : /\ harvests'[h].marks = harvests[h].marks /\ harvests'[h].block = harvests[h].block
                                  /\ harvests'[h].prs = harvests[h].prs /\ harvests'[h].ready = harvests[h].ready
                                  /\ harvests'[h].open = harvests[h].open
  BY <1>5, <1>6
<1>11. IssuesFit'
  <2>1. ASSUME NEW h \in DOMAIN harvests
        PROVE  harvests'[h].results \subseteq harvests'[h].block /\ harvests'[h].results \cap Drafted' = {}
    <3>1. harvests[h].results \subseteq harvests[h].block /\ harvests[h].results \cap Drafted = {}
      BY <1>1 DEF IssuesFit
    <3>2. CASE h = k
      BY <1>3, <1>4, <1>5, <1>6, <1>7, <3>1, <3>2
    <3>3. CASE h # k
      BY <1>6, <1>7, <3>1, <3>3
    <3> QED
      BY <3>2, <3>3
  <2>2. ASSUME NEW h \in DOMAIN harvests
        PROVE  /\ harvests'[h].block \subseteq harvests'[h].marks
               /\ harvests'[h].prs \subseteq merged' /\ (\A pr \in harvests'[h].prs : RecordedPr(pr)')
               /\ (~harvests'[h].ready \/ ~harvests'[h].open => harvests'[h].block \subseteq TerminalFor(h)')
    BY <1>1, <1>7, <1>9, <1>10 DEF IssuesFit
  <2>3. \A g, h \in DOMAIN harvests' : g # h => harvests'[g].marks \cap harvests'[h].marks = {}
    BY <1>1, <1>6, <1>10 DEF IssuesFit
  <2> QED
    BY <1>6, <2>1, <2>2, <2>3 DEF IssuesFit
<1>12. DraftsFit'
  BY <1>1, <1>7 DEF FollowInv, DraftsFit
<1>13. HarvestFits'
  <2>1. hrun.step = "close" => harvests' # <<>> /\ harvests'[Len(harvests')].block = {}
    <3>1. Len(harvests) \in Nat /\ DOMAIN harvests = 1 .. Len(harvests)
      BY <1>1
    <3> QED
      BY <1>1, <1>6, <1>10, <3>1 DEF FollowInv, HarvestFits
  <2> QED
    BY <1>1, <1>7, <2>1 DEF FollowInv, HarvestFits
<1>14. /\ trun' \in TriageRuns /\ trun'.h = trun.h /\ trun'.drafts = trun.drafts /\ trun'.rejected = trun.rejected
       /\ trun'.epic = trun.epic /\ failures' \in Nat /\ trun'.step \in {"unready", "failed"}
  <2>1. "unready" \in TriageSteps /\ "failed" \in TriageSteps
    BY DEF TriageSteps
  <2>2. PICK st \in {"unready", "failed"} : trun' = [trun EXCEPT !.step = st]
    BY DEF CreateComment, Answered
  <2>3. failures' \in Nat
    BY <1>1 DEF CreateComment, Answered, Fault
  <2>4. /\ trun' \in TriageRuns /\ trun'.step = st /\ trun'.h = trun.h /\ trun'.drafts = trun.drafts
        /\ trun'.rejected = trun.rejected /\ trun'.epic = trun.epic
    BY <1>1, <2>1, <2>2, TriageMoves, 0 \in Nat
  <2> QED
    BY <2>2, <2>3, <2>4
<1>15. TerminalFor(k) \subseteq TerminalFor(k)' /\ TerminalFor(k)' = Drafted \cup harvests[k].results \cup trun.rejected
  <2>1. TerminalFor(k)' = Drafted' \cup harvests'[trun'.h].results
    BY DEF TerminalFor, Drafted, MarksOf, ResultsOf
  <2>2. harvests'[trun'.h] = e
    BY <1>6, <1>14
  <2> QED
    BY <1>5, <1>7, <2>1, <2>2, TerminalIs
<1>16. ProposalFits'
  <2>1. trun'.epic \in 0 .. Len(followups')
    BY <1>1, <1>14 DEF ProposalFits
  <2>2. harvests'[k].block = harvests[k].block
    BY <1>5, <1>6
  <2> QED
    BY <1>1, <1>6, <1>14, <1>15, <2>1, <2>2, ProposalKept
<1>17. Claimed' \subseteq TerminalFor(k)'
  <2>1. Claimed' = Claimed
    BY <1>14 DEF Claimed
  <2>2. \A i \in DOMAIN trun.drafts : IsCreated(i)
    BY <1>1 DEF IsCreated, TriageRuns
  <2>3. \A i \in DOMAIN trun.drafts : trun.drafts[i] \subseteq Drafted
    BY <1>1, <2>2 DEF PublishFits
  <2> QED
    BY <1>15, <2>1, <2>3, ClaimedIs
<1>18. TriageFits'
  BY <1>14, <1>16, <1>17 DEF TriageFits, Publishing
<1>19. FollowTyped'
  BY <1>1, <1>6, <1>14 DEF FollowInv, FollowTyped
<1> QED
  BY <1>11, <1>12, <1>13, <1>18, <1>19 DEF FollowInv

LEMMA RemoveReadyKeeps == FollowInv /\ RemoveReady => FollowInv'
<1> SUFFICES ASSUME FollowInv, RemoveReady PROVE FollowInv'
  OBVIOUS
<1> DEFINE k == trun.h
<1>1. /\ trun.step = "unready" /\ trun \in TriageRuns /\ ProposalFits /\ Claimed \subseteq TerminalFor(k)
      /\ failures \in Nat /\ UNCHANGED <<merged, harvestedL, followups, hrun>> /\ k \in DOMAIN harvests
      /\ harvests' = [harvests EXCEPT ![k].ready = FALSE]
  BY DEF RemoveReady, FollowInv, FollowTyped, TriageFits, ProposalFits
<1>2. harvests[k].block \subseteq TerminalFor(k)
  BY <1>1 DEF ProposalFits
<1>3. PICK h \in DOMAIN harvests : h = k
  BY <1>1
<1>4. harvests' = [harvests EXCEPT ![h] = [harvests[h] EXCEPT !.ready = FALSE, !.open = harvests[h].open]]
      /\ harvests[h].open \in BOOLEAN
  BY <1>1, <1>3, FlagForms DEF FollowInv
<1>5. harvests[h].block \subseteq TerminalFor(h)
  BY <1>2, <1>3
<1>6. /\ DraftsFit' /\ IssuesFit' /\ harvests' \in Seq(HarvestIssues) /\ DOMAIN harvests' = DOMAIN harvests
      /\ (\A g \in DOMAIN harvests : TerminalFor(g)' = TerminalFor(g) /\ harvests'[g].block = harvests[g].block
                                     /\ harvests'[g].results = harvests[g].results)
      /\ HarvestFits'
  BY <1>1, <1>4, <1>5, FlagsChanged
<1>7. /\ trun' \in TriageRuns /\ trun'.h = trun.h /\ trun'.drafts = trun.drafts /\ trun'.rejected = trun.rejected
      /\ trun'.epic = trun.epic /\ failures' \in Nat /\ trun'.step \in {"closeH", "failed"}
  <2>1. "closeH" \in TriageSteps /\ "failed" \in TriageSteps
    BY DEF TriageSteps
  <2>2. PICK st \in {"closeH", "failed"} : trun' = [trun EXCEPT !.step = st]
    BY DEF RemoveReady, Answered
  <2>3. failures' \in Nat
    BY <1>1 DEF RemoveReady, Answered, Fault
  <2>4. /\ trun' \in TriageRuns /\ trun'.step = st /\ trun'.h = trun.h /\ trun'.drafts = trun.drafts
        /\ trun'.rejected = trun.rejected /\ trun'.epic = trun.epic
    BY <1>1, <2>1, <2>2, TriageMoves, 0 \in Nat
  <2> QED
    BY <2>2, <2>3, <2>4
<1>8. TerminalFor(k)' = TerminalFor(k)
  <2>1. harvests'[h].results = harvests[h].results
    BY <1>6
  <2>2. harvests'[trun'.h].results = harvests[trun.h].results
    BY <1>3, <1>7, <2>1
  <2> QED
    BY <1>1, <2>2 DEF TerminalFor, ResultsOf
<1>9. ProposalFits' /\ Claimed' = Claimed
  <2>1. trun'.epic \in 0 .. Len(followups')
    BY <1>1, <1>7 DEF ProposalFits
  <2>2. harvests'[trun.h].block = harvests[trun.h].block
    BY <1>1, <1>6
  <2> QED
    BY <1>1, <1>6, <1>7, <1>8, <2>1, <2>2, ProposalKept
<1>10. TriageFits'
  BY <1>1, <1>7, <1>8, <1>9 DEF TriageFits, Publishing
<1>11. FollowTyped'
  BY <1>1, <1>6, <1>7 DEF FollowInv, FollowTyped
<1> QED
  BY <1>6, <1>10, <1>11 DEF FollowInv

LEMMA CloseHarvestKeeps == FollowInv /\ CloseHarvest => FollowInv'
<1> SUFFICES ASSUME FollowInv, CloseHarvest PROVE FollowInv'
  OBVIOUS
<1>1. PICK k \in DOMAIN harvests : k = trun.h
  BY DEF CloseHarvest, FollowInv, TriageFits, ProposalFits
<1>2. /\ harvests' = [harvests EXCEPT ![k].open = FALSE] /\ UNCHANGED <<merged, harvestedL, followups, hrun, failures>>
      /\ trun' = TriageIdle /\ harvests[k].block \subseteq TerminalFor(k)
  BY <1>1 DEF CloseHarvest, FollowInv, TriageFits, ProposalFits
<1>3. harvests' = [harvests EXCEPT ![k] = [harvests[k] EXCEPT !.ready = harvests[k].ready, !.open = FALSE]]
      /\ harvests[k].ready \in BOOLEAN
  BY <1>2, FlagForms DEF FollowInv
<1>4. DraftsFit' /\ IssuesFit' /\ harvests' \in Seq(HarvestIssues) /\ HarvestFits'
  BY <1>2, <1>3, FlagsChanged
<1>5. TriageFits'
  BY <1>2, FollowRecords DEF TriageFits, Publishing
<1>6. FollowTyped'
  BY <1>2, <1>4, FollowRecords DEF FollowInv, FollowTyped
<1> QED
  BY <1>4, <1>5, <1>6 DEF FollowInv

-----------------------------------------------------------------------------
LEMMA FollowKept == FollowInv /\ [FollowNext]_followVars => FollowInv'
<1> SUFFICES ASSUME FollowInv, [FollowNext]_followVars PROVE FollowInv'
  OBVIOUS
<1>1. CASE HarvestStep
  BY <1>1, RunHarvestKeeps, CreateHarvestKeeps, CloseRecordOnlyKeeps, LabelKeeps DEF HarvestStep
<1>2. CASE TriageStep
  BY <1>2, PrepareKeeps, CheckLedgerKeeps, CreateEpicKeeps, CreateDraftKeeps, AddSubIssueKeeps, CreateCommentKeeps,
     RemoveReadyKeeps, CloseHarvestKeeps DEF TriageStep
<1>3. CASE Human
  BY <1>3, MergeKeeps, DecideKeeps, CloseByHandKeeps DEF Human
<1>4. CASE HarvestFails
  BY <1>4, HarvestFailsKeeps
<1>5. CASE RetryPublish
  BY <1>5, RetryPublishKeeps
<1>6. CASE TriageFails
  BY <1>6, TriageFailsKeeps
<1>7. CASE UNCHANGED followVars
  <2>1. FollowTyped'
    BY <1>7 DEF followVars, FollowInv, FollowTyped
  <2> QED
    BY <1>7, <2>1, IssuesKept DEF followVars, FollowInv
<1> QED
  BY <1>1, <1>2, <1>3, <1>4, <1>5, <1>6, <1>7 DEF FollowNext

LEMMA FollowInvMeans ==
  ASSUME FollowInv
  PROVE  FollowTypeOK /\ PublishedOnce /\ OneEpicPerHarvest /\ ClosedIsTriaged /\ LabelledIsRecorded
<1>1. /\ harvests \in Seq(HarvestIssues) /\ followups \in Seq(FollowUpIssues) /\ Len(harvests) \in Nat /\ Len(followups) \in Nat
      /\ IssuesFit /\ DraftsFit
  BY DEF FollowInv, FollowTyped
<1>2. FollowTypeOK
  <2>1. \A h \in DOMAIN harvests : harvests[h].marks \subseteq AllFindings /\ harvests[h].prs \subseteq merged
    <3>1. TAKE h \in DOMAIN harvests
    <3>2. harvests[h] \in HarvestIssues /\ harvests[h].prs \subseteq merged
      BY <1>1 DEF IssuesFit
    <3> QED
      BY <3>2 DEF HarvestIssues
  <2>2. trun.h \in 0 .. Len(harvests) /\ trun.epic \in 0 .. Len(followups)
    <3>1. CASE trun.step = "idle"
      BY <1>1, <3>1, FollowRecords DEF FollowInv, TriageFits
    <3>2. CASE trun.step # "idle"
      BY <1>1, <3>2 DEF FollowInv, TriageFits, ProposalFits
    <3> QED
      BY <3>1, <3>2
  <2> QED
    BY <2>1, <2>2 DEF FollowTypeOK, FollowInv, FollowTyped
<1>3. PublishedOnce
  <2> SUFFICES ASSUME NEW f \in AllFindings
               PROVE  Cardinality({i \in DOMAIN followups : f \in followups[i].marks})
                        + Cardinality({h \in DOMAIN harvests : f \in ResultsOf(h)}) <= 1
    BY DEF PublishedOnce
  <2> DEFINE D == {i \in DOMAIN followups : f \in followups[i].marks}
             R == {h \in DOMAIN harvests : f \in ResultsOf(h)}
  <2>1. \A i, j \in D : i = j
    BY <1>1 DEF DraftsFit
  <2>2. \A g, h \in R : g = h
    BY <1>1 DEF IssuesFit, ResultsOf
  <2>3. D = {} \/ R = {}
    <3>1. f \in Drafted => R = {}
      BY <1>1 DEF IssuesFit, ResultsOf
    <3>2. f \notin Drafted => D = {}
      BY <1>1, MarksAre DEF Drafted
    <3> QED
      BY <3>1, <3>2
  <2> HIDE DEF D, R
  <2>4. Cardinality(D) \in Nat /\ Cardinality(D) <= 1 /\ Cardinality(R) \in Nat /\ Cardinality(R) <= 1
    BY <2>1, <2>2, AtMostOne
  <2>5. Cardinality(D) + Cardinality(R) <= 1
    BY <2>3, <2>4, FS_EmptySet
  <2> QED
    BY <2>5 DEF D, R
<1>4. OneEpicPerHarvest
  <2> SUFFICES ASSUME NEW h \in DOMAIN harvests PROVE Cardinality(EpicsOf(h)) <= 1
    BY DEF OneEpicPerHarvest
  <2>1. \A i, j \in EpicsOf(h) : i = j
    BY <1>1 DEF DraftsFit, EpicsOf
  <2> QED
    BY <2>1, AtMostOne
<1>5. ClosedIsTriaged
  <2>1. \A h \in DOMAIN harvests : TerminalFor(h) \subseteq Terminal
    BY DEF TerminalFor, Terminal
  <2> QED
    BY <1>1, <2>1 DEF ClosedIsTriaged, IssuesFit
<1>6. LabelledIsRecorded
  <2> SUFFICES ASSUME NEW pr \in harvestedL, NEW f \in Found[pr]
               PROVE  Cardinality({h \in DOMAIN harvests : f \in harvests[h].marks}) = 1
    BY DEF LabelledIsRecorded
  <2> DEFINE M == {h \in DOMAIN harvests : f \in harvests[h].marks}
  <2>1. f \in AllMarks
    BY DEF FollowInv, HarvestFits, RecordedPr
  <2>2. PICK h \in DOMAIN harvests : f \in harvests[h].marks
    BY <1>1, <2>1, MarksAre DEF AllMarks
  <2>3. M = {h}
    BY <1>1, <2>2 DEF IssuesFit
  <2> QED
    BY <2>3, FS_Singleton
<1> QED
  BY <1>2, <1>3, <1>4, <1>5, <1>6

\* However often a run fails and starts again, a finding is published in one
\* draft or as one rejection, a harvest issue gets one epic and is closed when
\* all it holds has been published, and a labelled pull request has each of its
\* findings in one harvest issue.
THEOREM FindingsArePublishedOnce ==
  FollowSpec => [](PublishedOnce /\ OneEpicPerHarvest /\ ClosedIsTriaged /\ LabelledIsRecorded)
<1>1. FollowInv => PublishedOnce /\ OneEpicPerHarvest /\ ClosedIsTriaged /\ LabelledIsRecorded
  BY FollowInvMeans
<1> QED
  BY FollowInitially, FollowKept, <1>1, PTL DEF FollowSpec


-----------------------------------------------------------------------------
(* All the services at once.                                               *)

LEMMA PoolInvMeans ==
  PoolInv => ToldAfterCommit /\ CommittedIsTold /\ NothingIsLeaked /\ IdleIsClean
<1>1. PoolInv => ToldAfterCommit /\ CommittedIsTold
  BY DEF PoolInv, PoolTypes, Agrees, Happened, ToldAfterCommit, CommittedIsTold
<1>2. PoolInv => IdleIsClean /\ NothingIsLeaked
  BY DEF PoolInv, NothingLeft, Ownership, UnderWay, IdleIsClean, NothingIsLeaked
<1> QED
  BY <1>1, <1>2

LEMMA ParkedStart == ConnInit => ParkedFits
  BY DEF ConnInit, ParkedFits, Closed

LEMMA GwInvMeans ==
  GwInv => GwTypeOK /\ BilledIsCounted /\ ReservedNeedsACause /\ SlotsMatchRequests /\ GoneClientStopsProvider
<1>1. GwInv => GwTypeOK
  BY DEF GwInv, GwTypes, GwConns, GwTypeOK
<1>2. GwInv => BilledIsCounted
  BY DEF GwInv, CallFits, RowFits, BilledIsCounted, Conclusion
<1>3. GwInv => ReservedNeedsACause
  BY DEF GwInv, CallFits, RowFits, EndFits, ReservedNeedsACause
<1>4. GwInv => GoneClientStopsProvider
  <2> SUFFICES ASSUME GwInv, NEW c \in Calls, step[c] = "provider", conn[c] = "gone"
               PROVE  signal[c] = "raised" \/ (Streams(c) /\ signal[c] = "unset")
    BY DEF GoneClientStopsProvider
  <2> QED
    BY CallTypes DEF CallFits, ConnectionFits
<1> QED
  BY <1>1, <1>2, <1>3, <1>4 DEF GwInv

ServicesInv ==
    /\ FollowInv /\ GwInv /\ HubInv /\ FanoutInv /\ QueueInv
    /\ PoolInv /\ ParkedFits

\* In every stage the part that moves takes a step of its own, and the others rest.
LEMMA EveryServiceSteps ==
  [ServicesNext]_servicesVars =>
    /\ [FollowNext]_followVars /\ [GwNext]_gwVars /\ [HubNext]_hubVars /\ [PushNext]_pushVars
    /\ [QueueNext]_queueVars /\ [ConnNext]_connVars
<1> SUFFICES ASSUME [ServicesNext]_servicesVars
             PROVE  /\ [FollowNext]_followVars /\ [GwNext]_gwVars /\ [HubNext]_hubVars /\ [PushNext]_pushVars
                    /\ [QueueNext]_queueVars /\ [ConnNext]_connVars
  OBVIOUS
<1>1. CASE UNCHANGED servicesVars
  BY <1>1 DEF servicesVars
<1>2. CASE ServicesNext
  BY <1>2 DEF ServicesNext
<1> QED
  BY <1>1, <1>2

LEMMA ServicesInitially == ServicesInit => ServicesInv
  BY FollowInitially, GwInvInit, HubInitially, FanoutInitially, QueueInitially, PoolStart, ParkedStart
  DEF ServicesInit, ServicesInv

LEMMA ServicesKept == ServicesInv /\ [ServicesNext]_servicesVars => ServicesInv'
<1> SUFFICES ASSUME ServicesInv, [ServicesNext]_servicesVars PROVE ServicesInv'
  OBVIOUS
<1>1. /\ [FollowNext]_followVars /\ [GwNext]_gwVars /\ [HubNext]_hubVars /\ [PushNext]_pushVars
      /\ [QueueNext]_queueVars /\ [ConnNext]_connVars
  BY EveryServiceSteps
<1>2. FollowInv' /\ GwInv'
  BY <1>1, FollowKept, GwInvStep DEF ServicesInv
<1>3. HubInv' /\ FanoutInv'
  BY <1>1, HubKept, FanoutKept DEF ServicesInv
<1>4. QueueInv' /\ PoolInv' /\ ParkedFits'
  BY <1>1, QueueKept, PoolKept, ParkedKept DEF ServicesInv
<1> QED
  BY <1>2, <1>3, <1>4 DEF ServicesInv

LEMMA ServicesInvMeans == ServicesInv => ServicesAreSafe
<1> SUFFICES ASSUME ServicesInv PROVE ServicesAreSafe
  OBVIOUS
<1>1. FollowTypeOK /\ PublishedOnce /\ OneEpicPerHarvest /\ ClosedIsTriaged /\ LabelledIsRecorded
  BY FollowInvMeans DEF ServicesInv
<1>2. GwTypeOK /\ BilledIsCounted /\ ReservedNeedsACause /\ SlotsMatchRequests /\ GoneClientStopsProvider
  BY GwInvMeans DEF ServicesInv
<1>3. HubTypeOK /\ InvalidationsArrive /\ DeactivatedHasNoSocket /\ ClosedServerIsQuiet
  BY HubInvMeans DEF ServicesInv
<1>4. PushTypeOK /\ PushedTwiceNeedsFault /\ DeadJobTriedAll /\ DoneMeansResolved
  BY FanoutInvMeans DEF ServicesInv
<1>5. QueueTypeOK /\ EveryChangeHasAJob /\ WaitingIsNewest /\ SupersededIsNotDead
  BY QueueInvMeans DEF ServicesInv
<1>6. ConnTypeOK /\ ToldAfterCommit /\ CommittedIsTold /\ NothingIsLeaked /\ IdleIsClean
  BY PoolTyped, PoolInvMeans DEF ServicesInv
<1> QED
  BY <1>1, <1>2, <1>3, <1>4, <1>5, <1>6 DEF ServicesAreSafe, ServicesTypeOK

(* Every service is safe, types included, for any number of pull requests, *)
(* calls, sockets, registrations, changes, operations and faults: the      *)
(* property the run of the services checks on its bounds.                  *)
THEOREM ServicesSafety == ServicesSpec => []ServicesAreSafe
<1> QED
  BY ServicesInitially, ServicesKept, ServicesInvMeans, PTL DEF ServicesSpec
=============================================================================
