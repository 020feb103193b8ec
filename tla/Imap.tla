-------------------------------- MODULE Imap --------------------------------
(***************************************************************************)
(* An IMAP account: the reconcile of one folder, and the connection budget *)
(* the account's IDLE loops share with its reconcile jobs.                 *)
(***************************************************************************)
EXTENDS Naturals, Sequences, FiniteSets, SequencesExt

-----------------------------------------------------------------------------
(***************************************************************************)
(* The reconcile of one IMAP folder: reconcileImapFolder with              *)
(* mail_folder_sync_state and the uids kept on the folder edges            *)
(* (data/src/mail/imapReconcile.ts, mailFolderSyncStateStore.ts,           *)
(* folderMembershipStore.ts).  New messages are fetched from the stored    *)
(* UIDNEXT on; removed ones are found by QRESYNC or by comparing the known *)
(* uids with the folder's.  A change of UIDVALIDITY renumbers the folder:  *)
(* the stored state is reset, the uids on the edges are not.  The passes   *)
(* of one account are taken one at a time here; their overlap is the       *)
(* subject of MailSync, the flags that of MailFlags.                       *)
(***************************************************************************)

CONSTANTS
    ImapMsgs,      \* the messages that may be in the folder
    MaxUid,        \* bound on the uids handed out
    MaxImapFaults  \* bound on failed passes

ASSUME ImapAssumption == MaxUid \in Nat \ {0} /\ MaxImapFaults \in Nat

Uids == 1..MaxUid
NoUid == 0

VARIABLES
    qresync,    \* the server has QRESYNC
    imapServer,     \* the uid of each message in the folder, or NoUid
    uidnext, uidvalidity, modseq, \* what SELECT answers
    expunged,   \* the modseq at which each uid vanished, 0 if it has not
    folder,     \* mail_folder_sync_state of the folder
    edge,       \* the uid on each message's edge to the folder, NoUid without an edge
    imapPass,   \* the running pass and its uncommitted writes
    imapFaults,
    aliased     \* history: messages whose edge has carried the uid of another message

imapVars == <<qresync, imapServer, uidnext, uidvalidity, modseq, expunged, folder, edge, imapPass,
              imapFaults, aliased>>
serverVars == <<qresync, imapServer, uidnext, uidvalidity, modseq, expunged>>

NoState == [validity |-> 0, next |-> 0, modseq |-> 0]
NoPass == [pc |-> "idle", sel |-> NoState, was |-> NoState, edge |-> [m \in ImapMsgs |-> NoUid]]

ImapInit ==
    /\ qresync \in BOOLEAN
    /\ imapServer = [m \in ImapMsgs |-> NoUid]
    /\ uidnext = 1 /\ uidvalidity = 1 /\ modseq = 1
    /\ expunged = [u \in Uids |-> 0]
    /\ folder = NoState
    /\ edge = [m \in ImapMsgs |-> NoUid]
    /\ imapPass = NoPass
    /\ imapFaults = 0
    /\ aliased = {}

States == [validity : 0..2, next : 0..MaxUid + 1, modseq : 0..2 * MaxUid + 1]

ImapTypeOK ==
    /\ imapServer \in [ImapMsgs -> Uids \cup {NoUid}]
    /\ uidnext \in 1..MaxUid + 1 /\ uidvalidity \in 1..2 /\ modseq \in 1..2 * MaxUid + 1
    /\ expunged \in [Uids -> Nat]
    /\ folder \in States
    /\ edge \in [ImapMsgs -> Uids \cup {NoUid}]
    /\ imapPass.pc \in {"idle", "selected", "fetched", "pruned"}
    /\ imapPass.sel \in States /\ imapPass.was \in States
    /\ imapPass.edge \in [ImapMsgs -> Uids \cup {NoUid}]
    /\ imapFaults \in 0..MaxImapFaults
    /\ aliased \subseteq ImapMsgs

InFolder(m) == imapServer[m] # NoUid
CurrentUids == {imapServer[m] : m \in ImapMsgs} \ {NoUid}

-----------------------------------------------------------------------------
(* The server: a message arrives, is expunged, or the folder is rebuilt    *)
(* with new uids and a new UIDVALIDITY.                                    *)
Arrive(m) ==
    /\ ~InFolder(m) /\ uidnext <= MaxUid
    /\ imapServer' = [imapServer EXCEPT ![m] = uidnext]
    /\ uidnext' = uidnext + 1 /\ modseq' = modseq + 1
    /\ UNCHANGED <<qresync, uidvalidity, expunged, folder, edge, imapPass, imapFaults, aliased>>

Expunge(m) ==
    /\ InFolder(m)
    /\ imapServer' = [imapServer EXCEPT ![m] = NoUid]
    /\ modseq' = modseq + 1
    /\ expunged' = [expunged EXCEPT ![imapServer[m]] = modseq']
    /\ UNCHANGED <<qresync, uidnext, uidvalidity, folder, edge, imapPass, imapFaults, aliased>>

Renumber ==
    /\ uidvalidity = 1
    /\ uidvalidity' = 2
    /\ \E s \in [ImapMsgs -> 0..Cardinality(CurrentUids)] :
          /\ \A m \in ImapMsgs : (s[m] # NoUid) <=> InFolder(m)
          /\ \A m, n \in ImapMsgs : m # n /\ s[m] = s[n] => s[m] = NoUid
          /\ imapServer' = s
    /\ uidnext' = Cardinality(CurrentUids) + 1
    /\ modseq' = 1 /\ expunged' = [u \in Uids |-> 0]
    /\ imapPass.pc = "idle"  \* a connection's selection ends with the old numbering
    /\ UNCHANGED <<qresync, folder, edge, imapPass, imapFaults, aliased>>

-----------------------------------------------------------------------------

(* SELECT, then the stored state, reset when UIDVALIDITY has changed.      *)
SelectImapFolder ==
    /\ imapPass.pc = "idle"
    /\ imapPass' = [pc |-> "selected",
                    sel |-> [validity |-> uidvalidity, next |-> uidnext, modseq |-> modseq],
                    was |-> IF folder.validity \notin {0, uidvalidity}
                              THEN [validity |-> uidvalidity, next |-> 0, modseq |-> 0] ELSE folder,
                    edge |-> edge]
    /\ UNCHANGED <<serverVars, folder, edge, imapFaults, aliased>>

(* fetchMessagesSince the stored UIDNEXT: every such message is ingested   *)
(* and its edge carries its uid, whether or not it had an edge.            *)
FetchMessagesSince ==
    /\ imapPass.pc = "selected"
    /\ imapPass' = [imapPass EXCEPT !.pc = "fetched",
         !.edge = [m \in ImapMsgs |-> IF InFolder(m) /\ imapServer[m] >= imapPass.was.next
                                        THEN imapServer[m] ELSE imapPass.edge[m]]]
    /\ UNCHANGED <<serverVars, folder, edge, imapFaults, aliased>>

(* findEmailItemIdByFolderUid: one of the messages whose edge has the uid. *)
WithUid(u) == {m \in ImapMsgs : imapPass.edge[m] = u}

(* The vanished uids: QRESYNC since the stored modseq, otherwise nothing   *)
(* on the first sync and a comparison of uids later.                       *)
VanishedUids ==
    CASE qresync /\ imapPass.was.modseq # 0 -> {u \in Uids : expunged[u] > imapPass.was.modseq}
      [] imapPass.was.validity = 0 -> {}
      [] OTHER -> {imapPass.edge[m] : m \in ImapMsgs} \ (CurrentUids \cup {NoUid})

(* Each vanished uid loses the one edge the lookup finds.                  *)
FetchVanishedSince ==
    /\ imapPass.pc = "fetched"
    /\ \E dropped \in SUBSET ImapMsgs :
          /\ \A u \in VanishedUids : Cardinality(dropped \cap WithUid(u)) = (IF WithUid(u) = {} THEN 0 ELSE 1)
          /\ \A m \in dropped : imapPass.edge[m] \in VanishedUids
          /\ imapPass' = [imapPass EXCEPT !.pc = "pruned",
                            !.edge = [m \in ImapMsgs |-> IF m \in dropped THEN NoUid ELSE @[m]]]
    /\ UNCHANGED <<serverVars, folder, edge, imapFaults, aliased>>

(* recordReconcile stores what SELECT answered, and the job commits.       *)
RecordFolderReconcile ==
    /\ imapPass.pc = "pruned"
    /\ edge' = imapPass.edge
    /\ folder' = imapPass.sel
    /\ imapPass' = NoPass
    /\ aliased' = aliased \cup {m \in ImapMsgs : /\ edge'[m] # NoUid
                                                   /\ \E n \in ImapMsgs \ {m} : edge'[m] \in {edge'[n], imapServer[n]}}
    /\ UNCHANGED <<serverVars, imapFaults>>

(* The pass fails and everything it wrote is rolled back.                  *)
FailImapPass ==
    /\ imapPass.pc # "idle" /\ imapFaults < MaxImapFaults
    /\ imapPass' = NoPass
    /\ imapFaults' = imapFaults + 1
    /\ UNCHANGED <<serverVars, folder, edge, aliased>>

ImapWork == SelectImapFolder \/ FetchMessagesSince \/ FetchVanishedSince \/ RecordFolderReconcile

ImapNext ==
    \/ ImapWork \/ FailImapPass \/ Renumber
    \/ \E m \in ImapMsgs : Arrive(m) \/ Expunge(m)

-----------------------------------------------------------------------------
(* Between passes, a message that is in the folder without an edge, or has *)
(* an edge without being there, is one the next pass will be told of: it   *)
(* is at or above the stored UIDNEXT, it vanished after the stored modseq, *)
(* or its uid is not among the folder's.                                   *)
NoMessageSlipsThrough ==
    imapPass.pc = "idle" /\ folder.validity = uidvalidity =>
        \A m \in ImapMsgs \ aliased :
            /\ InFolder(m) /\ edge[m] = NoUid => imapServer[m] >= folder.next
            /\ ~InFolder(m) /\ edge[m] # NoUid =>
                   IF qresync THEN expunged[edge[m]] > folder.modseq ELSE edge[m] \notin CurrentUids

(* Within one numbering the uid on an edge is the message's own, so a flag *)
(* observed under a uid is applied to the right item.                      *)
UidsNameTheirMessage ==
    imapPass.pc = "idle" /\ folder.validity = uidvalidity =>
        \A m \in ImapMsgs : InFolder(m) /\ edge[m] # NoUid => edge[m] = imapServer[m] \/ imapServer[m] >= folder.next

(* When the server is quiet, the edges are the folder's contents.          *)
FolderAgrees == \A m \in ImapMsgs \ aliased : (edge[m] # NoUid) <=> InFolder(m)

ImapSpec == ImapInit /\ [][ImapNext]_imapVars /\ WF_imapVars(ImapWork)

-----------------------------------------------------------------------------
(***************************************************************************)
(* The connection budget of one IMAP account: AccountQueue of              *)
(* imapConnectionLimiter.ts, shared by the IDLE loops of                   *)
(* imapIdleLifecycle.ts (one per watched folder, each holding its slot for *)
(* as long as its connection is open) and by the reconcile jobs of         *)
(* mailSyncJob.ts, which give up after three minutes in the queue.         *)
(***************************************************************************)

CONSTANTS
    IdleFolders,  \* the folders resolveFolders returns
    Reconciles,   \* the reconcile jobs that may run at the same time
    Limits        \* the limits the mailbox may be configured with

ASSUME IdleAssumption == Limits \subseteq Nat \ {0} /\ IdleFolders \cap Reconciles = {}

Tasks == IdleFolders \cup Reconciles

VARIABLES
    slots,     \* AccountQueue.active
    limit,     \* AccountQueue.limit
    waiters,   \* AccountQueue.waiters
    task,      \* where each loop or job is
    lifecycle, \* the lifecycle's start and stop
    signalled  \* a change was signalled and not yet reconciled

idleVars == <<slots, limit, waiters, task, lifecycle, signalled>>

IdleInit ==
    /\ slots = 0 /\ limit \in Limits /\ waiters = <<>>
    /\ task = [t \in Tasks |-> "off"]
    /\ lifecycle = "stopped"
    /\ signalled = FALSE

IdleTypeOK ==
    /\ slots \in 0..Cardinality(Tasks) /\ limit \in Limits
    /\ waiters \in Seq(Tasks) /\ IsInjective(waiters)
    /\ task \in [Tasks -> {"off", "ready", "asking", "waiting", "holding", "closing"}]
    /\ lifecycle \in {"stopped", "running", "stopping"}
    /\ signalled \in BOOLEAN

(* wakeWaiters: grant the first waiters their slots, counting them at once.*)
Woken(a, lim, ws) ==
    LET n == IF a >= lim THEN 0 ELSE IF lim - a < Len(ws) THEN lim - a ELSE Len(ws)
    IN  [active |-> a + n, granted |-> {ws[i] : i \in 1..n}, rest |-> SubSeq(ws, n + 1, Len(ws))]

Granted(w, t) == IF t \in w.granted THEN "holding" ELSE task[t]

(* limiter.run: the limit of this call is set, which may wake waiters, and *)
(* the task takes a free slot or joins the queue.                          *)
RunLimited(t, lim) ==
    LET w == Woken(slots, lim, waiters) IN
    /\ limit' = lim
    /\ IF w.active < lim
         THEN /\ slots' = w.active + 1 /\ waiters' = w.rest
              /\ task' = [u \in Tasks |-> IF u = t THEN "holding" ELSE Granted(w, u)]
         ELSE /\ slots' = w.active /\ waiters' = Append(w.rest, t)
              /\ task' = [u \in Tasks |-> IF u = t THEN "waiting" ELSE Granted(w, u)]

(* The finally of AccountQueue.run.                                        *)
ReleaseSlot(t, next) ==
    LET w == Woken(slots - 1, limit, waiters) IN
    /\ slots' = w.active /\ waiters' = w.rest
    /\ task' = [u \in Tasks |-> IF u = t THEN next ELSE Granted(w, u)]
    /\ UNCHANGED limit

(* lifecycle.start: an immediate reconcile is enqueued and one loop per    *)
(* folder started, which begins by reading its limit.                      *)
StartLifecycle ==
    /\ lifecycle = "stopped"
    /\ lifecycle' = "running"
    /\ signalled' = TRUE
    /\ task' = [t \in Tasks |-> IF t \in IdleFolders THEN "asking" ELSE task[t]]
    /\ UNCHANGED <<slots, limit, waiters>>

(* A folder's loop begins a round, unless it was stopped, and awaits       *)
(* getConnectionLimit (outside the try: a rejection ends the process).     *)
LoopBegins(f) ==
    /\ task[f] = "ready" /\ lifecycle = "running"
    /\ task' = [task EXCEPT ![f] = "asking"]
    /\ UNCHANGED <<slots, limit, waiters, lifecycle, signalled>>

(* It asks for a slot with the limit it was given, without looking whether *)
(* stop() was called meanwhile; nor can stop() reach it in the queue.      *)
LoopAsks(f) ==
    /\ task[f] = "asking"
    /\ \E lim \in Limits : RunLimited(f, lim)
    /\ UNCHANGED <<lifecycle, signalled>>

(* A round ends: the connection ended, was recycled after six hours, or    *)
(* stop() was called.  It is closed before the slot is released.           *)
RoundEnds(f) ==
    /\ task[f] = "holding"
    /\ task' = [task EXCEPT ![f] = "closing"]
    /\ UNCHANGED <<slots, limit, waiters, lifecycle, signalled>>

(* The loop goes on after its backoff, or returns when stopped.            *)
LoopReleases(f) ==
    /\ f \in IdleFolders /\ task[f] = "closing"
    /\ ReleaseSlot(f, IF lifecycle = "running" THEN "ready" ELSE "off")
    /\ UNCHANGED <<lifecycle, signalled>>

(* EXISTS, EXPUNGE or FLAGS on an open connection enqueues a reconcile;    *)
(* the listeners are detached before the connection is closed.             *)
OnSignal(f) ==
    /\ f \in IdleFolders /\ task[f] = "holding"
    /\ signalled' = TRUE
    /\ UNCHANGED <<slots, limit, waiters, task, lifecycle>>

(* The worker takes the reconcile job.                                     *)
ReconcileAsks(r) ==
    /\ signalled /\ task[r] = "off"
    /\ \E lim \in Limits : RunLimited(r, lim)
    /\ signalled' = FALSE
    /\ UNCHANGED lifecycle

ReconcileEnds(r) ==
    /\ r \in Reconciles /\ task[r] = "holding"
    /\ ReleaseSlot(r, "off")
    /\ UNCHANGED <<lifecycle, signalled>>

(* Three minutes in the queue: the task is rejected.  A loop backs off and *)
(* asks again; a job is retried by the queue.                              *)
WaitTimesOut(t) ==
    /\ task[t] = "waiting"
    /\ waiters' = SelectSeq(waiters, LAMBDA u : u # t)
    /\ task' = [task EXCEPT ![t] = IF t \in Reconciles \/ lifecycle # "running" THEN "off" ELSE "ready"]
    /\ signalled' = (signalled \/ t \in Reconciles)
    /\ UNCHANGED <<slots, limit, lifecycle>>

(* stop: every open round and every backoff ends; a loop that reads its    *)
(* limit, or is in the queue, goes on, and the loops are awaited.          *)
StopLifecycle ==
    /\ lifecycle = "running"
    /\ lifecycle' = "stopping"
    /\ task' = [t \in Tasks |-> IF t \in IdleFolders /\ task[t] = "ready" THEN "off" ELSE task[t]]
    /\ UNCHANGED <<slots, limit, waiters, signalled>>

StopResolves ==
    /\ lifecycle = "stopping" /\ \A f \in IdleFolders : task[f] = "off"
    /\ lifecycle' = "stopped"
    /\ UNCHANGED <<slots, limit, waiters, task, signalled>>

IdleNext ==
    \/ StartLifecycle \/ StopLifecycle \/ StopResolves
    \/ \E f \in IdleFolders : LoopBegins(f) \/ LoopAsks(f) \/ RoundEnds(f) \/ LoopReleases(f) \/ OnSignal(f)
    \/ \E r \in Reconciles : ReconcileAsks(r) \/ ReconcileEnds(r)
    \/ \E t \in Tasks : WaitTimesOut(t)

IdleSpec == IdleInit /\ [][IdleNext]_idleVars

-----------------------------------------------------------------------------
Holders == {t \in Tasks : task[t] \in {"holding", "closing"}}

(* wakeWaiters' comment: never "over-admit past limit".  The counter is    *)
(* the number of tasks in a slot, through grants, timeouts and changes of  *)
(* the limit, and the waiters are exactly the tasks still waiting.         *)
SlotsAreCounted ==
    /\ slots = Cardinality(Holders)
    /\ ToSet(waiters) = {t \in Tasks : task[t] = "waiting"}

(* A slot is granted only below the limit in force.                        *)
NeverOverAdmitted == [][\A t \in Tasks : t \in Holders' \ Holders => Cardinality(Holders') <= limit']_idleVars

(* A task waits only while the budget is used up.                          *)
WaitsOnlyWhenFull == waiters # <<>> => slots >= limit

(* stop()'s promise: "no further enqueueMailAccountSync call happening     *)
(* after stop() resolves", although stop cannot reach a loop that reads    *)
(* its limit or is in the queue, and that is granted a slot while stop     *)
(* waits.                                                                  *)
QuietWhenStopped == lifecycle = "stopped" => \A f \in IdleFolders : task[f] = "off"
=============================================================================
