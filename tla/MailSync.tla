------------------------------ MODULE MailSync ------------------------------
(***************************************************************************)
(* The synchronisation of one Gmail or Microsoft Graph mailbox:            *)
(* handleSyncMailAccountTask with reconcileGmailAccount,                   *)
(* reconcileGraphAccount, ingestEmailMessage and ingestAttachments         *)
(* (data/src/mail).  A pass reads the stored cursor, asks the provider     *)
(* what changed, mirrors each message into an Emails item with one edge    *)
(* per folder, and stores the new cursor, all in one database transaction  *)
(* that other passes do not see before it commits.  Attachment bytes are   *)
(* written outside of it.  Passes are jobs, and a keyed enqueue while the  *)
(* job runs adds a second one, so two passes can overlap.                  *)
(***************************************************************************)
EXTENDS Integers, FiniteSets

CONSTANTS
    Msgs,          \* the messages, each with one attachment
    Boxes,         \* the provider's folders or labels
    FirstBoxes,    \* those that exist from the start
    SyncPasses,        \* the jobs that may run at the same time
    MaxMailChanges,    \* bound on the provider's changes
    MaxSyncFaults  \* bound on failed passes

ASSUME SyncAssumption ==
    FirstBoxes \subseteq Boxes /\ MaxMailChanges \in Nat /\ MaxSyncFaults \in Nat

NoCursor == -1

VARIABLES
    api,      \* "gmail" or "graph"
    prov,     \* the provider: where each message is, when it last changed, whether it is gone
    boxes,    \* the provider: the folders that exist
    clock,    \* the provider: the number of changes so far
    horizon,  \* the provider: changes up to this one are no longer reported
    cursor,   \* mail_account_sync_state: the history id or delta link, or NoCursor
    edges,    \* the folder edges of each message's item
    rows,     \* mail_message_meta: for each message the passes that created an item for it
    bytes,    \* the attachment files on disk, as <<message, pass that wrote it>>
    syncPass,     \* the running passes
    syncFaults,
    answersLost, \* history: the COMMITs whose answer was lost, as the files they referred to
    excused   \* history: the messages a known limit of the code applies to

providerVars == <<prov, boxes, clock, horizon>>
storeVars == <<cursor, edges, rows, bytes>>
syncVars == <<api, providerVars, storeVars, syncPass, syncFaults, answersLost, excused>>

IdlePass == [pc |-> "idle", base |-> NoCursor, next |-> NoCursor, seen |-> {}, full |-> FALSE,
             done |-> {}, others |-> {}, todo |-> {}, gone |-> {}, view |-> [m \in Msgs |-> {}],
             new |-> {}, add |-> [m \in Msgs |-> {}], del |-> [m \in Msgs |-> {}], missed |-> {}]

SyncInit ==
    /\ api \in {"gmail", "graph"}
    /\ prov = [m \in Msgs |-> [at |-> {}, ver |-> 0, gone |-> TRUE]]
    /\ boxes = FirstBoxes
    /\ clock = 0
    /\ horizon = 0
    /\ cursor = NoCursor
    /\ edges = [m \in Msgs |-> {}]
    /\ rows = [m \in Msgs |-> {}]
    /\ bytes = {}
    /\ syncPass = [p \in SyncPasses |-> IdlePass]
    /\ syncFaults = 0
    /\ answersLost = {}
    /\ excused = {}

SyncTypeOK ==
    /\ api \in {"gmail", "graph"}
    /\ prov \in [Msgs -> [at : SUBSET Boxes, ver : 0..MaxMailChanges, gone : BOOLEAN]]
    /\ boxes \subseteq Boxes
    /\ clock \in 0..MaxMailChanges /\ horizon \in 0..clock
    /\ cursor \in {NoCursor} \cup 0..clock
    /\ edges \in [Msgs -> SUBSET Boxes]
    /\ rows \in [Msgs -> SUBSET SyncPasses]
    /\ bytes \subseteq Msgs \X SyncPasses
    /\ \A p \in SyncPasses : syncPass[p].pc \in {"idle", "listing", "list_all", "applying"}
    /\ syncFaults \in 0..MaxSyncFaults
    /\ answersLost \subseteq Msgs \X SyncPasses
    /\ excused \subseteq Msgs

-----------------------------------------------------------------------------
(* The provider.  Gmail messages carry several labels or none (archived);  *)
(* a Graph message is in one folder.                                       *)
ProviderChange(m) ==
    /\ clock < MaxMailChanges
    /\ clock' = clock + 1
    /\ \E at \in SUBSET boxes, gone \in BOOLEAN :
          /\ gone => at = {} /\ ~prov[m].gone
          /\ ~gone /\ api = "graph" => Cardinality(at) = 1
          /\ ~gone => at # prov[m].at
          /\ prov' = [prov EXCEPT ![m] = [at |-> at, ver |-> clock', gone |-> gone]]
    /\ UNCHANGED <<api, boxes, horizon, storeVars, syncPass, syncFaults, answersLost, excused>>

(* The user makes a folder; the provider reports only message changes.     *)
ProviderMakesBox ==
    /\ boxes # Boxes
    /\ boxes' = Boxes
    /\ UNCHANGED <<api, prov, clock, horizon, storeVars, syncPass, syncFaults, answersLost, excused>>

(* The provider drops its change history: older cursors are invalidated.   *)
ProviderForgets ==
    /\ horizon < clock
    /\ horizon' = clock
    /\ UNCHANGED <<api, prov, boxes, clock, storeVars, syncPass, syncFaults, answersLost, excused>>

-----------------------------------------------------------------------------
(* The prologue of the job and of the reconcile: the account's state is    *)
(* read, and every folder the provider lists gets its Folders item.        *)
StartPass(p) ==
    /\ syncPass[p].pc = "idle"
    /\ syncPass' = [syncPass EXCEPT ![p] = [IdlePass EXCEPT !.pc = "listing", !.base = cursor, !.seen = boxes]]
    /\ UNCHANGED <<api, providerVars, storeVars, syncFaults, answersLost, excused>>

Changed(c) == {m \in Msgs : prov[m].ver > c}
Present == {m \in Msgs : ~prov[m].gone}

(* history.list since the cursor.  Without a cursor, or when the provider  *)
(* says it is too old, the current history id is taken and everything is   *)
(* listed after it.                                                        *)
ListHistorySince(p) ==
    /\ api = "gmail" /\ syncPass[p].pc = "listing"
    /\ LET c == syncPass[p].base IN
       syncPass' = [syncPass EXCEPT ![p] =
         IF c = NoCursor \/ c < horizon
           THEN [@ EXCEPT !.pc = "list_all", !.base = NoCursor, !.next = clock, !.full = TRUE]
           ELSE [@ EXCEPT !.pc = "applying", !.base = NoCursor, !.next = clock,
                          !.todo = Changed(c) \cap Present, !.gone = Changed(c) \ Present]]
    /\ UNCHANGED <<api, providerVars, storeVars, syncFaults, answersLost, excused>>

ListAllMessageIds(p) ==
    /\ syncPass[p].pc = "list_all"
    /\ syncPass' = [syncPass EXCEPT ![p] = [@ EXCEPT !.pc = "applying", !.todo = Present]]
    /\ UNCHANGED <<api, providerVars, storeVars, syncFaults, answersLost, excused>>

(* fetchDelta, and once more from nothing when the link is refused.  The   *)
(* changes carry the messages as they are now.                             *)
FetchDelta(p) ==
    /\ api = "graph" /\ syncPass[p].pc = "listing"
    /\ LET c == IF syncPass[p].base = NoCursor \/ syncPass[p].base < horizon THEN NoCursor ELSE syncPass[p].base IN
       syncPass' = [syncPass EXCEPT ![p] = [@ EXCEPT
                  !.pc = "applying", !.base = NoCursor, !.next = clock, !.full = (c = NoCursor),
                  !.todo = Present \cap (IF c = NoCursor THEN Msgs ELSE Changed(c)),
                  !.gone = IF c = NoCursor THEN {} ELSE Changed(c) \ Present,
                  !.view = [m \in Msgs |-> prov[m].at]]]
    /\ UNCHANGED <<api, providerVars, storeVars, syncFaults, answersLost, excused>>

(* What the transaction of pass p sees: committed edges and its own.       *)
EdgesSeen(p, m) == (edges[m] \ syncPass[p].del[m]) \cup syncPass[p].add[m]
RowSeen(p, m) == rows[m] # {} \/ m \in syncPass[p].new

(* ingestEmailMessage for each mapped folder: the dedup lookup, and for a  *)
(* message without a row the item, the meta row and the attachment, whose  *)
(* bytes reach the disk at once.                                           *)
Ingest(p, m) ==
    IF RowSeen(p, m) THEN syncPass[p].new ELSE syncPass[p].new \cup {m}

(* ingestAttachments: the bytes of a new message's attachment are on disk  *)
(* before its row commits.                                                 *)
IngestAttachments(p, new) == bytes \cup {<<m, p>> : m \in new \ syncPass[p].new}

(* The writes for one changed message, found in the folders at: it is      *)
(* ingested into those this pass knows, and loses its other edges if drop. *)
Mirror(p, m, at, drop) ==
    LET mapped == at \cap syncPass[p].seen
        new    == IF mapped # {} THEN Ingest(p, m) ELSE syncPass[p].new
    IN  /\ syncPass' = [syncPass EXCEPT ![p] = [@ EXCEPT
               !.todo = @ \ {m}, !.done = @ \cup {m}, !.new = new, !.add[m] = mapped,
               !.del[m] = IF drop THEN EdgesSeen(p, m) \ mapped ELSE @,
               !.missed = IF at \subseteq syncPass[p].seen THEN @ ELSE @ \cup {m}]]
        /\ bytes' = IngestAttachments(p, new)

(* Gmail is asked for the message as it is now; one without a known label  *)
(* keeps its item and loses its edges; one that is gone is skipped.        *)
ApplyGmailChange(p, m) ==
    /\ api = "gmail" /\ syncPass[p].pc = "applying" /\ m \in syncPass[p].todo
    /\ \/ /\ ~prov[m].gone
          /\ Mirror(p, m, prov[m].at, prov[m].at \cap syncPass[p].seen # {} \/ RowSeen(p, m))
       \/ /\ prov[m].gone
          /\ syncPass' = [syncPass EXCEPT ![p].todo = @ \ {m}, ![p].done = @ \cup {m}]
          /\ UNCHANGED bytes
    /\ UNCHANGED <<api, providerVars, cursor, edges, rows, syncFaults, answersLost, excused>>

(* A Graph change carries the message; one in an unknown folder is skipped.*)
ApplyGraphChange(p, m) ==
    /\ api = "graph" /\ syncPass[p].pc = "applying" /\ m \in syncPass[p].todo
    /\ LET at == syncPass[p].view[m] IN Mirror(p, m, at, at \cap syncPass[p].seen # {})
    /\ UNCHANGED <<api, providerVars, cursor, edges, rows, syncFaults, answersLost, excused>>

(* Mutant: removals are taken for changes and skipped.                     *)
IgnoreRemoval(p, m) ==
    /\ syncPass[p].pc = "applying" /\ m \in syncPass[p].gone
    /\ syncPass' = [syncPass EXCEPT ![p] = [@ EXCEPT !.gone = @ \ {m}]]
    /\ UNCHANGED <<api, providerVars, storeVars, syncFaults, answersLost, excused>>

(* A removed message keeps its item and loses every edge.                  *)
ApplyRemoval(p, m) ==
    /\ syncPass[p].pc = "applying" /\ m \in syncPass[p].gone
    /\ syncPass' = [syncPass EXCEPT ![p] = [@ EXCEPT !.gone = @ \ {m}, !.done = @ \cup {m},
                  !.del[m] = IF RowSeen(p, m) THEN EdgesSeen(p, m) ELSE @]]
    /\ UNCHANGED <<api, providerVars, storeVars, syncFaults, answersLost, excused>>

(* The writes of the transaction become visible, the cursor with them.  An *)
(* item whose meta row another pass committed first keeps its own edges,   *)
(* which no later lookup finds: the upsert keeps the first pass's item id. *)
(* excused collects the messages for which the code has a known gap:       *)
(* another pass committed them while this one ran, they were in a folder   *)
(* made after this pass listed the folders, or they were deleted while the *)
(* history was lost and a full listing does not report deletions.          *)
Committed(p) ==
    /\ edges' = [m \in Msgs |->
                   IF m \in syncPass[p].new /\ rows[m] # {} THEN edges[m]
                   ELSE (edges[m] \ syncPass[p].del[m]) \cup syncPass[p].add[m]]
    /\ rows' = [m \in Msgs |-> IF m \in syncPass[p].new THEN rows[m] \cup {p} ELSE rows[m]]
    /\ cursor' = syncPass[p].next
    /\ excused' = excused \cup syncPass[p].others \cup syncPass[p].missed
         \cup (IF syncPass[p].full
                 THEN {m \in Msgs : prov[m].gone /\ prov[m].ver <= syncPass[p].next /\ edges[m] # {}}
                 ELSE {})
    /\ syncPass' = [q \in SyncPasses |->
                  CASE q = p -> IdlePass
                    [] q # p /\ syncPass[q].pc = "idle" -> IdlePass
                    [] OTHER -> [syncPass[q] EXCEPT !.others = @ \cup syncPass[p].done]]

CommitPass(p) ==
    /\ syncPass[p].pc = "applying" /\ syncPass[p].todo = {} /\ syncPass[p].gone = {}
    /\ Committed(p)
    /\ UNCHANGED <<api, providerVars, bytes, syncFaults, answersLost>>

(* Mutant: the clean-up takes every file under the mailbox's prefix.       *)
FailTakesAllFiles(p) ==
    /\ syncPass[p].pc # "idle" /\ syncFaults < MaxSyncFaults
    /\ bytes' = {}
    /\ syncPass' = [syncPass EXCEPT ![p] = IdlePass]
    /\ syncFaults' = syncFaults + 1
    /\ UNCHANGED <<api, providerVars, cursor, edges, rows, answersLost, excused>>

(* A pass fails: the transaction is rolled back, the files this attempt    *)
(* wrote are deleted, the error is recorded, and the job is tried again.   *)
FailPass(p) ==
    /\ syncPass[p].pc # "idle" /\ syncFaults < MaxSyncFaults
    /\ bytes' = bytes \ (syncPass[p].new \X {p})
    /\ syncPass' = [syncPass EXCEPT ![p] = IdlePass]
    /\ syncFaults' = syncFaults + 1
    /\ UNCHANGED <<api, providerVars, cursor, edges, rows, answersLost, excused>>

(* COMMIT succeeds but its answer is lost: the catch block deletes the     *)
(* files although the rows stay.                                           *)
CommitAnswerLost(p) ==
    /\ syncPass[p].pc = "applying" /\ syncPass[p].todo = {} /\ syncPass[p].gone = {}
    /\ syncFaults < MaxSyncFaults
    /\ Committed(p)
    /\ bytes' = bytes \ (syncPass[p].new \X {p})
    /\ syncFaults' = syncFaults + 1
    /\ answersLost' = answersLost \cup (syncPass[p].new \X {p})
    /\ UNCHANGED <<api, providerVars>>

SyncWork(p) ==
    \/ StartPass(p) \/ ListHistorySince(p) \/ ListAllMessageIds(p) \/ FetchDelta(p)
    \/ (\E m \in Msgs : ApplyGmailChange(p, m) \/ ApplyGraphChange(p, m) \/ ApplyRemoval(p, m))
    \/ CommitPass(p)

SyncNext ==
    \/ \E m \in Msgs : ProviderChange(m)
    \/ ProviderMakesBox \/ ProviderForgets
    \/ \E p \in SyncPasses : SyncWork(p) \/ FailPass(p) \/ CommitAnswerLost(p)

-----------------------------------------------------------------------------
(* gmailReconcile.ts: "the worst case is re-observing that message on the  *)
(* next pass, not losing it".  Whatever the items show differently from    *)
(* the provider will still be reported by the stored cursor.               *)
NothingIsLost ==
    \A m \in Msgs \ excused :
        edges[m] # prov[m].at => cursor = NoCursor \/ prov[m].ver > cursor

(* ingest.ts: re-observed messages "converge onto the same item instead of *)
(* duplicating".  Failures and retries never make a second item; only two  *)
(* passes that apply the message at the same time do.                      *)
OneItemPerMessage == \A m \in Msgs \ excused : Cardinality(rows[m]) <= 1

(* A committed attachment has its bytes, whatever passes failed before or  *)
(* after; only a COMMIT whose answer is lost takes them away.              *)
AttachmentsHaveBytes ==
    \A m \in Msgs : \A p \in rows[m] : <<m, p>> \in bytes \cup answersLost

(* A file on disk belongs to a committed row or to a running pass: failed  *)
(* attempts leave nothing behind.                                          *)
NoLeakedFiles == \A f \in bytes : f[2] \in rows[f[1]] \/ f[1] \in syncPass[f[2]].new

(* When the provider is quiet, every message is in the end where the       *)
(* provider has it.                                                        *)
MailboxAgrees == \A m \in Msgs \ excused : edges[m] = prov[m].at

(* The sweep enqueues a due account every fifteen minutes and the queue    *)
(* retries failed jobs, so some pass is always started and goes on.        *)
SyncSpec == SyncInit /\ [][SyncNext]_syncVars
            /\ \A p \in SyncPasses : WF_syncVars(SyncWork(p))

=============================================================================
