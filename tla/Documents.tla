----------------------------- MODULE Documents ------------------------------
(***************************************************************************)
(* Collaborative documents: the retained history of a document, and the    *)
(* synchronisation of its open copies.                                     *)
(***************************************************************************)
EXTENDS Integers, Sequences, FiniteSets, FiniteSetsExt

-----------------------------------------------------------------------------
(***************************************************************************)
(* One document's stored forms (packages/data/src/docs): the snapshot and  *)
(* the updates not yet merged into it (docPersistence.ts), and the         *)
(* retained history, a mirror of every update plus checkpoints that can    *)
(* start a replay (docHistory.ts).                                         *)
(*                                                                         *)
(* Every append, compaction and re-baseline runs under the row lock of the *)
(* snapshot, so the update ids follow the order of the locks, while        *)
(* created_at is the start of the appending transaction: a transaction     *)
(* that began early and appended late has the higher id and the lower      *)
(* time.                                                                   *)
(***************************************************************************)

CONSTANTS HistoryWriters,    \* transactions that may append
          Retention,         \* how far back versions are kept
          CompactAt,         \* the compaction threshold
          MaxUpdates,        \* bound: updates appended
          MaxDocClock        \* bound: the clock

ASSUME DocHistoryAssumption ==
    /\ HistoryWriters # {}
    /\ Retention \in Nat \ {0} /\ CompactAt \in Nat \ {0}
    /\ MaxUpdates \in Nat /\ MaxDocClock \in Nat

VARIABLES docClock,    \* the database's clock
          begun,       \* begun[w]: the start of w's open transaction, or 0
          createdAt,   \* createdAt[id]: doc_history_updates.created_at
          unmerged,    \* the ids in doc_updates
          snapshot,    \* the ids merged into doc_snapshots.state
          mirror,      \* the ids in doc_history_updates
          checkpoints, \* doc_snapshot_history
          availableFrom, \* docs.history_available_from
          overtaken    \* history: a checkpoint covers more updates than one
                       \* that stands for a later time

histVars == <<docClock, begun, createdAt, unmerged, snapshot, mirror,
              checkpoints, availableFrom, overtaken>>

Never == 0    \* a NULL expires_at
UpdateIds == 1 .. Len(createdAt)

HistInit ==
    /\ docClock = 1
    /\ begun = [w \in HistoryWriters |-> 0]
    /\ createdAt = <<>> /\ unmerged = {} /\ snapshot = {} /\ mirror = {}
    /\ checkpoints = {[through |-> 0, at |-> 1, expires |-> Never,
                       holds |-> {}]}
    /\ availableFrom = 1 /\ overtaken = FALSE

HistTypeOK ==
    /\ docClock \in 1 .. MaxDocClock
    /\ begun \in [HistoryWriters -> 0 .. MaxDocClock]
    /\ createdAt \in Seq(1 .. MaxDocClock) /\ Len(createdAt) <= MaxUpdates
    /\ unmerged \subseteq UpdateIds /\ snapshot \subseteq UpdateIds
    /\ mirror \subseteq UpdateIds
    /\ checkpoints \subseteq [through : 0 .. MaxUpdates, at : 1 .. MaxDocClock,
                              expires : 0 .. (MaxDocClock + Retention),
                              holds : SUBSET UpdateIds]
    /\ availableFrom \in 1 .. MaxDocClock
    /\ overtaken \in BOOLEAN

(***************************************************************************)
(* Loading merges the unmerged updates into the snapshot once there are    *)
(* CompactAt of them, and leaves a checkpoint of the merged state at the   *)
(* last merged update.                                                     *)
(***************************************************************************)
Compacts == Cardinality(unmerged) >= CompactAt

CompactionCheckpoint ==
    LET boundary == Max(unmerged)
    IN  [through |-> boundary, at |-> createdAt[boundary],
         expires |-> createdAt[boundary] + Retention,
         holds |-> snapshot \union unmerged]

Compact(added) ==
    /\ snapshot' = snapshot \union unmerged
    /\ checkpoints' = checkpoints \union {CompactionCheckpoint}
    /\ unmerged' = added
    /\ overtaken' = (overtaken \/ \E k \in checkpoints :
                                   k.at > CompactionCheckpoint.at)

LoadDoc ==
    /\ Compacts
    /\ Compact({})
    /\ UNCHANGED <<docClock, begun, createdAt, mirror, availableFrom>>

\* A mutation's transaction begins: now() is fixed from here on.
BeginMutation(w) ==
    /\ begun[w] = 0
    /\ begun' = [begun EXCEPT ![w] = docClock]
    /\ UNCHANGED <<docClock, createdAt, unmerged, snapshot, mirror,
                   checkpoints, availableFrom, overtaken>>

\* mutateDocWithClient once it has the lock: load (which may compact), then
\* the new row in doc_updates and its mirror.
MutateDoc(w) ==
    LET id == Len(createdAt) + 1
    IN  /\ begun[w] # 0 /\ id <= MaxUpdates
        /\ createdAt' = Append(createdAt, begun[w])
        /\ begun' = [begun EXCEPT ![w] = 0]
        /\ IF Compacts
           THEN Compact({id})
           ELSE /\ unmerged' = unmerged \union {id}
                /\ UNCHANGED <<snapshot, checkpoints, overtaken>>
        /\ mirror' = mirror \union {id}
        /\ UNCHANGED <<docClock, availableFrom>>

(***************************************************************************)
(* The retention sweep: a new baseline at the cutoff, built from the       *)
(* nearest checkpoint and the run of updates, contiguous by id, that are   *)
(* no later than the cutoff; what it replaces is deleted.                  *)
(***************************************************************************)
Nearest(at) ==
    LET below == {k \in checkpoints : k.at <= at}
        latest == {k \in below : \A j \in below : j.at <= k.at}
    IN  {k \in latest : \A j \in latest : j.through <= k.through}

Folded(k, cutoff) ==
    {id \in mirror : /\ id > k.through
                     /\ \A j \in mirror : k.through < j /\ j <= id
                                            => createdAt[j] <= cutoff}

InstallBaseline(cutoff, new, through) ==
    /\ checkpoints' = {k \in checkpoints : k.at >= cutoff} \union {new}
    /\ mirror' = {id \in mirror : id > through}

RebaselineDocHistory ==
    LET cutoff == docClock - Retention
    IN  /\ cutoff > availableFrom
        /\ \E k \in Nearest(cutoff) :
              LET folded  == Folded(k, cutoff)
                  through == IF folded = {} THEN k.through ELSE Max(folded)
              IN  InstallBaseline(cutoff,
                      [through |-> through, at |-> cutoff, expires |-> Never,
                       holds |-> k.holds \union folded], through)
        /\ availableFrom' = cutoff
        /\ UNCHANGED <<docClock, begun, createdAt, unmerged, snapshot, overtaken>>

\* A cleanup that takes the NULL expiry of a baseline for a date in the past.
CleanupTakesBaselines ==
    /\ checkpoints' = {k \in checkpoints : k.expires >= docClock}
    /\ UNCHANGED <<docClock, begun, createdAt, unmerged, snapshot, mirror,
                   availableFrom, overtaken>>

CleanupExpiredDocHistory ==
    /\ checkpoints' = {k \in checkpoints : k.expires = Never
                                           \/ k.expires >= docClock}
    /\ UNCHANGED <<docClock, begun, createdAt, unmerged, snapshot, mirror,
                   availableFrom, overtaken>>

DocClockTicks ==
    /\ docClock < MaxDocClock
    /\ docClock' = docClock + 1
    /\ UNCHANGED <<begun, createdAt, unmerged, snapshot, mirror, checkpoints,
                   availableFrom, overtaken>>

HistNext ==
    \/ LoadDoc
    \/ \E w \in HistoryWriters : BeginMutation(w) \/ MutateDoc(w)
    \/ RebaselineDocHistory
    \/ CleanupExpiredDocHistory
    \/ DocClockTicks

HistSpec == HistInit /\ [][HistNext]_histVars

-----------------------------------------------------------------------------
\* openDocVersionAt: the times it answers for, and what it answers with.
Retained(at) == at <= docClock /\ at >= availableFrom
                /\ at >= docClock - Retention

VersionFrom(k, at) ==
    k.holds \union {id \in mirror : id > k.through /\ createdAt[id] <= at}

(***************************************************************************)
(* No time inside the retained window is answered "history not retained":  *)
(* compactions, expiry and re-baselines always leave a checkpoint at or    *)
(* before it (what the comment in compact promises).                       *)
(***************************************************************************)
RetainedHasCheckpoint ==
    \A at \in 1 .. MaxDocClock :
        Retained(at) => \E k \in checkpoints : k.at <= at

\* Every version holds every edit made by its time.
Complete ==
    \A at \in 1 .. MaxDocClock :
        Retained(at) => \A k \in Nearest(at) :
            {id \in UpdateIds : createdAt[id] <= at} \subseteq VersionFrom(k, at)

(***************************************************************************)
(* A version that lacks an edit takes two checkpoints in the wrong order:  *)
(* an update whose transaction began before the boundary of one compaction *)
(* and appended after it must have become the boundary of the next.        *)
(***************************************************************************)
GapsNeedOvertaking == ~overtaken => Complete

(***************************************************************************)
(* Merging updates into the snapshot loses none and repeats none: the      *)
(* document itself is always the snapshot and the unmerged updates, apart. *)
(***************************************************************************)
DocIsWhole == /\ snapshot \union unmerged = UpdateIds
              /\ snapshot \intersect unmerged = {}

-----------------------------------------------------------------------------
(* The inductive invariant behind them. *)

HistShape ==
    /\ docClock \in Nat /\ availableFrom \in Nat
    /\ begun \in [HistoryWriters -> Nat]
    /\ createdAt \in Seq(Nat) /\ mirror \subseteq UpdateIds
    /\ \A k \in checkpoints : /\ k.through \in 0 .. Len(createdAt)
                              /\ k.at \in Nat /\ k.expires \in Nat
    /\ DocIsWhole
    /\ unmerged # {} => Len(createdAt) \in unmerged

(* A baseline does not expire and stands for a time that is answered for;  *)
(* a compaction's checkpoint stands for the time of its last update.       *)
CheckpointTimes ==
    \A k \in checkpoints :
        /\ k.expires = Never => k.at <= availableFrom
        /\ k.expires # Never => k.through > 0 /\ k.at = createdAt[k.through]

\* What the mirror no longer has is in the baseline.
IsBaseline(k) == /\ k.expires = Never /\ k.at = availableFrom
                 /\ \A id \in UpdateIds \ mirror : id <= k.through

(* As long as no checkpoint was overtaken, later ones cover more.          *)
HistoryIsOrdered ==
    /\ \A k \in checkpoints : /\ 1 .. k.through \subseteq k.holds
                              /\ k.through > 0 => createdAt[k.through] <= k.at
    /\ \A j, k \in checkpoints : j.at < k.at => j.through <= k.through
    /\ \E k \in checkpoints : IsBaseline(k)

HistInv ==
    /\ HistShape /\ CheckpointTimes
    /\ \E k \in checkpoints : k.expires = Never /\ k.at = availableFrom
    /\ ~overtaken => HistoryIsOrdered

-----------------------------------------------------------------------------
(***************************************************************************)
(* One collaborative document between its editors and the API process:     *)
(* packages/realtime/src/docSync.ts (subscriptions, the sync handshake,    *)
(* fan-out), packages/data/src/docs/docPersistence.ts (load, compact,      *)
(* append) and packages/realtime-client/src (docSession.ts, syncClient.ts).*)
(*                                                                         *)
(* Edits also come from elsewhere: agents and REST calls append to the     *)
(* document through the same mutateYDoc, in this or another process.       *)
(* An edit is <<author, n>>. A Yjs replica integrates an author's edits in *)
(* their order: an update whose predecessors are missing stays pending, in *)
(* a client's replica until they come, in the server's until its           *)
(* transaction ends, for only what was integrated is captured as a row.    *)
(* A socket is <<client, number>>; the handlers the server starts for its  *)
(* frames run concurrently.                                                *)
(***************************************************************************)

CONSTANTS Editors,        \* the clients that have the document open
          Elsewhere,      \* the author of edits that come through no socket
          MaxDocEdits,    \* bound: edits of each client
          MaxOtherEdits,  \* bound: edits from elsewhere
          MaxDocFaults,   \* bound: lost connections and LISTEN outages,
                          \* updates dropped or not written
          MaxFailedReads, \* bound: reads for a client that reject
          CompactionThreshold

ASSUME DocSyncAssumption ==
    /\ Editors # {} /\ Elsewhere \notin Editors
    /\ {MaxDocEdits, MaxOtherEdits, MaxDocFaults, MaxFailedReads} \subseteq Nat
    /\ CompactionThreshold \in Nat \ {0}

VARIABLES replica,     \* replica[c]: the edits c's document has received
          made,        \* made[a]: how many edits author a has made
          link,        \* link[c]: the number of c's last socket
          attached,    \* attached[c]: c's client still uses that socket
          sockets,     \* sockets[s]: the server's side of each socket
          stored,      \* doc_snapshots, doc_updates and the next row id
          docNotices,     \* the NOTIFYs on their way to this process
          listening,   \* the LISTEN connection
          fanOuts,     \* deliveries of an update in progress
          subscriberSet, \* the generation of the document's subscriber set
          docFaults, failedReads

docVars == <<replica, made, link, attached, sockets, stored, docNotices,
             listening, fanOuts, subscriberSet, docFaults, failedReads>>

Authors == Editors \union {Elsewhere}
Edits == (Editors \X (1 .. MaxDocEdits))
         \union ({Elsewhere} \X (1 .. MaxOtherEdits))
MaxLinks == 2 * MaxDocFaults + 1
Socket == Editors \X (1 .. MaxLinks)

\* What a replica that received S shows: every edit with its predecessors.
Integrated(S) == {e \in S : \A n \in 1 .. e[2] : <<e[1], n>> \in S}

Update(edits) == [kind |-> "update", edits |-> edits]
Step1(edits)  == [kind |-> "step1", edits |-> edits]
Open          == [kind |-> "open", edits |-> {}]

NewSocket == [state |-> "none", opening |-> "no", subscribed |-> FALSE,
              in |-> <<>>, out |-> <<>>, handlers |-> {}, hole |-> "none",
              unsent |-> {}]

DocInit ==
    /\ replica = [c \in Editors |-> {}] /\ made = [a \in Authors |-> 0]
    /\ link = [c \in Editors |-> 1] /\ attached = [c \in Editors |-> TRUE]
    /\ sockets = [s \in Socket |->
          IF s[2] = 1 THEN [NewSocket EXCEPT !.state = "open", !.in = <<Open>>]
                      ELSE NewSocket]
    /\ stored = [snapshot |-> {}, rows |-> {}, next |-> 1]
    /\ docNotices = <<>> /\ listening = TRUE /\ fanOuts = {}
    /\ subscriberSet = 1
    /\ docFaults = 0 /\ failedReads = 0

Messages == [kind : {"update", "step1", "open"}, edits : SUBSET Edits]

DocTypeOK ==
    /\ replica \in [Editors -> SUBSET Edits]
    /\ made \in [Authors -> 0 .. (MaxDocEdits + MaxOtherEdits)]
    /\ link \in [Editors -> 0 .. MaxLinks]
    /\ attached \in [Editors -> BOOLEAN]
    /\ \A s \in Socket :
          /\ sockets[s].state \in {"none", "open", "closing", "closed"}
          /\ sockets[s].opening \in {"no", "lookup", "load", "done"}
          /\ sockets[s].subscribed \in BOOLEAN
          /\ sockets[s].hole \in {"none", "dropped", "accepted"}
          /\ {sockets[s].in, sockets[s].out} \subseteq Seq(Messages)
          /\ sockets[s].handlers \subseteq Messages
          /\ sockets[s].unsent \subseteq Edits
    /\ stored.snapshot \subseteq Edits /\ stored.next \in Nat
    /\ \A r \in stored.rows : r.id \in Nat /\ r.edits \subseteq Edits
    /\ docNotices \in Seq(Nat) /\ listening \in BOOLEAN
    /\ fanOuts \subseteq [id : Nat, set : Nat]
    /\ subscriberSet \in Nat
    /\ docFaults \in 0 .. MaxDocFaults /\ failedReads \in 0 .. MaxFailedReads

-----------------------------------------------------------------------------
\* The stored document, and what loading it leaves behind.
Contents == stored.snapshot \union UNION {r.edits : r \in stored.rows}

Loaded == IF Cardinality(stored.rows) >= CompactionThreshold
          THEN [stored EXCEPT !.snapshot = Contents, !.rows = {}]
          ELSE stored

Current(c)   == <<c, link[c]>>
IsOpen(s)    == sockets[s].state = "open"
Subscribers  == {s \in Socket : sockets[s].subscribed}

\* sendWithBackpressure: nothing is sent on a socket that is no longer open.
Sent(ss, s, msg) ==
    IF ss[s].state = "open" THEN [ss EXCEPT ![s].out = Append(@, msg)] ELSE ss

\* unsubscribe: an emptied subscriber set is dropped, a later one is new.
SetAfter(ss) ==
    IF Subscribers # {} /\ \A s \in Socket : ~ss[s].subscribed
    THEN subscriberSet + 1 ELSE subscriberSet

-----------------------------------------------------------------------------
(* The client *)

\* A local edit goes out at once if the client has a socket.
Edit(c) ==
    LET e == <<c, made[c] + 1>>
    IN  /\ made[c] < MaxDocEdits
        /\ made' = [made EXCEPT ![c] = @ + 1]
        /\ replica' = [replica EXCEPT ![c] = @ \union {e}]
        /\ IF attached[c]
           THEN sockets' = [sockets EXCEPT ![Current(c)].in =
                                Append(@, Update({e}))]
           ELSE UNCHANGED sockets
        /\ UNCHANGED <<link, attached, stored, docNotices, listening, fanOuts,
                       subscriberSet, docFaults, failedReads>>

\* establishConnection and onopen: the document is opened anew.
Connect(c) ==
    /\ ~attached[c] /\ link[c] < MaxLinks
    /\ link' = [link EXCEPT ![c] = @ + 1]
    /\ attached' = [attached EXCEPT ![c] = TRUE]
    /\ sockets' = [sockets EXCEPT ![<<c, link[c] + 1>>].state = "open",
                                  ![<<c, link[c] + 1>>].in = <<Open>>]
    /\ UNCHANGED <<replica, made, stored, docNotices, listening, fanOuts,
                   subscriberSet, docFaults, failedReads>>

\* docSession.handlePayload: answer SyncStep1 with what the server lacks (an
\* empty answer is left out, it has no effect) and with an own SyncStep1;
\* take any update in.
Replies(c, msg) ==
    LET lacking == replica[c] \ msg.edits
    IN  (IF lacking = {} THEN <<>> ELSE <<Update(lacking)>>)
        \o <<Step1(Integrated(replica[c]))>>

ClientReceives(c) ==
    /\ attached[c] /\ sockets[Current(c)].out # <<>>
    /\ LET s == Current(c)
           msg == Head(sockets[s].out)
       IN  IF msg.kind = "step1"
           THEN /\ sockets' = [sockets EXCEPT
                                  ![s].out = Tail(@),
                                  ![s].in = @ \o Replies(c, msg)]
                /\ UNCHANGED replica
           ELSE /\ replica' = [replica EXCEPT ![c] = @ \union msg.edits]
                /\ sockets' = [sockets EXCEPT ![s].out = Tail(@)]
    /\ UNCHANGED <<made, link, attached, stored, docNotices, listening, fanOuts,
                   subscriberSet, docFaults, failedReads>>

\* A socket that broke: its client has let it go, what was under way in
\* either direction is lost, and the server has still to notice.
Cut(s) == [sockets[s] EXCEPT !.state = "closing", !.in = <<>>, !.out = <<>>]

ConnectionBreaks(c) ==
    /\ attached[c] /\ docFaults < MaxDocFaults
    /\ attached' = [attached EXCEPT ![c] = FALSE]
    /\ sockets' = [sockets EXCEPT ![Current(c)] = Cut(Current(c))]
    /\ docFaults' = docFaults + 1
    /\ UNCHANGED <<replica, made, link, stored, docNotices, listening, fanOuts,
                   subscriberSet, failedReads>>

-----------------------------------------------------------------------------
(* The server *)

\* handleSocketClosed. A handler that has only an answer for the closed
\* socket left to send has no further effect.
Gone(s) == [sockets[s] EXCEPT
               !.state = "closed", !.subscribed = FALSE, !.hole = "none",
               !.in = <<>>, !.out = <<>>, !.unsent = {},
               !.opening = IF @ = "lookup" THEN @ ELSE "done",
               !.handlers = {m \in @ : m.kind = "update"}]

\* The server's own close event of a socket that broke.
SocketClosed(s) ==
    /\ sockets[s].state = "closing"
    /\ sockets' = [sockets EXCEPT ![s] = Gone(s)]
    /\ subscriberSet' = SetAfter(sockets')
    /\ UNCHANGED <<replica, made, link, attached, stored, docNotices, listening,
                   fanOuts, docFaults, failedReads>>

(***************************************************************************)
(* A frame arrives. doc:open starts handleOpen; a binary frame of a socket *)
(* that is not subscribed is dropped; an update may be over the rate       *)
(* limit and is then dropped too; anything else starts its handler.        *)
(***************************************************************************)
Frame(s) == Head(sockets[s].in)
Popped(s) == [sockets EXCEPT ![s].in = Tail(@)]

FrameArrives(s) ==
    /\ sockets[s].in # <<>>
    /\ \/ /\ Frame(s).kind = "open"
          /\ sockets' = [Popped(s) EXCEPT ![s].opening = "lookup"]
       \/ /\ Frame(s).kind # "open" /\ ~sockets[s].subscribed
          /\ sockets' = Popped(s)
       \/ /\ Frame(s).kind # "open" /\ sockets[s].subscribed
          /\ sockets' = [Popped(s) EXCEPT ![s].handlers = @ \union {Frame(s)}]
    /\ UNCHANGED <<replica, made, link, attached, stored, docNotices, listening,
                   fanOuts, subscriberSet, docFaults, failedReads>>

RateLimited(s) ==
    /\ sockets[s].in # <<>>
    /\ Frame(s).kind = "update" /\ sockets[s].subscribed
    /\ docFaults < MaxDocFaults
    /\ sockets' = [Popped(s) EXCEPT ![s].hole = "dropped"]
    /\ docFaults' = docFaults + 1
    /\ UNCHANGED <<replica, made, link, attached, stored, docNotices, listening,
                   fanOuts, subscriberSet, failedReads>>

\* handleOpen after getDocById: subscribe, if the socket is still open.
Subscribe(s) ==
    sockets' = IF IsOpen(s)
               THEN [sockets EXCEPT ![s].subscribed = TRUE,
                                    ![s].opening = "load"]
               ELSE [sockets EXCEPT ![s].opening = "done"]

OpenLookedUp(s) ==
    /\ sockets[s].opening = "lookup"
    /\ Subscribe(s)
    /\ UNCHANGED <<replica, made, link, attached, stored, docNotices, listening,
                   fanOuts, subscriberSet, docFaults, failedReads>>

(***************************************************************************)
(* A read for the client rejects (getDocById, loadYDoc, getDocUpdateById): *)
(* the error is logged and nothing else happens. The socket stays open and *)
(* nothing retries; unsent is the history of what was not sent on it.      *)
(* A document that was never looked up sends, and accepts, nothing at all. *)
(***************************************************************************)
OpenFails(s) ==
    /\ sockets[s].opening \in {"lookup", "load"}
    /\ failedReads < MaxFailedReads
    /\ sockets' = [sockets EXCEPT
                      ![s].opening = "done", ![s].hole = "dropped",
                      ![s].unsent = IF sockets[s].opening = "lookup" THEN Edits
                                    ELSE Contents]
    /\ failedReads' = failedReads + 1
    /\ UNCHANGED <<replica, made, link, attached, stored, docNotices, listening,
                   fanOuts, subscriberSet, docFaults>>

\* handleOpen after loadYDoc: the server's SyncStep1.
OpenLoaded(s) ==
    /\ sockets[s].opening = "load"
    /\ stored' = Loaded
    /\ sockets' = Sent([sockets EXCEPT ![s].opening = "done"], s,
                       Step1(Contents))
    /\ UNCHANGED <<replica, made, link, attached, docNotices, listening, fanOuts,
                   subscriberSet, docFaults, failedReads>>

\* The client's SyncStep1 is answered with what it lacks.
AnswerStep1(s, msg) ==
    /\ msg \in sockets[s].handlers /\ msg.kind = "step1"
    /\ stored' = Loaded
    /\ sockets' = Sent([sockets EXCEPT ![s].handlers = @ \ {msg}], s,
                       Update(Contents \ msg.edits))
    /\ UNCHANGED <<replica, made, link, attached, docNotices, listening, fanOuts,
                   subscriberSet, docFaults, failedReads>>

AnswerFails(s, msg) ==
    /\ msg \in sockets[s].handlers /\ msg.kind = "step1"
    /\ failedReads < MaxFailedReads
    /\ sockets' = [sockets EXCEPT ![s].handlers = @ \ {msg},
                                  ![s].unsent = @ \union (Contents \ msg.edits)]
    /\ failedReads' = failedReads + 1
    /\ UNCHANGED <<replica, made, link, attached, stored, docNotices, listening,
                   fanOuts, subscriberSet, docFaults>>

(***************************************************************************)
(* mutateYDoc for an update: what it adds to the loaded document becomes a *)
(* row, announced after the commit; nothing added, no row.                 *)
(***************************************************************************)
Added(msg) == Integrated(Contents \union msg.edits) \ Contents

ApplyUpdate(s, msg) ==
    /\ msg \in sockets[s].handlers /\ msg.kind = "update"
    /\ IF Added(msg) = {}
       THEN /\ stored' = Loaded
            /\ UNCHANGED docNotices
       ELSE /\ stored' = [Loaded EXCEPT
                  !.rows = @ \union {[id |-> stored.next, edits |-> Added(msg)]},
                  !.next = @ + 1]
            /\ docNotices' = IF listening THEN Append(docNotices, stored.next)
                          ELSE docNotices
    /\ sockets' = [sockets EXCEPT
                      ![s].handlers = @ \ {msg},
                      ![s].hole = IF ~(msg.edits \subseteq
                                       Contents \union Added(msg)) \/ @ # "none"
                                  THEN "accepted" ELSE @]
    /\ UNCHANGED <<replica, made, link, attached, listening, fanOuts,
                   subscriberSet, docFaults, failedReads>>

\* mutateYDoc fails: it is logged, and the update is dropped.
UpdateFails(s, msg) ==
    /\ msg \in sockets[s].handlers /\ msg.kind = "update"
    /\ docFaults < MaxDocFaults
    /\ sockets' = [sockets EXCEPT ![s].handlers = @ \ {msg},
                                  ![s].hole = "dropped"]
    /\ docFaults' = docFaults + 1
    /\ UNCHANGED <<replica, made, link, attached, stored, docNotices, listening,
                   fanOuts, subscriberSet, failedReads>>

-----------------------------------------------------------------------------
(* Fan-out *)

\* A doc_update NOTIFY: without subscribers there is nobody to tell.
NoticeArrives ==
    /\ listening /\ docNotices # <<>>
    /\ docNotices' = Tail(docNotices)
    /\ fanOuts' = IF Subscribers = {} THEN fanOuts
                  ELSE fanOuts \union {[id |-> Head(docNotices),
                                        set |-> subscriberSet]}
    /\ UNCHANGED <<replica, made, link, attached, sockets, stored, listening,
                   subscriberSet, docFaults, failedReads>>

Referenced(f) == {r \in stored.rows : r.id = f.id}

\* The row's update, or the whole document when the row is already merged.
FanOutBytes(f) == IF Referenced(f) # {}
                  THEN UNION {r.edits : r \in Referenced(f)}
                  ELSE Contents

Audience(f) == {s \in Subscribers : f.set = subscriberSet /\ IsOpen(s)}

FanOutDocUpdate(f) ==
    /\ f \in fanOuts
    /\ fanOuts' = fanOuts \ {f}
    /\ stored' = IF Referenced(f) # {} THEN stored ELSE Loaded
    /\ sockets' = [s \in Socket |->
          IF s \in Audience(f)
          THEN [sockets[s] EXCEPT !.out = Append(@, Update(FanOutBytes(f)))]
          ELSE sockets[s]]
    /\ UNCHANGED <<replica, made, link, attached, docNotices, listening,
                   subscriberSet, docFaults, failedReads>>

FanOutFails(f) ==
    /\ f \in fanOuts /\ failedReads < MaxFailedReads
    /\ fanOuts' = fanOuts \ {f}
    /\ sockets' = [s \in Socket |->
          IF s \in Audience(f)
          THEN [sockets[s] EXCEPT !.unsent = @ \union FanOutBytes(f)]
          ELSE sockets[s]]
    /\ failedReads' = failedReads + 1
    /\ UNCHANGED <<replica, made, link, attached, stored, docNotices, listening,
                   subscriberSet, docFaults>>

\* closeAll: every open socket is closed with "service restart"; both sides
\* see the end of it.
CloseAll ==
    /\ sockets' = [s \in Socket |-> IF IsOpen(s) THEN Gone(s) ELSE sockets[s]]
    /\ subscriberSet' = SetAfter(sockets')
    /\ attached' = [c \in Editors |-> FALSE]

ListenLost ==
    /\ listening /\ docFaults < MaxDocFaults
    /\ listening' = FALSE /\ docNotices' = <<>>
    /\ CloseAll
    /\ docFaults' = docFaults + 1
    /\ UNCHANGED <<replica, made, link, stored, fanOuts, failedReads>>

ListenRestored ==
    /\ ~listening /\ listening' = TRUE
    /\ CloseAll
    /\ UNCHANGED <<replica, made, link, stored, docNotices, fanOuts, docFaults,
                   failedReads>>

\* An edit from elsewhere: appended, and announced after its commit.
MutateElsewhere ==
    /\ made[Elsewhere] < MaxOtherEdits
    /\ made' = [made EXCEPT ![Elsewhere] = @ + 1]
    /\ stored' = [Loaded EXCEPT
          !.rows = @ \union {[id |-> stored.next,
                              edits |-> {<<Elsewhere, made[Elsewhere] + 1>>}]},
          !.next = @ + 1]
    /\ docNotices' = IF listening THEN Append(docNotices, stored.next) ELSE docNotices
    /\ UNCHANGED <<replica, link, attached, sockets, listening, fanOuts,
                   subscriberSet, docFaults, failedReads>>

\* Any other reader of the document, the compaction sweep among them.
LoadedElsewhere ==
    /\ Loaded # stored
    /\ stored' = Loaded
    /\ UNCHANGED <<replica, made, link, attached, sockets, docNotices, listening,
                   fanOuts, subscriberSet, docFaults, failedReads>>

ClientStep(c) == Connect(c) \/ ClientReceives(c)

Handles(s) ==
    \/ FrameArrives(s) \/ OpenLookedUp(s) \/ OpenLoaded(s) \/ SocketClosed(s)
    \/ \E msg \in sockets[s].handlers : AnswerStep1(s, msg) \/ ApplyUpdate(s, msg)

FansOut == NoticeArrives \/ \E f \in fanOuts : FanOutDocUpdate(f)

DocNext ==
    \/ \E c \in Editors : Edit(c) \/ ClientStep(c) \/ ConnectionBreaks(c)
    \/ \E s \in Socket : \/ Handles(s) \/ RateLimited(s) \/ OpenFails(s)
                          \/ \E msg \in sockets[s].handlers :
                                UpdateFails(s, msg) \/ AnswerFails(s, msg)
    \/ \E f \in fanOuts : FanOutFails(f)
    \/ FansOut \/ ListenLost \/ ListenRestored \/ MutateElsewhere \/ LoadedElsewhere

(***************************************************************************)
(* The event loop and the client's reconnect timer keep running; editing,  *)
(* faults and the sweep need not happen.                                   *)
(***************************************************************************)
DocSpec ==
    /\ DocInit /\ [][DocNext]_docVars
    /\ \A c \in Editors : WF_docVars(ClientStep(c))
    /\ \A s \in Socket : WF_docVars(Handles(s))
    /\ WF_docVars(FansOut) /\ WF_docVars(ListenRestored)

-----------------------------------------------------------------------------
\* Nothing is under way between the server and c, and c's socket is open.
Settled(c) ==
    LET s == Current(c)
    IN  /\ attached[c] /\ IsOpen(s) /\ listening
        /\ sockets[s].opening = "done" /\ sockets[s].handlers = {}
        /\ sockets[s].in = <<>> /\ sockets[s].out = <<>>

(***************************************************************************)
(* A client whose socket is open and quiet shows everything the server has *)
(* stored, but for what a failed read kept from this very socket: neither  *)
(* a compaction before the fan-out, nor a LISTEN outage, nor a failure on  *)
(* an earlier socket leaves a gap.                                         *)
(***************************************************************************)
SettledClientIsCurrent ==
    \A c \in Editors : Settled(c) /\ docNotices = <<>> /\ fanOuts = {}
        => Contents \subseteq replica[c] \union sockets[Current(c)].unsent

(***************************************************************************)
(* A quiet client's edits are stored, those it made offline or while the   *)
(* open was in progress included, unless the server dropped or could not   *)
(* integrate an update of this very socket, or failed to open it.          *)
(***************************************************************************)
UnstoredNeedsADrop ==
    \A c \in Editors : Settled(c) /\ sockets[Current(c)].hole = "none"
                       => replica[c] \subseteq Contents

(***************************************************************************)
(* A socket that is gone is in no subscriber set: the open that was        *)
(* looking its document up when it closed does not subscribe it.           *)
(***************************************************************************)
DeadSocketsAreReleased ==
    \A s \in Socket : sockets[s].state = "closed" => ~sockets[s].subscribed

(***************************************************************************)
(* After the last disturbance every client ends up with the stored         *)
(* document, through as many reconnections as it takes, but for what a     *)
(* failed read kept from the socket it is left with.                       *)
(***************************************************************************)
ClientsAgree ==
    \A c \in Editors :
        Contents \subseteq replica[c] \union sockets[Current(c)].unsent
=============================================================================
