------------------------------- MODULE Files --------------------------------
(***************************************************************************)
(* Uploaded files: the bytes behind their items, and the transcription of  *)
(* an audio file.                                                          *)
(***************************************************************************)
EXTENDS Naturals, Sequences, FiniteSets

-----------------------------------------------------------------------------
(***************************************************************************)
(* Uploads of the same bytes to the Files database (fileUploadStore.ts,    *)
(* blobsStore.ts) beside the trash purge of the Files items they made.     *)
(* The bytes are stored before the transaction, because their hash drives  *)
(* the deduplication; a blob row is named by the storage key it was        *)
(* inserted with, which is named by its upload.  Nothing but the item's    *)
(* properties links a Files item to its blob.                              *)
(***************************************************************************)

CONSTANTS Uploads,        \* uploads of identical bytes
          NoKey,          \* no storage key
          MaxBlobFaults   \* bound: failed transactions, lost answers, failed deletions

ASSUME BlobAssumption == NoKey \notin Uploads /\ MaxBlobFaults \in Nat

VARIABLES
  up,         \* upload -> its stage
  uses,       \* upload -> the key of the blob row its transaction works with
  stored,     \* keys whose bytes are in storage
  blobRow,    \* the key of the committed blob row of this hash, NoKey without one
  fileItem,   \* upload -> state of the Files item it created
  refers,     \* upload -> blob key that item's `file` property names
  purging,    \* the Files item whose purge transaction is open, with what it deletes
  blobFaults, \* faults so far
  blobOvertaken,  \* uploads that were open when the purge deleted the row they use
  unanswered, \* uploads whose COMMIT answer was lost
  undeleted,  \* keys whose deletion from storage failed
  withdrawn   \* items that have been in the trash

blobVars == <<up, uses, stored, blobRow, fileItem, refers, purging, blobFaults, blobOvertaken,
              unanswered, undeleted, withdrawn>>

NoPurge == [item |-> NoKey, blob |-> NoKey]
OpenTx  == {"holding", "reading", "deciding", "writing"}
Referenced(k, items) == \E f \in items : fileItem[f] \in {"live", "trashed"} /\ refers[f] = k
MayFault == blobFaults < MaxBlobFaults

\* ingestUploadedFile streams the bytes first; a failed stream leaves none.
WriteStream(u) ==
  /\ up[u] = "idle"
  /\ \/ up' = [up EXCEPT ![u] = "stored"] /\ stored' = stored \cup {u} /\ UNCHANGED blobFaults
     \/ /\ MayFault /\ up' = [up EXCEPT ![u] = "failed"]
        /\ blobFaults' = blobFaults + 1 /\ UNCHANGED stored
  /\ UNCHANGED <<uses, blobRow, fileItem, refers, purging, blobOvertaken, unanswered, undeleted, withdrawn>>

\* findOrCreateBlob: the insert waits for an open insert of the same hash and
\* for an open deletion of the row; over a committed row it does nothing.
FindOrCreateBlob(u) ==
  /\ up[u] = "stored"
  /\ \A v \in Uploads \ {u} : ~(up[v] \in OpenTx /\ uses[v] = v)
  /\ purging.blob = NoKey
  /\ IF blobRow = NoKey
     THEN /\ uses' = [uses EXCEPT ![u] = u] /\ up' = [up EXCEPT ![u] = "deciding"]
     ELSE up' = [up EXCEPT ![u] = "reading"] /\ UNCHANGED uses
  /\ UNCHANGED <<stored, blobRow, fileItem, refers, purging, blobFaults, blobOvertaken, unanswered,
                 undeleted, withdrawn>>

\* getBlobByContentHash after the conflict: the row may have vanished.
GetBlobByContentHash(u) ==
  /\ up[u] = "reading"
  /\ IF blobRow = NoKey
     THEN up' = [up EXCEPT ![u] = "aborted"] /\ UNCHANGED uses
     ELSE /\ uses' = [uses EXCEPT ![u] = blobRow]
          /\ up' = [up EXCEPT ![u] = "deciding"]
  /\ UNCHANGED <<stored, blobRow, fileItem, refers, purging, blobFaults, blobOvertaken, unanswered,
                 undeleted, withdrawn>>

\* findFileItemByBlobId: a live committed item of this blob is withdrawn.
FindFileItemByBlobId(u) ==
  /\ up[u] = "deciding"
  /\ up' = [up EXCEPT ![u] = IF \E f \in Uploads : fileItem[f] = "live" /\ refers[f] = uses[u]
                             THEN "holding" ELSE "writing"]
  /\ UNCHANGED <<uses, stored, blobRow, fileItem, refers, purging, blobFaults, blobOvertaken,
                 unanswered, undeleted, withdrawn>>

Committed(u) ==
  /\ blobRow' = IF uses[u] = u THEN u ELSE blobRow
  /\ IF up[u] = "writing"
     THEN fileItem' = [fileItem EXCEPT ![u] = "live"] /\ refers' = [refers EXCEPT ![u] = uses[u]]
     ELSE UNCHANGED <<fileItem, refers>>

\* The transaction commits; bytes of a duplicate are deleted after it.
CommitUpload(u) ==
  /\ up[u] \in {"holding", "writing"}
  /\ Committed(u)
  /\ up' = [up EXCEPT ![u] = IF uses[u] = u THEN "done" ELSE "duplicate"]
  /\ UNCHANGED <<uses, stored, purging, blobFaults, blobOvertaken, unanswered, undeleted, withdrawn>>

\* The answer to COMMIT is lost: to the caller the transaction threw.
CommitUploadUnanswered(u) ==
  /\ up[u] \in {"holding", "writing"} /\ MayFault
  /\ Committed(u)
  /\ up' = [up EXCEPT ![u] = "aborted"]
  /\ unanswered' = unanswered \cup {u}
  /\ blobFaults' = blobFaults + 1
  /\ UNCHANGED <<uses, stored, purging, blobOvertaken, undeleted, withdrawn>>

UploadFails(u) ==
  /\ up[u] \in OpenTx /\ MayFault
  /\ up' = [up EXCEPT ![u] = "aborted"]
  /\ blobFaults' = blobFaults + 1
  /\ UNCHANGED <<uses, stored, blobRow, fileItem, refers, purging, blobOvertaken, unanswered,
                 undeleted, withdrawn>>

\* The bytes just streamed are deleted: a duplicate's after the commit, a
\* failed transaction's after the rollback.  A failed deletion is logged.
DeleteOwnBytes(u) ==
  /\ up[u] \in {"duplicate", "aborted"}
  /\ up' = [up EXCEPT ![u] = IF up[u] = "aborted" THEN "failed" ELSE "done"]
  /\ \/ stored' = stored \ {u} /\ UNCHANGED <<undeleted, blobFaults>>
     \/ /\ MayFault /\ undeleted' = undeleted \cup {u}
        /\ blobFaults' = blobFaults + 1 /\ UNCHANGED stored
  /\ UNCHANGED <<uses, blobRow, fileItem, refers, purging, blobOvertaken, unanswered, withdrawn>>

\* The user trashes a Files item, or restores it.
TrashFile(f) ==
  /\ fileItem[f] = "live" /\ purging.item # f
  /\ fileItem' = [fileItem EXCEPT ![f] = "trashed"]
  /\ withdrawn' = withdrawn \cup {f}
  /\ UNCHANGED <<up, uses, stored, blobRow, refers, purging, blobFaults, blobOvertaken, unanswered,
                 undeleted>>
RestoreFile(f) ==
  /\ fileItem[f] = "trashed" /\ purging.item # f
  /\ fileItem' = [fileItem EXCEPT ![f] = "live"]
  /\ UNCHANGED <<up, uses, stored, blobRow, refers, purging, blobFaults, blobOvertaken, unanswered,
                 undeleted, withdrawn>>

\* Uploads that will commit although the row they use is going.
OpenOn(k) == IF k = NoKey THEN {}
             ELSE {u \in Uploads : up[u] = "reading" \/ (up[u] \in OpenTx /\ uses[u] = k)}

\* The purge transaction: the item is removed and deleteBlobIfUnreferenced
\* deletes the row unless a committed item, live or trashed, names it.
PurgeFile(f) ==
  /\ purging = NoPurge /\ fileItem[f] = "trashed"
  /\ purging' = [item |-> f,
                 blob |-> IF blobRow = refers[f] /\ ~Referenced(blobRow, Uploads \ {f})
                          THEN blobRow ELSE NoKey]
  /\ blobOvertaken' = blobOvertaken \cup OpenOn(purging'.blob)
  /\ UNCHANGED <<up, uses, stored, blobRow, fileItem, refers, blobFaults, unanswered,
                 undeleted, withdrawn>>

\* It commits, and the sweep then removes the bytes; a failure is logged.
CommitPurgeFile ==
  /\ purging.item # NoKey
  /\ fileItem' = [fileItem EXCEPT ![purging.item] = "purged"]
  /\ blobRow' = IF purging.blob = NoKey THEN blobRow ELSE NoKey
  /\ purging' = NoPurge
  /\ IF purging.blob = NoKey THEN UNCHANGED <<stored, undeleted, blobFaults>>
     ELSE \/ stored' = stored \ {purging.blob} /\ UNCHANGED <<undeleted, blobFaults>>
          \/ /\ MayFault /\ undeleted' = undeleted \cup {purging.blob}
             /\ blobFaults' = blobFaults + 1 /\ UNCHANGED stored
  /\ UNCHANGED <<up, uses, refers, blobOvertaken, unanswered, withdrawn>>

BlobInit ==
  /\ up = [u \in Uploads |-> "idle"]
  /\ uses = [u \in Uploads |-> NoKey]
  /\ stored = {} /\ blobRow = NoKey
  /\ fileItem = [u \in Uploads |-> "none"]
  /\ refers = [u \in Uploads |-> NoKey]
  /\ purging = NoPurge /\ blobFaults = 0
  /\ blobOvertaken = {} /\ unanswered = {} /\ undeleted = {} /\ withdrawn = {}

BlobNext ==
  \/ \E u \in Uploads :
       \/ WriteStream(u) \/ FindOrCreateBlob(u) \/ GetBlobByContentHash(u)
       \/ FindFileItemByBlobId(u) \/ CommitUpload(u) \/ CommitUploadUnanswered(u)
       \/ UploadFails(u) \/ DeleteOwnBytes(u)
       \/ TrashFile(u) \/ RestoreFile(u) \/ PurgeFile(u)
  \/ CommitPurgeFile

BlobSpec == BlobInit /\ [][BlobNext]_blobVars

----------------------------------------------------------------------------
BlobTypeOK ==
  /\ up \in [Uploads -> OpenTx \cup {"idle", "stored", "aborted", "duplicate", "done", "failed"}]
  /\ uses \in [Uploads -> Uploads \cup {NoKey}]
  /\ stored \subseteq Uploads /\ blobRow \in Uploads \cup {NoKey}
  /\ fileItem \in [Uploads -> {"none", "live", "trashed", "purged"}]
  /\ blobFaults \in 0 .. MaxBlobFaults

\* A Files item, live or in the trash, has its blob row and its bytes, unless
\* the purge deleted the row while the item's upload was using it, or the
\* upload that stored the bytes believed its transaction had failed.
FilesHaveBytes ==
  \A f \in Uploads :
    fileItem[f] \in {"live", "trashed"} =>
      \/ blobRow = refers[f] /\ refers[f] \in stored
      \/ f \in blobOvertaken
      \/ refers[f] \in unanswered

\* Bytes no blob row names are an upload's still in flight, or storage refused
\* to delete them.
NoLeakedBytes ==
  \A k \in stored : \/ blobRow = k
                    \/ up[k] \in OpenTx \cup {"stored", "aborted", "duplicate"}
                    \/ k \in undeleted

\* Identical uploads converge on one live item however they interleave, as
\* long as none of these items has been in the trash: over the row of a
\* trashed item two uploads do not wait for one another.
OneFilePerContent ==
  \A f, g \in Uploads :
    f # g /\ fileItem[f] = "live" /\ fileItem[g] = "live" /\ refers[f] = refers[g]
      => \E h \in withdrawn : refers[h] = refers[f]

-----------------------------------------------------------------------------
(***************************************************************************)
(* The transcription of one recording (semprec-transcribe's                *)
(* transcriptionTask.ts): a keyed job with three attempts in a lane of its *)
(* own, a pipeline whose stages each leave a checkpoint, the user's lock   *)
(* on the transcript, the daily requeue of failed ones, and shutdown. A    *)
(* bracketed stage reads and calls in one step here and writes in another, *)
(* so that a lock, a new file or another run can come between.             *)
(***************************************************************************)

CONSTANTS
    Runners,            \* runs of the job's handler
    Chunks,             \* how many pieces the recording is transcribed in
    MaxTries,           \* maxAttempts of the job
    MaxAudio,           \* normalised files the instance may make
    MaxTFaults,         \* failures, shutdowns, deaths, lost answers, expired job locks
    MaxUserActs         \* locks, unlocks, new files and reruns by the user

ASSUME TranscriptionAssumption ==
    /\ Chunks \in Nat \ {0} /\ MaxTries \in Nat \ {0}
    /\ MaxAudio \in Nat /\ MaxTFaults \in Nat /\ MaxUserActs \in Nat

VARIABLES
    made,           \* the checkpoint of every stage: the audio it was made from, 0 before it exists
    linked,         \* matchTranscriptToEvent: "none", "event" or "card"
    automation,     \* item_automation.status, "none" before step 0
    shown,          \* the transcript's own status
    runs,           \* what every run of the handler does
    tjob,           \* the job under the file's key
    file,           \* the version of the source file
    audio,          \* normalised files in the storage
    nAudio,         \* normalised files so far
    paid,           \* answered calls per stage
    wasted,         \* history: answers per stage that were not written
    orphans,        \* history: files left by a death or an unknown COMMIT
    excused,        \* history: the user locked the row, a run died or lost its job, or its end was not recorded
    tFaults, userActs

transVars == <<made, linked, automation, shown, runs, tjob, file, audio, nAudio, paid, wasted,
               orphans, excused, tFaults, userActs>>

(* The stages in their order; every chunk is a stage of its own.           *)
Prepare == 1
Diarize == 2
Asr == {2 + c : c \in 1 .. Chunks}
Merge == Chunks + 3
Summarize == Chunks + 4
Match == Chunks + 5
Suggest == Chunks + 6
Finalize == Chunks + 7
Stages == Prepare .. Finalize
Bracketed == {Prepare, Diarize, Summarize, Suggest} \cup Asr
PaidStages == Bracketed \ {Prepare}

Resting == [at |-> 0, phase |-> "idle", src |-> 0, got |-> 0, try |-> 0, keyed |-> FALSE]
Stage(r) == runs[r].at
Set(r, f) == runs' = [runs EXCEPT ![r] = f]
Phase(r, p) == Set(r, [runs[r] EXCEPT !.phase = p])

TransInit ==
    /\ made = [s \in Stages |-> 0] /\ linked = "none" /\ automation = "none" /\ shown = "none"
    /\ runs = [r \in Runners |-> Resting]
    /\ tjob = [state |-> "queued", tries |-> 0, holder |-> {}]
    /\ file = 1 /\ audio = {} /\ nAudio = 0
    /\ paid = [s \in PaidStages |-> 0] /\ wasted = [s \in PaidStages |-> 0]
    /\ orphans = {} /\ excused = FALSE /\ tFaults = 0 /\ userActs = 0

TransTypeOK ==
    /\ made \in [Stages -> 0 .. MaxAudio] /\ linked \in {"none", "event", "card"}
    /\ automation \in {"none", "pending", "done", "error", "locked"}
    /\ shown \in {"none", "processing", "done", "error"}
    /\ \A r \in Runners : /\ runs[r].at \in 0 .. Finalize /\ runs[r].try \in 0 .. MaxTries
                          /\ runs[r].phase \in {"idle", "create", "attempt", "read", "write", "failed",
                                                "rejected", "interrupted"}
    /\ tjob.state \in {"none", "queued", "running", "dead"} /\ tjob.tries \in 0 .. MaxTries
    /\ tjob.holder \subseteq Runners /\ Cardinality(tjob.holder) <= 1
    /\ audio \subseteq 1 .. MaxAudio /\ nAudio \in 0 .. MaxAudio

TFault == tFaults < MaxTFaults /\ tFaults' = tFaults + 1
UserAct == userActs < MaxUserActs /\ userActs' = userActs + 1
data == <<made, linked, automation, shown, file, audio, nAudio, paid>>
history == <<wasted, orphans, excused>>
bounds == <<tFaults, userActs>>

-----------------------------------------------------------------------------
(* graphile-worker: a keyed enqueue replaces the job, or takes the key     *)
(* from one that runs; the lane holds one job at a time.                   *)
Enqueued == [state |-> "queued", tries |-> 0, holder |-> {}]
Detached == [r \in Runners |-> [runs[r] EXCEPT !.keyed = FALSE]]
LaneFree == \A r \in Runners : runs[r].phase = "idle" \/ (runs[r].keyed /\ r \notin tjob.holder)

Claim(r) ==
    /\ runs[r].phase = "idle" /\ tjob.state = "queued" /\ LaneFree
    /\ tjob' = [state |-> "running", tries |-> tjob.tries + 1, holder |-> {r}]
    /\ Set(r, [Resting EXCEPT !.phase = "create", !.try = tjob.tries + 1, !.keyed = TRUE])
    /\ UNCHANGED <<data, history, bounds>>

(* A job that ended well is deleted, whoever holds it; a failure counts    *)
(* only from the worker that holds it.                                     *)
Completed(r) == tjob' = IF runs[r].keyed THEN [state |-> "none", tries |-> 0, holder |-> {}] ELSE tjob
Failed(r) ==
    tjob' = IF runs[r].keyed /\ r \in tjob.holder
            THEN [tjob EXCEPT !.state = IF @ = "running" THEN IF tjob.tries < MaxTries THEN "queued" ELSE "dead" ELSE @,
                              !.holder = {}]
            ELSE tjob

(* The run's handler ends; an answer it has not written is lost.           *)
Wasted(r) ==
    wasted' = IF runs[r].phase = "write" /\ Stage(r) \in PaidStages
              THEN [wasted EXCEPT ![Stage(r)] = @ + 1] ELSE wasted
Done(r) == Set(r, Resting)

-----------------------------------------------------------------------------
(* Step 0 and the start of the attempt, outside the handler's try.         *)
RunCreateStep(r) ==
    /\ runs[r].phase = "create" /\ Phase(r, "attempt")
    /\ automation' = (IF automation = "none" THEN "pending" ELSE automation)
    /\ shown' = (IF shown = "none" THEN "processing" ELSE shown)
    /\ UNCHANGED <<made, linked, file, audio, nAudio, paid, tjob, history, bounds>>

StartTranscriptionAttempt(r) ==
    /\ runs[r].phase = "attempt"
    /\ IF automation = "locked"
       THEN Done(r) /\ Completed(r) /\ UNCHANGED automation
       ELSE /\ Set(r, [runs[r] EXCEPT !.phase = "read", !.at = 1])
            /\ automation' = "pending" /\ UNCHANGED tjob
    /\ UNCHANGED <<made, linked, shown, file, audio, nAudio, paid, history, bounds>>

StartFails(r) ==
    /\ runs[r].phase \in {"create", "attempt"} /\ TFault /\ Done(r) /\ Failed(r) /\ excused' = TRUE
    /\ UNCHANGED <<data, wasted, orphans, userActs>>

-----------------------------------------------------------------------------
Unlocked == automation # "locked"
NextStage(r) == Set(r, [runs[r] EXCEPT !.at = @ + 1, !.phase = "read", !.got = 0])

(* requireTranscriptionUnlocked throws: the handler returns and records    *)
(* nothing.                                                                *)
StopAtLock(r) ==
    /\ runs[r].phase \in {"read", "write"} /\ ~Unlocked
    /\ runs[r].phase = "read" => (made[Stage(r)] = 0 \/ Stage(r) \notin Asr)
    /\ Done(r) /\ Completed(r) /\ Wasted(r)
    /\ audio' = (IF runs[r].phase = "write" /\ Stage(r) = Prepare THEN audio \ {runs[r].got} ELSE audio)
    /\ UNCHANGED <<made, linked, automation, shown, file, nAudio, paid, orphans, excused, bounds>>

(* readSpeakerSuggestionContext: there is somebody to ask about.           *)
AsksSpeakers == linked = "event"

(* A stage whose checkpoint exists is skipped.                             *)
Skip(r) ==
    /\ runs[r].phase = "read" /\ Stage(r) \in Bracketed
    /\ made[Stage(r)] # 0 \/ (Stage(r) = Suggest /\ ~AsksSpeakers)
    /\ Unlocked \/ Stage(r) \notin {Prepare, Diarize, Summarize, Suggest}
    /\ NextStage(r) /\ UNCHANGED <<data, tjob, history, bounds>>

(* The read transaction of step 1 and ffmpeg, which stores a new file.     *)
Normalize(r) ==
    /\ runs[r].phase = "read" /\ Stage(r) = Prepare /\ Unlocked /\ made[Prepare] = 0 /\ nAudio < MaxAudio
    /\ nAudio' = nAudio + 1 /\ audio' = audio \cup {nAudio + 1}
    /\ Set(r, [runs[r] EXCEPT !.phase = "write", !.src = file, !.got = nAudio + 1])
    /\ UNCHANGED <<made, linked, automation, shown, file, paid, tjob, history, bounds>>

(* Step 1's write: another run's checkpoint stands; a file replaced        *)
(* meanwhile is an error. Audio that no row refers to is discarded.        *)
PrepareWrite(r) ==
    /\ runs[r].phase = "write" /\ Stage(r) = Prepare /\ Unlocked
    /\ CASE made[Prepare] # 0 ->
              NextStage(r) /\ audio' = audio \ {runs[r].got} /\ UNCHANGED made
         [] made[Prepare] = 0 /\ file # runs[r].src ->
              Phase(r, "failed") /\ audio' = audio \ {runs[r].got} /\ UNCHANGED made
         [] OTHER ->
              NextStage(r) /\ made' = [made EXCEPT ![Prepare] = runs[r].got] /\ UNCHANGED audio
    /\ UNCHANGED <<linked, automation, shown, file, nAudio, paid, tjob, history, bounds>>

(* The COMMIT of step 1's write fails, or its answer is lost: the file     *)
(* stays either way.                                                       *)
CommitUnknown(r) ==
    /\ runs[r].phase = "write" /\ Stage(r) = Prepare /\ Unlocked /\ made[Prepare] = 0 /\ file = runs[r].src
    /\ TFault /\ Phase(r, "failed")
    /\ \/ made' = [made EXCEPT ![Prepare] = runs[r].got] /\ UNCHANGED orphans
       \/ orphans' = orphans \cup {runs[r].got} /\ UNCHANGED made
    /\ UNCHANGED <<linked, automation, shown, file, audio, nAudio, paid, tjob, wasted, excused, userActs>>

(* A paid stage: the read of its input and the call's answer.              *)
Call(r, S) ==
    /\ runs[r].phase = "read" /\ Stage(r) \in S /\ Unlocked /\ made[Stage(r)] = 0
    /\ Stage(r) = Suggest => AsksSpeakers
    /\ paid' = [paid EXCEPT ![Stage(r)] = @ + 1]
    /\ Set(r, [runs[r] EXCEPT !.phase = "write",
                              !.got = made[IF Stage(r) \in {Summarize, Suggest} THEN Merge ELSE Prepare]])
    /\ UNCHANGED <<made, linked, automation, shown, file, audio, nAudio, tjob, history, bounds>>

(* The write transaction: the first checkpoint stands.                     *)
WriteCheckpoint(r, S) ==
    /\ runs[r].phase = "write" /\ Stage(r) \in S /\ Unlocked
    /\ IF made[Stage(r)] # 0 THEN Wasted(r) /\ UNCHANGED made
       ELSE made' = [made EXCEPT ![Stage(r)] = runs[r].got] /\ UNCHANGED wasted
    /\ NextStage(r)
    /\ UNCHANGED <<linked, automation, shown, file, audio, nAudio, paid, tjob, orphans, excused, bounds>>

(* Steps 2, 3, 5 and 7: a call between two transactions.                   *)
RunDiarizeStep(r) == Call(r, {Diarize}) \/ WriteCheckpoint(r, {Diarize})
RunAsrStep(r) == Call(r, Asr) \/ WriteCheckpoint(r, Asr)
RunSummarizeStep(r) == Call(r, {Summarize}) \/ WriteCheckpoint(r, {Summarize})
RunSuggestSpeakersStep(r) == Call(r, {Suggest}) \/ WriteCheckpoint(r, {Suggest})

(* Step 4: the segments, written once, from every checkpoint before it.    *)
RunMergeStep(r) ==
    /\ runs[r].phase = "read" /\ Stage(r) = Merge /\ Unlocked
    /\ IF made[Merge] = 0 /\ \E s \in {Prepare, Diarize} \cup Asr : made[s] = 0
       THEN Phase(r, "failed") /\ UNCHANGED made
       ELSE NextStage(r) /\ made' = [made EXCEPT ![Merge] = IF @ = 0 THEN made[Prepare] ELSE @]
    /\ UNCHANGED <<linked, automation, shown, file, audio, nAudio, paid, tjob, history, bounds>>

(* Step 6: an existing edge or card is left; otherwise the one event, or a *)
(* card.                                                                   *)
RunMatchStep(r) ==
    /\ runs[r].phase = "read" /\ Stage(r) = Match /\ Unlocked /\ NextStage(r)
    /\ IF linked = "none" THEN linked' \in {"event", "card"} ELSE UNCHANGED linked
    /\ UNCHANGED <<made, automation, shown, file, audio, nAudio, paid, tjob, history, bounds>>

(* Step 8.                                                                 *)
RunFinalizeStep(r) ==
    /\ runs[r].phase = "read" /\ Stage(r) = Finalize /\ Unlocked
    /\ IF shown = "done" \/ (made[Merge] # 0 /\ made[Summarize] # 0)
       THEN shown' = "done" /\ automation' = "done" /\ Done(r) /\ Completed(r)
       ELSE Phase(r, "failed") /\ UNCHANGED <<shown, automation, tjob>>
    /\ UNCHANGED <<made, linked, file, audio, nAudio, paid, history, bounds>>

-----------------------------------------------------------------------------
(* A statement, a media tool or the gateway fails; the budget refuses a    *)
(* call; the worker shuts down before a stage.                             *)
StepFails(r) ==
    /\ runs[r].phase \in {"read", "write"} /\ TFault /\ Phase(r, "failed") /\ Wasted(r)
    /\ audio' = (IF runs[r].phase = "write" /\ Stage(r) = Prepare THEN audio \ {runs[r].got} ELSE audio)
    /\ UNCHANGED <<made, linked, automation, shown, file, nAudio, paid, tjob, orphans, excused, userActs>>

BudgetRejects(r) ==
    /\ runs[r].phase = "read" /\ Stage(r) \in PaidStages /\ made[Stage(r)] = 0 /\ Unlocked
    /\ TFault /\ Phase(r, "rejected") /\ UNCHANGED <<data, tjob, history, userActs>>

Interrupted(r) ==
    /\ runs[r].phase = "read" /\ TFault /\ Phase(r, "interrupted") /\ UNCHANGED <<data, tjob, history, userActs>>

(* The interrupted run queues a fresh job, which takes the key, and        *)
(* returns; when that fails its job is retried.                            *)
ReEnqueue(r) ==
    /\ runs[r].phase = "interrupted"
    /\ \/ tjob' = Enqueued /\ runs' = [Detached EXCEPT ![r] = Resting] /\ UNCHANGED <<tFaults, excused>>
       \/ TFault /\ Done(r) /\ Failed(r) /\ excused' = TRUE
    /\ UNCHANGED <<data, wasted, orphans, userActs>>

(* The failed run completes its job and records nothing.                   *)
FailureSwallowed(r) ==
    /\ runs[r].phase \in {"failed", "rejected"} /\ Done(r) /\ Completed(r)
    /\ UNCHANGED <<data, history, bounds>>

(* recordTranscriptionFailure: nothing on a locked row; the last attempt   *)
(* and a budget rejection are permanent, and the rejected job completes.   *)
RecordTranscriptionFailure(r) ==
    /\ runs[r].phase \in {"failed", "rejected"} /\ Done(r)
    /\ LET permanent == runs[r].phase = "rejected" \/ runs[r].try = MaxTries
       IN /\ automation' = (IF ~Unlocked THEN automation ELSE IF permanent THEN "error" ELSE "pending")
          /\ shown' = (IF Unlocked /\ permanent THEN "error" ELSE shown)
    /\ IF runs[r].phase = "rejected" THEN Completed(r) ELSE Failed(r)
    /\ UNCHANGED <<made, linked, file, audio, nAudio, paid, history, bounds>>

(* The record itself fails and is only logged: the job fails.              *)
RecordFails(r) ==
    /\ runs[r].phase \in {"failed", "rejected"} /\ TFault /\ Done(r) /\ Failed(r) /\ excused' = TRUE
    /\ UNCHANGED <<data, wasted, orphans, userActs>>

(* The process dies: graphile-worker releases its job after four hours.    *)
RunDies(r) ==
    /\ runs[r].phase # "idle" /\ TFault /\ Done(r) /\ Failed(r) /\ Wasted(r) /\ excused' = TRUE
    /\ orphans' = (IF runs[r].phase = "write" /\ Stage(r) = Prepare THEN orphans \cup {runs[r].got} ELSE orphans)
    /\ UNCHANGED <<data, userActs>>

(* A run outlives the four hours: its job is up for another worker.        *)
JobLockExpires(r) ==
    /\ runs[r].phase # "idle" /\ runs[r].keyed /\ r \in tjob.holder /\ tjob.tries < MaxTries
    /\ TFault /\ tjob' = [tjob EXCEPT !.state = "queued", !.holder = {}] /\ excused' = TRUE
    /\ UNCHANGED <<data, runs, wasted, orphans, userActs>>

-----------------------------------------------------------------------------
(* The user's lock; an unlocked row is pending.                            *)
SetLocked ==
    /\ UserAct /\ automation # "none" /\ excused' = TRUE
    /\ automation' = (IF automation = "locked" THEN "pending" ELSE "locked")
    /\ UNCHANGED <<made, linked, shown, runs, tjob, file, audio, nAudio, paid, wasted, orphans, tFaults>>

ReplaceFile ==
    /\ UserAct /\ file' = file + 1
    /\ UNCHANGED <<made, linked, automation, shown, runs, tjob, audio, nAudio, paid, history, tFaults>>

(* The rerun route, which refuses a locked row, and the daily sweep.       *)
Rerun ==
    /\ UserAct /\ automation \notin {"none", "locked"} /\ tjob' = Enqueued /\ runs' = Detached
    /\ UNCHANGED <<data, history, tFaults>>

RequeueSweep ==
    /\ UserAct /\ automation = "error" /\ tjob' = Enqueued /\ runs' = Detached
    /\ UNCHANGED <<data, history, tFaults>>

TransStep(r) ==
    \/ Claim(r) \/ RunCreateStep(r) \/ StartTranscriptionAttempt(r) \/ StopAtLock(r) \/ Skip(r)
    \/ Normalize(r) \/ PrepareWrite(r) \/ RunDiarizeStep(r) \/ RunAsrStep(r)
    \/ RunSummarizeStep(r) \/ RunSuggestSpeakersStep(r) \/ RunMergeStep(r)
    \/ RunMatchStep(r) \/ RunFinalizeStep(r) \/ ReEnqueue(r) \/ RecordTranscriptionFailure(r)

TransNext ==
    \/ \E r \in Runners :
         \/ TransStep(r) \/ StartFails(r) \/ CommitUnknown(r) \/ StepFails(r) \/ BudgetRejects(r)
         \/ Interrupted(r) \/ RecordFails(r) \/ RunDies(r) \/ JobLockExpires(r)
    \/ SetLocked \/ ReplaceFile \/ Rerun \/ RequeueSweep

TransFairness == \A r \in Runners : WF_transVars(TransStep(r))

TransSpec == TransInit /\ [][TransNext]_transVars /\ TransFairness

-----------------------------------------------------------------------------
(* Everything a transcript was made from comes from one normalised file,   *)
(* although runs may overlap and the recording may be replaced.            *)
OneAudio == \A s \in Stages : made[s] # 0 => made[s] = made[Prepare]

(* A paid stage is answered again only when an answer was lost before it   *)
(* was written: a retry never repeats what a checkpoint holds.             *)
PaidOncePerLoss ==
    \A s \in PaidStages :
        paid[s] <= wasted[s] + (IF made[s] # 0 THEN 1 ELSE 0)
                     + Cardinality({r \in Runners : runs[r].phase = "write" /\ Stage(r) = s})

(* The audio of the checkpoint is in the storage, and a file no row refers *)
(* to belongs to a run that is about to write, or was left by a fault.     *)
AudioIsKept ==
    /\ made[Prepare] # 0 => made[Prepare] \in audio
    /\ \A a \in audio : \/ a = made[Prepare] \/ a \in orphans
                        \/ \E r \in Runners : runs[r].phase = "write" /\ runs[r].got = a

(* A pending transcript that no run and no job will take up was locked at  *)
(* some time, or a run died, outlived its job or could not record its end. *)
PendingIsTakenUp ==
    automation = "pending" /\ ~excused
        => tjob.state \in {"queued", "running"} \/ \E r \in Runners : runs[r].phase # "idle"

(* While the user holds the lock no run changes the transcript or its      *)
(* checkpoints, whatever it was doing when the lock was set.               *)
LockIsRespected ==
    [][automation = "locked" /\ automation' = "locked" => UNCHANGED <<made, linked, shown>>]_transVars

(* A queued transcription is settled: done, failed, or left to the user.   *)
TranscriptionSettled == automation = "pending" => excused
=============================================================================
