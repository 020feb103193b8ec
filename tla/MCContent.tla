----------------------------- MODULE MCContent ------------------------------
(***************************************************************************)
(* A tenant's content, part by part: the bytes of files and their          *)
(* transcription, Inbox items, the creation and the trash of items, the    *)
(* schema of a database with its retypes and rollups, tasks and their due  *)
(* dates, the pages and the stored order of views. They share no state in  *)
(* the model, so the stage picks the one that moves and their state spaces *)
(* add up.                                                                 *)
(***************************************************************************)
EXTENDS Files, Inbox, ItemLifecycle, Schema, Tasks, Views

\* Weeks of three days, and years of eight months, the second a leap year.
CalendarMonths == <<7, 4, 7, 5, 6, 7, 7, 7, 7, 5, 7, 5, 6, 7, 7, 7, 7, 4, 7, 5, 6, 7, 7, 7>>

KeyRanges == <<{1, 2}, {1}>>

\* One of the values that a part at rest has
OneRule == CHOOSE r \in DueRules : r.kind = "floating" /\ r.unit = "days"
OneTable == [i \in RowIds |-> [keys |-> <<1, 1>>, deleted |-> FALSE]]
OneParent == CHOOSE i \in Parents : TRUE
OneFilter == CHOOSE f \in Filters : TRUE

VARIABLE stage

contentVars ==
    <<stage, blobVars, transVars, inboxVars, createVars, trashVars, schemaVars,
      migrationVars, rollupVars, taskVars, dueVars, pageVars, viewVars>>

ContentInit ==
    /\ stage \in {"files", "transcription", "inbox", "create", "trash",
                    "schema", "retype", "rollups", "tasks", "due", "pages",
                    "views"}
    \* one initial state for the parts at rest
    /\ BlobInit
    /\ TransInit
    /\ InboxInit /\ (stage # "inbox" => emoji = 1)
    /\ CreateInit /\ (stage # "create" => ~archivedC)
    /\ TrashInit /\ (stage # "trash" => frozen = {})
    /\ SchemaInit /\ (stage # "schema" => props = {} /\ srcType = "text" /\ lockedDb = {})
    /\ MigrationInit /\ (stage # "retype" => held = [i \in 1 .. NRows |-> "num"])
    \* the parents are alike: only one of them begins with a child
    /\ RollupInit /\ edges \subseteq {OneParent} \X Children
    /\ (stage # "rollups" => cardinal = "one_to_one" /\ declared /\ edges = {})
    /\ TaskInit /\ (stage # "tasks" => exclusive)
    /\ DueInit /\ (stage # "due" => dueRule = OneRule /\ day = 0)
    /\ PageInit /\ (stage # "pages" => row = OneTable /\ filter = OneFilter /\ sorts = <<>>)
    /\ ViewInit /\ (stage # "views" => view.createdBy = "user" /\ position = <<>>)

(* The types of every part.                                                *)
ContentTypeOK ==
    /\ BlobTypeOK /\ TransTypeOK /\ InboxTypeOK /\ CreateTypeOK
    /\ TrashTypeOK /\ SchemaTypeOK /\ MigrationTypeOK /\ RollupTypeOK
    /\ TaskTypeOK /\ DueTypeOK /\ PageTypeOK /\ ViewTypeOK

ContentNext ==
    /\ UNCHANGED stage
    /\ \/ stage = "files" /\ BlobNext
            /\ UNCHANGED <<transVars, inboxVars, createVars, trashVars,
                            schemaVars, migrationVars, rollupVars, taskVars,
                            dueVars, pageVars, viewVars>>
       \/ stage = "transcription" /\ TransNext
            /\ UNCHANGED <<blobVars, inboxVars, createVars, trashVars,
                            schemaVars, migrationVars, rollupVars, taskVars,
                            dueVars, pageVars, viewVars>>
       \/ stage = "inbox" /\ InboxNext
            /\ UNCHANGED <<blobVars, transVars, createVars, trashVars,
                            schemaVars, migrationVars, rollupVars, taskVars,
                            dueVars, pageVars, viewVars>>
       \/ stage = "create" /\ CreateNext
            /\ UNCHANGED <<blobVars, transVars, inboxVars, trashVars,
                            schemaVars, migrationVars, rollupVars, taskVars,
                            dueVars, pageVars, viewVars>>
       \/ stage = "trash" /\ TrashNext
            /\ UNCHANGED <<blobVars, transVars, inboxVars, createVars,
                            schemaVars, migrationVars, rollupVars, taskVars,
                            dueVars, pageVars, viewVars>>
       \/ stage = "schema" /\ SchemaNext
            /\ UNCHANGED <<blobVars, transVars, inboxVars, createVars,
                            trashVars, migrationVars, rollupVars, taskVars,
                            dueVars, pageVars, viewVars>>
       \/ stage = "retype" /\ MigrationNext
            /\ UNCHANGED <<blobVars, transVars, inboxVars, createVars,
                            trashVars, schemaVars, rollupVars, taskVars,
                            dueVars, pageVars, viewVars>>
       \/ stage = "rollups" /\ RollupNext
            /\ UNCHANGED <<blobVars, transVars, inboxVars, createVars,
                            trashVars, schemaVars, migrationVars, taskVars,
                            dueVars, pageVars, viewVars>>
       \/ stage = "tasks" /\ TaskNext
            /\ UNCHANGED <<blobVars, transVars, inboxVars, createVars,
                            trashVars, schemaVars, migrationVars,
                            rollupVars, dueVars, pageVars, viewVars>>
       \/ stage = "due" /\ DueNext
            /\ UNCHANGED <<blobVars, transVars, inboxVars, createVars,
                            trashVars, schemaVars, migrationVars,
                            rollupVars, taskVars, pageVars, viewVars>>
       \/ stage = "pages" /\ PageNext
            /\ UNCHANGED <<blobVars, transVars, inboxVars, createVars,
                            trashVars, schemaVars, migrationVars,
                            rollupVars, taskVars, dueVars, viewVars>>
       \/ stage = "views" /\ ViewNext
            /\ UNCHANGED <<blobVars, transVars, inboxVars, createVars,
                            trashVars, schemaVars, migrationVars,
                            rollupVars, taskVars, dueVars, pageVars>>

(* The fairness of each component, in its own stage.                       *)
ContentSpec ==
    /\ ContentInit /\ [][ContentNext]_contentVars
    /\ \A r \in Runners : WF_transVars(stage = "transcription" /\ TransStep(r))
    /\ WF_inboxVars(stage = "inbox" /\ ReadTickSnapshot)
    /\ WF_inboxVars(stage = "inbox" /\ WriteTickResult)
    /\ WF_inboxVars(stage = "inbox" /\ RecomputeJournalInboxDay)
    /\ WF_migrationVars(stage = "retype" /\ MigrationStep)

-----------------------------------------------------------------------------
(* The safety properties of the components, each stated and explained in   *)
(* its own module: files and their transcription, Inbox cards, the trash,  *)
(* the schema of a database with its retypes and rollups, tasks and their  *)
(* due dates, the pages and the order of views.                            *)
ContentIsSafe ==
    /\ ContentTypeOK
    /\ FilesHaveBytes /\ NoLeakedBytes /\ OneFilePerContent
    /\ OneAudio /\ PaidOncePerLoss /\ AudioIsKept /\ PendingIsTakenUp
    /\ OneLiveCard /\ ConfirmedWritesOnce /\ CardIsUpToDate /\ DayIsCurrent
    /\ RestoreKeepsOwnDeletes /\ TrashIsRetained /\ CascadeIsWhole
    /\ RollupIsSound /\ PairsAreWhole /\ DefaultFitsType
    /\ DoneMeansConverted /\ ConvertedStays /\ CellsAreCurrent
    /\ CardinalityHolds
    /\ OneActiveInstance /\ TimeIsDerived /\ DueIsFirst /\ NoDateMeansNone
    /\ PagesCoverUntouched /\ PagesAreOrdered /\ PositionsAreUnique
    /\ UnmovedShownOnce

(* What no step may do to a tenant's content: write over a locked          *)
(* transcription, take a decision on a card back, answer with an item that *)
(* is not live, create into an archived database, purge a live row, delete *)
(* a locked property, lose a concurrent update, override an owner, or drop *)
(* a field of a patch.                                                     *)
ContentStepsAreSound ==
    /\ LockIsRespected /\ DecisionsStand
    /\ AnswersAreLive /\ ArchivedGetsNothing /\ LiveRowsSurvive
    /\ LockedPropertiesStay /\ NoLostUpdate
    /\ AgentsRespectOwners /\ PatchesMerge

(* A transcription ends with what the user is shown, and a retyped         *)
(* property with its last cell.                                            *)
ContentSettles ==
    <>[](/\ stage = "transcription" => TranscriptionSettled
         /\ stage = "retype" => RetypeSettled)
=============================================================================
