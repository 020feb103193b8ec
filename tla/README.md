# Semprec: verification of the backend's protocols

Semprec is a multi-tenant personal workspace: items in typed databases, mail,
collaborative documents, agents that act on them, and a scheduler. Its backend
(`src/backend`) is a set of TypeScript services over one PostgreSQL database, a
graphile-worker job queue, and providers outside (AI models, IMAP, Gmail,
Microsoft Graph, SMTP, MCP tools). Its own logic is in `src/backend/packages`;
the services wire it up.

Almost every state change is one database transaction, so what is hard is what
lies *between* transactions: a provider call between two of them, a job that is
delivered twice or never, a read that is stale when it is used, a crash after
half of an effect. That is what these modules model. A transaction whose
statements cannot be seen apart by others is one action; one whose reads other
transactions can overtake under READ COMMITTED is several.

Contents: [the system](#the-system), [modules and the code](#modules-and-the-code),
[runs](#runs), [bounds](#bounds), [fairness](#fairness), [proofs](#proofs),
[only model-checked](#only-model-checked),
[finding and observations](#finding-and-observations),
[what is not modelled](#what-is-not-modelled), [plan](#plan).

To run: `tlc -config <X>.cfg <MC module>` for the runs below and
`tlapm <X>Proofs.tla` for the proofs. `PROJECT.json` maps the definitions to their
lines of the source and lists the hazards of the code, each at its line, with
the properties that guard it. The map leaves out what stands for the
environment (the clock, crashes, writes of other users) and definitions, mostly
helpers, whose lines all lie within those of the definitions that it lists.

## The system

State is in PostgreSQL unless noted. "Correct when" is what the properties of a
component say. Paths are below `src/backend/packages` unless they start with
`services`, `web` or `.github`.

| Component | State | Operations | Correct when |
|---|---|---|---|
| approval queue (`data/src/mcp/approval*`, `application/src/genericOperationGateway.ts`) | `approval_requests` rows, a keyed job per approved row | request, decide, deliver, claim, call, record, replay, settle a stale claim | one decision, at most one effect, one outcome that is true; everything approved ends |
| AI budget (`ai-gateway/src/gateway.ts`) | `ai_gateway_calls` ledger, `tenant_ai_budgets` | reserve, settle, fail | caps hold under concurrency; a paid call is never forgotten |
| AI gateway service (`services/semprec-ai-gateway`) | slots and streams (memory) | four routes, abort, drain, shutdown | what is billed is counted; slots match requests; a shutdown ends |
| heartbeat scheduler (`data/src/scheduler`) | `project_heartbeats`, `heartbeat_occurrences`, fire jobs | edit, enable, sweep, prepare, start, finish, close out | each due time has one handler at a time; no heartbeat silently stops |
| calendar (`data/src/scheduler/nextFireAt.ts`) | none | `computeNextFireAt` | strictly later, on the rule's local time, nothing skipped |
| agent run jobs, agent sessions (`agent-runtime/src`, `data/src/scheduler`) | `agent_runs`, conversations and delegations (memory) | start, turn, sleep, wake, compact, expire, abort, repair | one truthful end; no turn on a closed row |
| documents (`realtime/src/docSync.ts`, `data/src/docs`) | snapshot, updates, checkpoints; sockets (memory) | open, update, compact, re-baseline, fan out | nothing lost by a compaction; clients agree; history is complete |
| realtime clients (`realtime/src/agentRunWatch.ts`, sync client) | watches, sockets, timers (memory) | watch, replay, reconnect | no event falls between replay and live |
| sync server and push (`realtime/src/syncServer.ts`, `data/src/notifications`) | sockets (memory), deliveries | NOTIFY, invalidate, revoke, deactivate; fan out | the newest version arrives; pushed once |
| mail flags, mailbox sync, IMAP, live sync, sending (`data/src/mail`) | flag rows, cursors, folder edges, attachment bytes, claims, lifecycles (memory) | observe, write back, ingest, remove, watch, idle, claim, submit, file | both sides agree; nothing lost or duplicated; a draft is sent once |
| web mailbox (`web/src/views/mailbox`) | the list and the composers (memory) | move, save, send | what was typed is kept; a reply goes out once |
| items and trash (`data/src/chokePoint`) | items, reservations, partitions | create under a key, trash, restore, purge | one item per key; no live row destroyed |
| schema, relations, rollups (`data/src/schemaOps`, `rollup`) | properties, edges, cells | change, retype, migrate, link, recompute | cells end equal to their sources; no pair torn |
| tasks (`data/src/tasks`), views (`data/src/views`), inbox (`data/src/inbox`) | items, positions, cards | update, recur; page, reorder, patch; tick, decide | one next instance; every row paged once; decisions stand |
| files and transcription (`data/src/files`, `services/semprec-transcribe`) | bytes, blob rows, checkpoints | upload, purge, transcribe, lock | rows have bytes; no stage paid twice; the lock is respected |
| accounts (`data/src/tenancy`), limiter (`services/semprec-api`) | users, sessions, registrations; windows (memory) | log in, reset, suspend, demote, delete | an active administrator remains; revoked means gone |
| end of a tenant (`data/src/tenancy`) | purge steps, exports | erase, export | nothing survives an erasure; an export ends |
| deployment (`data/src/seed`, `dataMigrations`) | seeds, migration progress | seed, activate, migrate | whole or not at all; recorded means converted |
| job queue, connection pool (`queue`, `data/src/db/pool.ts`) | jobs; connections and callbacks (memory) | enqueue, attempt, checkout, commit | every change has a job; statements run as their own tenant |
| health checks (`data/src/observability`), module registry (`module-registry`) | check rows; loaded modules (memory) | evaluate, alert, prune; load, project | alerted once; identifiers unambiguous |
| review follow-ups (`.github/scripts/review-followups`) | labels and markers on GitHub | harvest, triage, publish | each finding published once |

How they interact. The queue delivers to the scheduler, the approval executor,
mail, transcription, rollups and the fanout; graphile-worker retries a failed
job with a growing delay and takes over a dead worker's job after its lock
expires, so every handler must stand redelivery. A suspended tenant's job is
*completed* without running (`queue/src/index.ts:365`), which each of them
inherits. Every statement goes through the pool, which scopes its transaction
to a tenant. The choke point is the only writer of items and enqueues
follow-ups (rollups, flag rows) in its own transaction. Agents reach it through
the generic operations, whose destructive ones stop at the approval queue. All
provider calls for models go through the gateway's ledger. Commits announce
themselves by NOTIFY to the realtime service.

## Modules and the code

Each module stands for the files its definitions are mapped to. State variables
are named after the columns, fields or maps they stand for; what has no
counterpart in the code (history for a property, a budget) says so at its
declaration. An operation is the action with the name of the function in the
code; a function that other processes can overtake between its statements is
one action per part, with the place in a `pc` field of its record. Operators
whose comment begins with "A mutant" are plausible bugs in a mapped definition,
one for each property of each run.

**The approval queue.** `ApprovalContract` is the promise: a request is decided
once, an approved one has at most one effect, its outcome is written once and
never changes. `ApprovalExecution` is the code, and implements it
(`ImplementsContract`, with the row's columns and the effects as the mapping).
Its state: a row per request (`status`, `execution_status`, `executed_at` as
`claimed` and its `age`, the snapshot's version); the keyed `approvalExecute`
job with its attempts, wait and lock; each worker's place in the handler; the
row lock of a destructive replay; the resources that requests name. Two
protocols share the queue. `mcpInvoke` claims the row in one transaction, calls
the tool outside any, and records the outcome in another; a delivery that finds
a claim younger than `StaleAfter` fails and uses up an attempt, an older one is
settled as a conflict whose effect is unknown. Destructive operations run in one
READ COMMITTED transaction: lock the row, recompute the projection, compare it
with the approved snapshot, mutate, settle; other writers commit in between. Of
the five destructive kinds two are kept, `item.delete` for those that succeed
when the resource is gone, `property.delete` for those that raise `not_found`
and touch a second row.

**The AI budget.** `AiBudget`: one ledger row per call. `Begin` fixes the row's
time at BEGIN; the global advisory lock, the tenant's status, its caps, its
spend, the global spend and the insert are separate actions, because settles,
failures and administration commit in between without that lock. Settling is
tried `SettleMaxAttempts` times; each try may be rejected, or commit with its
answer lost. `complete`, `embed`, `transcribe` and `diarize` take the same
steps and are one kind of call. `GatewayCalls` has the service around it: the
slots of the audio routes, streams, clients that leave, drain and shutdown; a
reservation there is granted or refused.

**The scheduler.** `Heartbeats`: `project_heartbeats`, occurrences per
(heartbeat, due time) with a generation, fire jobs keyed by both. A fixed rule
advances in the sweep; a floating one is unscheduled until its fire first
starts. The application clock may lag the database's by `MaxLag`. The calendar
is the constant operator `NextFireAt(_, _, _)`, of which one thing is assumed:
a next fire is later than the time it is computed from. `NextFireAt`, the
module, checks that of the real one: `computeNextFireAt` over integer instants,
in a zone whose offset shifts once. luxon is external and modelled from its
use.

**Mail.** `MailFlags` is one flag of one IMAP message with copies in several
folders: the item's property with `desired_state` and `current_state`, and
passes that select, observe, list pending writes without a lock, send them copy
by copy, confirm and commit. `MailSync` is the Gmail and Graph reconcile (cursor,
listing, ingest, attachment bytes outside the transaction); `Imap` the reconcile
of a folder (UIDNEXT, UIDVALIDITY, QRESYNC) and the connection budget with its
queue; `MailLiveSync` the root that hosts a lifecycle per account, and the
notifications of Gmail and Graph; `MailSend` the claim of a draft, its
submission, compensation and filing, and the synchronisation that meets the
sent copy; `MailboxClient` the web client's list and composers.

**Agents.** `AgentRunJobs`: `agentRun` jobs and the fires of one occurrence in
the agents process, the listener that aborts runs of a deactivated tenant,
startup repair, and a job whose lock went stale while its first worker lives.
`AgentSessions`: a conversation that sleeps, wakes, is compacted and dropped,
and delegated sessions with their timers.

**Documents and clients.** `Documents`: the stored form with its compaction and
re-baseline, and the synchronisation of open copies through handshake, updates,
NOTIFY and fan-out, each of whose reads may reject: the error is logged, and the
socket stays open without what it was to be sent (`unsent`). Yjs is a set of edits with their order. `RealtimeClient`: the
watch of a run, and the client's connection with its timer and gate.
`ServerPush`: sockets, coalesced invalidations, revocation, deactivation,
shutdown; the fanout job.

**Content.** `ItemLifecycle`: creation under an idempotency key by concurrent
requests, and the trash of a chain of nested rows, where every operation walks
on an unlocked read and then writes row by row. `Schema`: the guards of schema
changes, the batches of a retype, rollup cells with their recompute jobs and the
paged backfill. `Tasks`: concurrent updates of a
series and the recurrence calendar. `Views`: pages of a computed view beside
edits, positions and patches of a curated one. `Inbox`: an item's card between
ticks and the user. `Files`: bytes and blob rows under uploads and purges, the
stages of a transcription.

**The platform.** `Authentication`: account operations with their row locks,
sessions and registrations; the limiter. `TenantLifecycle`: the resumable
purge beside late writers, exports with their job, whose claim stands outside
the handler's `try` and has one attempt. `HealthChecks`, `Deployment`
(seeding, activation, data migrations), `ModuleRegistry` (loading with its
awaits). `Database`: the job queue and the pool. `FollowUps`: the review
pipeline, whose state is on GitHub.

The `MC` modules give the constants values. `MCMail`, `MCSessions`,
`MCPlatform`, `MCContent`, `MCServices` and `MCScheduler` put several modules
into one run: the parts share no state in the model, so a variable `stage`,
chosen initially, picks the one that moves, the others rest in one initial
state, and the state spaces add up instead of multiplying.

## Runs

Eleven runs pass; one shows a violation. A property named below `... Is/Are Safe`,
`...StepsAreSound` or `...Settle(s)` is the conjunction of named properties, each
stated and explained in its own module.

| Run | Instance | What it shows |
|---|---|---|
| `approval_mcp` | 1 tool request, 2 workers, 5 attempts, stale after 2 ticks, 2 failures, 2 edits | `AtMostOnce`: the tool never runs twice; `OutcomeIsTrue`; `ApprovedIsNotStranded`: attempts outlast the stale time; the contract (`ImplementsContract`); `ApprovedIsSettled`: everything approved ends |
| `approval_generic` | 3 destructive requests on 2 resources, 2 workers; 1 failure, edit, suspension; workers and the two like requests symmetric | `IndInv`, the invariant of the proof; `OutcomeIsTrue` |
| `approval_torn_delete` | the same without faults | *violation* of `ConflictChangesNothing`, see the finding |
| `ai_budget_faults` | 2 calls of 1 tenant, 2 failures, 1 change of caps or status | `AnsweredIsCounted`, `OnlyFaultsStrandReservations`, `RowsAreFinal`, `EveryCallEnds` |
| `ai_budget_concurrent` | 3 calls, 2 tenants in different offsets, 3 days in 2 months | `CapsHold`: in every window, tenant and global, the calls overshoot a cap by less than one estimate |
| `heartbeats` | 1 heartbeat, 1 editor, 2 zones, clock to 2, 2 attempts, 2 generations, four mixes of disturbances | `OneHandlerPerOccurrence`, `FiresAtMostOnce`, `NotSilentlyUnscheduled`, `NeverStalledWithoutEdits`; `DeadJobsAreReported`: a job that ran out of attempts, here after two failures, leaves its occurrence recorded |
| `scheduler` | clock to 3, 3 attempts, lag 1; three errors, so that a job dies, or an error and a crash; and the calendar: days of 6 instants, weeks of 3 days, shifts of 1 and 2 either way, horizon 24, delays to 3 | `SchedulerIsSafe`: dead jobs are reported; a next fire is strictly later, aligned to its rule, nothing is skipped. `SchedulerSettles`: a due fire ends, also as a recorded failure; a fixed rule fires once per local date |
| `mail` | 3 concurrent sends; 2 messages and 2 mailboxes under 2 passes; an IMAP folder renumbered; 3 lifecycles; a budget of 1 to 3; 2 subscriptions; a flag in 2 folders | `ClaimIsExclusive`, `ItemShowsDesired`, `EditsReachEveryCopy`, `NoEcho`; `MailIsSafe`: nothing lost or duplicated, bytes for each attachment, the budget kept, no lifecycle of a stopped tenant; `MailSettles`: mailbox, folder and flags agree with the provider in the end |
| `sessions` | 2 workers on one run with 2 faults; a conversation woken 3 times; 3 delegations; a document of 4 updates and 2 writers; a client beside edits from elsewhere, with a fault of its socket and a read that fails; 2 watches; 4 client sockets; 2 overlapping mailbox actions; 2 composers | `RetainedHasCheckpoint`; `AgentRunsAreSafe`: what a watcher is told of an end is true, no turn on a closed row, errors notified once; `ClientsAreSafe`: nothing lost by compaction or reconnection, nothing typed lost; `SessionsSettle` |
| `platform` | 2 users, with a reset asked for or not, and 2 requests over every account operation; 3 requests to the limiter; 2 purge runs beside late writers; 2 exports with 3 faults; 2 overlapping ticks; 2 deploys; 2 migrators; 6 module files | `CountsAreExact`; `PlatformIsSafe`: an administrator remains, sessions and registrations end with what they rest on, nothing survives an erasure, seeds are whole, migrations complete, ownership consistent; `PlatformStepsAreSound`; `PlatformSettles` |
| `content` | 3 uploads; 2 runs of a transcription; 3 cards; 3 requests with one key; a chain of 3 rows with 2 users and the purge; 3 schema operations; 2 retypes; 2 parents and a child, backfilled in pages of one; 3 tasks; every rule of the due calendar; pages of 3 rows under two sorts, the first of two values; 3 members of a view | `OneLiveItemPerKey`; `ContentIsSafe`: bytes and rows agree, the trash keeps its promises, cells are current, one next instance, every row paged once; `ContentStepsAreSound`: locks, decisions and archived databases are respected, no update lost; `ContentSettles` |
| `services` | 3 pull requests with 4 findings; 3 gateway calls; 1 socket with 3 events; 2 notifications to 2 devices; 2 queue workers, 3 changes; 4 operations of 2 tenants on 1 connection | `RunsAsOwnTenant`; `ServicesAreSafe`: published once, billed is counted, the newest version arrives, pushed twice only after a fault, every change has a job, connections are clean; `ServicesSettle` |

Many properties name their exceptions ("unless an answer got lost"). Each
exception is what the code really does in that case, and is listed under
[observations](#finding-and-observations).

## Bounds

Every bound is a constant of its module, named `Max...` or after the limit of
the code it stands for. The conflicts are between two: two deliveries, two
requests on one resource, a read and one write, two generations, two copies, an
edit and a pass. Each instance has both parties and room for one to fail and
come again. Three are taken where two do not show the conflict: three calls for
`CapsHold` (two share a tenant, one only the global cap), three sends (one
released claim, two that race for it), three rows for the trash (a root, a
nested row and the one created meanwhile), three uploads (one purged, two over
its row), three members of a view. Limits are at 1 or 2 so that they are
reached (pool, audio slots, keys of the limiter, page sizes, compaction
threshold). Days and months are short, so that an operation can begin in one
window and commit in the next; in `approval_mcp` the attempts are chosen against
`StaleAfter` as in the code, where graphile-worker's delays outlast the stale
time. The heartbeat mixes keep each kind of disturbance with those it interacts
with. Days of six instants leave room for a gap or a fold before, over and after
a time of day; shifts that reach over midnight are left out (observations). The due calendar's
years have eight short months, so that an ordinal of 18 weeks reaches the month of
the same number a year on, as 53 does in the code.
Deadlock checking is off: every instance rests when its work and the bounds are
used up. That nothing waits for ever is stated by the liveness properties
instead.

## Fairness

Weak fairness is assumed of what the code itself drives: a worker, pass, runner,
deploy or handler that has a step goes on (`WF` of its step action). Its
statements and provider calls have timeouts, and their failures are actions of
their own with a budget. Beyond that:

- Approval: the queue keeps offering a runnable job even if it becomes
  unrunnable in between (`SF TakeJob`: graphile polls, in the order of run
  times); an expired lock is noticed; time passes; a suspended tenant is
  reactivated, without which nothing is promised.
- Heartbeats: the cron sweep visits each due row. Edits and time are not fair.
- Mail: a pass is started again and again, since a sweep enqueues one whenever
  the account is due; discovery succeeds if it is tried for ever (`SF`); the
  sweep of due accounts runs.
- Sessions: timers fire; a lost LISTEN connection is restored; announced events
  arrive.
- Platform: health ticks start; a writer that a purge waits for commits or dies;
  an edit that holds a row commits.
- Services: a harvest or triage that is due runs again, and a human takes the
  step that is his; the pool hands out connections in turn.

No fairness is assumed of users, other clients, failures, crashes or the clock.
Under a stage, the fairness of a component speaks of its steps in that stage.

## Proofs

Seven modules, for every value of the constants under the named assumptions of
the modules (types of the constants, distinctness of the `No...` values, the
calendar assumption of `Heartbeats`, finite sets of requests in
`GatewayCalls` and `Authentication`, manifests and reserved keys of their kinds in
`ModuleRegistry`; in `FollowUps`, pull requests as numbers and no finding of two
of them). Each result rests on an inductive invariant that TLC also
checked on an instance like that of its run. Why each is needed and how it goes:

- **ApprovalExecutionProofs**: `TypeCorrect`, `ExecutesAtMostOnce`
  (`AtMostOnce`), `SettledRowsAreTrue` (`OutcomeIsTrue`), `Refinement`
  (`ImplementsContract`). `IndInv` adds which kind of request each place of the
  handler can have, that the worker between claim and tool is alone and nobody
  has run the tool for that claim, that a replaying worker holds its row, still
  queued, and what an approval, a claim and an effect leave on the row.
  `AtMostOnce` alone does not say that a worker about to call is alone. The
  refinement maps each step to a step of the contract or a stutter.
- **AiBudgetProofs**: `AnsweredCallsAreCounted`, `TerminalRowsAreFinal`,
  `EndedCallsAreSettled` (`OnlyFaultsStrandReservations`),
  `SpendStaysUnderCaps` (`CapsHold`). `IndInv` says which status a call's row can
  have at each place of the call. `CapsInv`, for the caps: a reservation past
  the lock holds it, the caps it has read were in force, and each of the four
  windows that it has checked is still below them when it inserts, since
  meanwhile rows only shrink or leave. The spend of a window is a sum over a set
  of calls. Its laws (what is added or taken away, a sum of smaller numbers) are
  lemmas, by induction on the size of the set. The induction is in a form that
  is no theorem about an operator: a set of naturals that has 0 and each
  successor is `Nat` (`NatSet`, from the well-foundedness of `<`), and so for the
  subsets of a finite set (`SubsetInduction`).
- **HeartbeatsProofs**: `OneHandler`, `AtMostOneFire`, `NoStall`,
  `NotUnscheduled`, `DeadJobsReported`. `IndInv`: a job
  past preparation is of the occurrence's current generation and its status says
  so; who may still start a handler when nothing has failed; without edits and
  lag, `next_fire_at` lies beyond every occurrence. `NotUnscheduled` needs a second
  invariant, `ScheduleIsKept`: a heartbeat without a time has a live fire that
  will give it one, or an edit under way that will. It is proved for one editor
  (`OneEditor`): with two, the later write of an older read can drop a schedule.
  `DeathIsReported` adds that without deletions a close-out finds its heartbeat.
  A dead job answers for the occurrence of its own generation only: after an
  edit the occurrence may belong to a later job that is still running it. The
  `heartbeats` instance has both the dead job and the edit.
- **MailProofs**: for a flag `ItemShows`, `NoEchoes`, `EditsReachCopies`; for a
  draft `ClaimExclusive`, `SentOnlyAccepted`, `DuplicatesAreTimeouts`,
  `CopiesConverge`, `StuckNeedsFault`, `SubmittedOnce`. The flag's `IndInv`: a
  row never written is not pending, and before the first edit no version of the
  row is pending and no pass writes. `CopiesFollow` says what each copy is known
  to have at each place of a pass, while no pass fails or overlaps. The draft's
  `ClaimInv`: from its claim on, a call that was not told of a timeout is the one
  the row names, even after it has died.
- **ServicesProofs**: all of `ServicesAreSafe`, part by part and then together
  (`ServicesSafety`).
  - The pool: `OwnTenant` (`RunsAsOwnTenant`), `CleanAndReturned`,
    `CallbacksFollowCommit`. `PoolInv`: an operation under way and its connection
    name each other, and a connection nobody holds carries nothing.
  - The gateway's calls: `BilledCallsAreCounted`, `StrandedRowsHaveACause`,
    `SlotsAreExact`, `GoneClientsStopTheirProvider`. `GwInv` says per call what
    its row, answer, connection and signal can be at each step of its handler,
    and that no connection outlives a drain that was not cut short; the count of
    open audio requests changes by one with each that opens or closes.
  - The job queue: `ChangesHaveJobs`. `QueueInv`: one row has the key, a row
    without it is out of tries, and unless the newest change is accounted for, a
    row has the key and is available, or its worker has read the newest change if
    any. That a job is waiting is not inductive: an enqueue meets rows that are
    locked, stamped or out of tries, and each must say who answers for it.
  - The push fanout: `FanoutTellsOnce`. `FanoutInv`: a device has one active
    registration; and without faults one worker runs the job, in its newest
    attempt, a push that was accepted is recorded or its answer is about to be,
    what is still to be sent to was not told, and a pending delivery to an active
    registration is still to be sent, or was tried and failed for a while.
  - The sync server's sockets: `SocketsAreTold`. `HubInv`: an open socket whose
    device lacks the newest version has it in its frame, or pending, or the event
    that tells it is being published or on the wire, unless a NOTIFY failed; a
    socket that is authenticating when its tenant is closed has counted fewer
    closings than there were.
  - The review follow-ups: `FindingsArePublishedOnce`. `FollowInv`: a finding is
    marked by one harvest issue, and by one draft or one rejection there; what a
    harvest run is to mark is unmarked; what a triage run has still to create its
    ledger showed to be unpublished, and of its drafts no two share a finding.
- **PlatformProofs**: all of `PlatformIsSafe` and `PlatformStepsAreSound`, part by
  part and then together. For accounts `AdminRemains`, `SuspensionEndsSessions`,
  `ResetsEndSessions`, `DeletionsAreConfirmed`, `RegistrationsEnd`. `AcctInv`:
  who holds which row lock at each place, that what was checked under it still
  holds (the other administrator is still active; the status a login read), and
  that two live sessions with one id have one user. For the limiter
  `LimiterCountsExactly` (`CountsAreExact`) and `MapsAreBounded`
  (`KeysAreBounded`). `LimiterInv`: for each address and route, the requests
  that count are paired one to one with the live events of its array, each at
  its time, and events stand in the order of time, so that dropping the leading
  expired ones drops just those. A release takes *an* event with its time out of
  the array, so a request has no event of its own: the pairing is what is kept.
  An array was begun by a request that has asked, so a key that was evicted and
  comes back has another array, and no late release reaches it.
  - The end of a tenant: `ErasureIsWhole`, `ExportsAreTrue`. `PurgeInv`: a file or a partition that
    is still there was stored after the pass over it, or that pass is still to
    come; while the run's lock is not lost there is one run, and a database found
    with items keeps its row until a run has dropped its partition. `ExportInv`: which row a task can meet at each place,
    that an active export has its job, its build, a claim that failed or a death,
    and that a file has a row, a death or a failed delete.
  - Health: `AlertsAreCounted`, `PruneIsOfTheDead`. `HInv`: what a tick has read and
    how much of it still holds, and how many notices each operator has per check,
    from the state of its row; the prune holds the job rows it has read.
  - Deploys: `SeedsAreWhole`, `ActivationIsSeeded`, `DeletedGetsNoSeed`. `ProvInv`:
    a seed is alone under the tenant's lock, and so is a migration; a deploy past
    its seed has a whole one behind it.
  - Data migrations: `MigrationConverts`, `MigrationAdvances`. `DMInv`: the rows of
    an open page are held and unchanged since it read them, what a pass has gone
    over is converted but for items created behind it, and while no session lock
    was lost there is one runner.
  - The registry: `IdentifiersAreOwned`, `InactiveIsNotShown`. `RegInv`: the maps
    name loaded modules, and a loaded module owns all that it declares.
  - Together: `PlatformSafety`, `PlatformSteps`. `PlatformInv` conjoins the
    invariants; in each stage one part steps and the others rest. An id or a
    token of an account is bounded by the number of requests, which needs a count
    of the tokens issued (`TokensAreOfRequests`) and a finite set of requests.
- **ItemLifecycleProofs**: `OneItemPerKey` (`OneLiveItemPerKey`),
  `ArchivedStaysClosed`; for the trash `RestoreIsExact`, `PurgedWasExpired`,
  `CascadesAreWhole`, `LiveRowsAreKept`; for a document's history
  `RetainedTimesHaveCheckpoints` (`RetainedHasCheckpoint`), `DocumentsAreWhole`,
  `VersionsAreComplete`. `CreateInv`: one request at a time
  decides who holds the key, and an item that is live without it was replaced
  and then restored. `TrashInv`: row locks exclude; a transaction's time stamps
  what it alone trashes, so a row trashed on its own shares its stamp with no
  row above it; a dropped partition holds nothing; and what an open transaction
  has read holds until it writes, unless another one raced it. The proofs are
  for any depth and any number of users. `HistInv`: of two checkpoints, the one
  for the later time covers at least as much, and the baseline covers what the
  mirror no longer has. That a nearest checkpoint exists is a well-ordering
  argument (`Least`, from the well-foundedness of `<`).

Each proof that a step keeps an invariant has a lemma per action, first what the
action changes (`...Effect`), then the conjuncts it can disturb.

Of the properties that the runs name one by one these are theorems:
`AtMostOnce`, `IndInv`, `OutcomeIsTrue`, `ImplementsContract`,
`AnsweredIsCounted`, `OnlyFaultsStrandReservations`, `RowsAreFinal`, `CapsHold`,
`CountsAreExact`, `PlatformIsSafe`, `PlatformStepsAreSound`, `ServicesAreSafe`, all five of
`heartbeats`, `ClaimIsExclusive`, `ItemShowsDesired`, `EditsReachEveryCopy`,
`NoEcho`, `RetainedHasCheckpoint`, `OneLiveItemPerKey`, `RunsAsOwnTenant`. Of
the conjunctions, these conjuncts are: `SentWasAccepted`,
`DuplicatesNeedLostAnswer`, `SentCopyConverges`, `StuckDraftHadFault`,
`NoResubmission`; `DocIsWhole`, `GapsNeedOvertaking`; `ArchivedGetsNothing`, `RestoreKeepsOwnDeletes`,
`TrashIsRetained`, `CascadeIsWhole`, `LiveRowsSurvive`.

## Only model-checked

- All liveness (`EveryCallEnds`, `ApprovedIsSettled`, the `...Settle(s)`
  properties except their safety conjuncts): the prover does no fairness
  argument.
- `ApprovedIsNotStranded`: it holds because the attempts outlast the stale time
  and the failures of the instance; with unbounded failures it is false.
- The calendars of `NextFireAt` and `Tasks` (recursive searches over days), and
  the parts of the conjunctions not listed above.

## Finding and observations

One run ends in a violation. `approval_torn_delete`: deleting a locked relation
property deletes its pair first (`propertyOps.ts:49`) and then throws; the
replay catches the domain error inside its transaction and commits
(`genericOperationGateway.ts:415`), so that an outcome recorded as a conflict
has changed something.

Met while modelling, without a run of their own. Most are the exceptions that
the properties name; where a comment says otherwise its line is given.

*Approval and budget.* The replay compares the snapshot with unlocked reads
(`genericOperationGateway.ts:394`) and mutates later in the same READ COMMITTED
transaction: an edit committed in between is deleted unseen (against ADR
2026-09-18, lines 53-55). A suspended tenant's `approvalExecute` job is
completed as a no-op (`queue/src/index.ts:365`) and nobody enqueues it again
(against `approvalDecisionAction.ts:27-28`). A reservation stranded by a crash of
the gateway counts until its window ends.

*Gateway.* A client that leaves before its turn begins, or during the one moment
between two listeners, does not stop the provider (`piMessagesHandler.ts`, about
233 and 275); an aborted stream may end without a terminal event; a slow reader
holds its stream.

*Scheduler.* An edit that read a heartbeat before a sweep and writes after it
can schedule a time whose occurrence is finished; the row is then not swept
again until another edit (`schedulerStore.ts:213`). A floating heartbeat whose
tenant is suspended between sweep and fire stays unscheduled. The close-out of
an old generation's job can fail an occurrence reactivated for a new one
(`schedulerStore.ts:770`, against 567-570). Where fires of a floating rule
overlap, the close-out of the first restores the time although the second is
queued, and the start of the second moves it on before it was due. A daily time in a gap is moved, and
the day after is computed from the moved time (`nextFireAt.ts:57`, against
`issues/items/gh-213.md:50`); in a fold the second reading may be taken; a gap
that ends at midnight can make the weekly loop throw (zones like America/Nuuk),
which is why shifts over midnight are not in the instance.

*Mail.* When creating the SMTP client throws, the send claim is left in place
(`send.ts:232`). An SMTP answer that times out and is delivered late is a
duplicate after the retry. A label or folder created after the listing is
skipped for one pass; a full resync never reports deletions. Two concurrent
passes over one message can create two Emails items (`ingest.ts`, against its
comment at 84-86). A COMMIT whose answer is lost leaves attachments without
bytes. A changed UIDVALIDITY leaves old uids on edges. A lifecycle whose
`start()` fails stays in `hosted`, and a switch of mode can host two
(`mailLiveSyncRoot.ts`, about 275); a failure to read one account's state retires its
lifecycle as if the account were inactive (about 198); IDLE loops can use up the
connection budget, and one that awaits its limit when it is stopped still asks
for a connection (`imapIdleLifecycle.ts:169`); a Graph notification of a replaced subscription is dropped. A flag
written to some of a message's copies only is possible
(`mailMessageFlagSyncStore.ts:86`, against ADR 2026-09-20, line 36), and when
the user undoes an edit whose pass was rolled back after its provider write, the
next observation reverts the undo.

*Mailbox client.* Opposite moves of one message that overlap can end in either
order; a reload never prunes the selection; a read that began before an action
overwrites its result (`MailboxClient.tsx:479-482`); Reply and Reply-all can be
switched while sending; a lost answer to create or send is retried as new; an
unread delta can be counted twice.

*Agents.* Pausing keeps the entry on a run that is done when the status event
fails after COMMIT. An error between `createAgentRun` and the turn's `try`
leaves the row running until the next start. The `tool_result` that the startup
repair writes lacks `isError`, on which `toPiMessages` throws; the repair looks
at the last event only, skips inactive tenants and closes queued runs. Heartbeat
sessions write done and error without a guard; a restart may notify twice.

*Realtime and documents.* Frames handled concurrently can be applied out of
order, and a read that fails leaves a gap until the next one. A `doc:close` that
arrives during the open still subscribes afterwards; a second open of a deleted
document succeeds. A checkpoint may contain later edits than its number says;
NOTIFYs may overtake each other. After a 4401 that follows a reconnect,
`connect()` does nothing. A compaction boundary can be overtaken
(`docHistory.ts`, about 118). A read that fails while a document is opened, answered or
fanned out is only logged (`syncServer.ts`, about 190 and 427): the client stays
without it, on an open socket, until it reconnects. An update over the rate
limit is dropped and the client not told (`docSync.ts:252`, against the comment at 24-30).

*Accounts and platform.* A login concurrent with a password reset survives it; a
push registration can be written after its session is revoked; the cap on reset
tokens can be exceeded concurrently. A database or an upload that is late leaves
an orphan at a tenant's purge. An export whose process dies stays `running`; one whose
claim fails, or whose tenant is suspended when it runs, stays `pending` or
`running`, since its job has one attempt (`tenantExportJob.ts:308`,
`tenantExportsStore.ts:102`); and
a COMMIT answer lost after one succeeds deletes the archive of a ready row.
Health ticks overlap: a stale snapshot can clear an alert, and an alert that
fails stops the families after it. Concurrent deploys can activate a tenant
whose data migrations still run; an item of the old shape written behind the
second pass's cursor is never converted. Two concurrent loads can register one
id. A clock that goes backwards extends a throttle.

*Content.* A transcription that dies in its last attempt leaves the item
`pending`, and so does an unlock; a run longer than four hours overlaps with the
next; checkpoints of a replaced source are kept. Changing an item's type or
emoji queues no inbox tick. A restore updates blindly; a row trashed again is
purged without its retention when the purge read it before; a row created while
its partition is dropped is lost. The purge of files can overtake an uncommitted
upload, a lost COMMIT answer deletes bytes in use, and two uploads over a trashed
item's row both pass (`fileUploadStore.ts`, against the comment at 42-49). A
rollup over a self relation queues one side only, three failures of its job, or of the
backfill of a new one before it reached the cell, leave it stale (`recompute.ts`,
about 117 and 167), and it dangles when its source is deleted
concurrently. A retype whose process dies stays `running`. A restored item may
find its key given away. An exclusive relation makes completing a recurring task
fail. `not(equals)` and `not_equals` differ on null. Concurrent patches of one
view lose a field; an agent's ownership check can be overtaken; a reorder while
paging repeats or skips an item. A monthly rule with ordinal 6 always throws, and one
of 53 or more gives a date of another year (`nextDueDate.ts:56`, which compares
only the month's number). When the recompute of an inbox day, or the tick's read
that queues it, is given up, the day's list stays stale until the next write.

*Services.* A crash between creating and closing blocks the harvests of
follow-ups, a draft may stay unlinked, and two triage runs publish twice. In the
sync hub a deactivation signal may come late, an unread count may be stale, and
a session revoked during authentication is served until the next check. A crash
between push and record sends twice. `withTransaction` reports success when a
caught statement error has made COMMIT a rollback (`pool.ts`, against its
comment), and discards its callbacks when COMMIT's answer is lost. The stamp
migration of the job queue reads without a lock and can put back an older
payload. The gateway frees an audio slot before the provider is done.

## What is not modelled

Components (with `not_modelled` in `PROJECT.json`):

- *MCP servers and credentials*: stores of single transactions; the call and its
  approval are in `ApprovalExecution`.
- *Library metadata*: the same protocol as the transcription job, which is
  modelled.
- *Search index*: a projection written in the transaction it follows.
- *API routes*, *generic application service*: validation and serialisation in
  front of the stores.
- *Outbound network policy and sandboxing*: stateless checks.
- *Web and mobile user interface*: rendering; the client protocols are in
  `MailboxClient` and `RealtimeClient`.
- *Release and CI scripts*, other than the review follow-ups.

Within what is modelled: the contents and formats of payloads, messages and
documents (an edit is a value, a Yjs update is an element of a set); parsing and
wording; the providers beyond the outcomes that the code tells apart; advisory
locks other than as mutual exclusion; more than one tenant where tenants share
nothing; time finer than the comparisons the code makes. Authorization is
modelled where it is state that changes, not as the table of who may do what.
Manual fires of a heartbeat and item-event fires without an occurrence row are
left out.

## Plan

Proofs, in this order:

1. The conjuncts of the content run without a theorem, one component at a time
   (`Files`, `Schema`, `Inbox`, `Tasks`, `Views`).
2. The mailbox synchronisations of the mail run (`MailSync`, `ImapSync`).
3. The sessions and clients of the agent run.

The calendars and all liveness stay with TLC, for the reasons under
[only model-checked](#only-model-checked). In the model, next would be manual
fires and a second tenant in `JobQueue`.
