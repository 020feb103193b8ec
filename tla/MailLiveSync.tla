---------------------------- MODULE MailLiveSync ----------------------------
(***************************************************************************)
(* Keeping mail live: the root that hosts a lifecycle per account, and the *)
(* push notifications of Gmail and Graph.                                  *)
(***************************************************************************)
EXTENDS Naturals, FiniteSets

-----------------------------------------------------------------------------
(***************************************************************************)
(* The live-sync root (data/src/mail/mailLiveSyncRoot.ts) for one mailbox  *)
(* of one tenant.  A discovery pass finds the active accounts, starts a    *)
(* lifecycle for each that has none or runs in another sync mode, and      *)
(* stops the ones that are no longer active.  Passes started by the        *)
(* interval and by callers overlap, because the interval does not wait;    *)
(* stopTenant and stop retire lifecycles besides them.                     *)
(***************************************************************************)

CONSTANTS
    LivePasses,   \* the discovery passes that may overlap
    MaxLives,     \* bound on the lifecycles ever started
    MaxSwitches,  \* bound on the changes of the sync mode
    MaxToggles    \* bound on the deactivations and reactivations of the tenant

ASSUME LiveAssumption == MaxLives \in Nat /\ MaxSwitches \in Nat /\ MaxToggles \in Nat

Lives == 1..MaxLives
NoLife == 0
Modes == {"imap", "gmail_api"}

VARIABLES
    active,    \* the tenant is active and the mailbox item not deleted
    syncMode,  \* mail_account_sync_state.sync_mode
    hosted,    \* the hosted map's entry for the mailbox
    life,      \* every lifecycle started so far: state, sync mode, stop asked, heartbeat
    livePass,  \* the discovery passes
    stopCall,  \* the call of stopTenant (or stop)
    toggles, switches

liveVars == <<active, syncMode, hosted, life, livePass, stopCall, toggles, switches>>

NewLife(m) == [state |-> "starting", mode |-> m, stopping |-> FALSE, beat |-> FALSE]
NoEntry == [state |-> "none", mode |-> "imap", stopping |-> FALSE, beat |-> FALSE]
IdleDiscovery == [pc |-> "idle", found |-> "absent", entry |-> NoLife]

LiveInit ==
    /\ active = TRUE /\ syncMode = "imap" /\ hosted = NoLife
    /\ life = [l \in Lives |-> NoEntry]
    /\ livePass = [p \in LivePasses |-> IdleDiscovery]
    /\ stopCall = [pc |-> "idle", waits |-> {}]
    /\ toggles = 0 /\ switches = 0

LiveTypeOK ==
    /\ active \in BOOLEAN /\ syncMode \in Modes /\ hosted \in Lives \cup {NoLife}
    /\ life \in [Lives -> [state : {"none", "starting", "live", "failed", "stopped"}, mode : Modes,
                           stopping : BOOLEAN, beat : BOOLEAN]]
    /\ livePass \in [LivePasses -> [pc : {"idle", "found", "replacing", "starting", "retire", "retiring"},
                                    found : Modes \cup {"absent", "failed"},
                                    entry : Lives \cup {NoLife}]]
    /\ stopCall \in [pc : {"idle", "passes", "stops", "done"}, waits : SUBSET LivePasses]
    /\ toggles \in 0..MaxToggles /\ switches \in 0..MaxSwitches

-----------------------------------------------------------------------------
(* The tenant is deactivated or reactivated, or the mailbox trashed or     *)
(* restored.  A new deactivation is followed by a new stopTenant signal.   *)
Toggle ==
    /\ toggles < MaxToggles
    /\ active' = ~active
    /\ toggles' = toggles + 1
    /\ stopCall.pc \in {"idle", "done"}
    /\ stopCall' = [stopCall EXCEPT !.pc = "idle"]
    /\ UNCHANGED <<syncMode, hosted, life, livePass, switches>>

SetSyncMode ==
    /\ switches < MaxSwitches
    /\ syncMode' \in Modes \ {syncMode}
    /\ switches' = switches + 1
    /\ UNCHANGED <<active, hosted, life, livePass, stopCall, toggles>>

-----------------------------------------------------------------------------
(* stopHosted(entry): once per entry, only while it is the hosted one.  It *)
(* is removed from the map at once; the stop itself runs after the start   *)
(* settled.  The caller waits for it.                                      *)
Retired(l) == /\ hosted' = (IF hosted = l THEN NoLife ELSE hosted)
              /\ life' = (IF hosted = l THEN [life EXCEPT ![l].stopping = TRUE] ELSE life)

(* A caller of stopHosted waits while the entry is being stopped.          *)
StopSettled(l) == l = NoLife \/ ~life[l].stopping \/ life[l].state = "stopped"

(* discoverActiveAccounts: the account with its mode, or none, or this     *)
(* tenant's reading failed.  An account whose own state could not be read  *)
(* or seeded is left out of the active ones as if it were not there.       *)
DiscoverActiveAccounts(p) ==
    /\ livePass[p].pc = "idle"
    /\ \E f \in {"absent", "failed"} \cup (IF active THEN {syncMode} ELSE {}) :
         livePass' = [livePass EXCEPT ![p] =
            [pc |-> IF f \in Modes THEN "found" ELSE "retire", found |-> f, entry |-> NoLife]]
    /\ UNCHANGED <<active, syncMode, hosted, life, stopCall, toggles, switches>>

Fresh == {l \in Lives : life[l].state = "none"}

(* The new entry takes the map's place and its start() begins.             *)
HostNew(p, l) ==
    /\ hosted' = l
    /\ life' = [life EXCEPT ![l] = NewLife(livePass[p].found)]
    /\ livePass' = [livePass EXCEPT ![p].pc = "starting", ![p].entry = l]

(* The loop over the active accounts: keep a lifecycle of the same mode,   *)
(* retire one of another mode, host a new one when there is none.          *)
HostAccount(p) ==
    /\ livePass[p].pc = "found"
    /\ \/ /\ hosted # NoLife /\ life[hosted].mode = livePass[p].found
          /\ livePass' = [livePass EXCEPT ![p].pc = "retire"]
          /\ UNCHANGED <<hosted, life>>
       \/ /\ hosted # NoLife /\ life[hosted].mode # livePass[p].found
          /\ Retired(hosted)
          /\ livePass' = [livePass EXCEPT ![p].pc = "replacing", ![p].entry = hosted]
       \/ hosted = NoLife /\ \E l \in Fresh : (\A k \in Fresh : l <= k) /\ HostNew(p, l)
    /\ UNCHANGED <<active, syncMode, stopCall, toggles, switches>>

(* After the await of the old lifecycle's stop, the map is written without *)
(* looking at it again.                                                    *)
ReplaceHosted(p) ==
    /\ livePass[p].pc = "replacing" /\ StopSettled(livePass[p].entry)
    /\ \E l \in Fresh : (\A k \in Fresh : l <= k) /\ HostNew(p, l)
    /\ UNCHANGED <<active, syncMode, stopCall, toggles, switches>>

(* lifecycle.start() resolves or rejects.                                  *)
StartSettles(l) ==
    /\ life[l].state = "starting"
    /\ \E r \in {"live", "failed"} : life' = [life EXCEPT ![l].state = r]
    /\ UNCHANGED <<active, syncMode, hosted, livePass, stopCall, toggles, switches>>

(* Back in the pass: no heartbeat for a lifecycle that was retired while   *)
(* it started, nor for one that failed; a failed one stays in the map.     *)
AfterStart(p) ==
    /\ livePass[p].pc = "starting"
    /\ LET l == livePass[p].entry IN
       /\ life[l].state # "starting"
       /\ life' = [life EXCEPT ![l].beat = life[l].state = "live" /\ ~life[l].stopping]
    /\ livePass' = [livePass EXCEPT ![p].pc = "retire", ![p].entry = NoLife]
    /\ UNCHANGED <<active, syncMode, hosted, stopCall, toggles, switches>>

(* The second loop: hosted accounts this pass did not find active, those   *)
(* left out for a failure of their own included, unless their tenant's     *)
(* reading failed.                                                         *)
RetireInactive(p) ==
    /\ livePass[p].pc = "retire"
    /\ IF livePass[p].found = "absent" /\ hosted # NoLife
         THEN /\ Retired(hosted)
              /\ livePass' = [livePass EXCEPT ![p].pc = "retiring", ![p].entry = hosted]
         ELSE /\ livePass' = [livePass EXCEPT ![p] = IdleDiscovery]
              /\ UNCHANGED <<hosted, life>>
    /\ UNCHANGED <<active, syncMode, stopCall, toggles, switches>>

PassEnds(p) ==
    /\ livePass[p].pc = "retiring" /\ StopSettled(livePass[p].entry)
    /\ livePass' = [livePass EXCEPT ![p] = IdleDiscovery]
    /\ UNCHANGED <<active, syncMode, hosted, life, stopCall, toggles, switches>>

(* The body of entry.stopping: wait for the start, stop the heartbeat,     *)
(* stop the lifecycle (a rejection is reported and counts as stopped).     *)
StopRuns(l) ==
    /\ life[l].stopping /\ life[l].state \in {"live", "failed"}
    /\ life' = [life EXCEPT ![l].state = "stopped", ![l].beat = FALSE]
    /\ UNCHANGED <<active, syncMode, hosted, livePass, stopCall, toggles, switches>>

-----------------------------------------------------------------------------
(* stopTenant, called once the tenant is no longer active: wait for the    *)
(* passes in flight, retire what is hosted, wait for every stop.           *)
StopTenantBegins ==
    /\ ~active /\ stopCall.pc = "idle"
    /\ stopCall' = [pc |-> "passes", waits |-> {p \in LivePasses : livePass[p].pc # "idle"}]
    /\ UNCHANGED <<active, syncMode, hosted, life, livePass, toggles, switches>>

(* A pass of the snapshot ends and need not be waited for any more.        *)
StopTenantPassDone(p) ==
    /\ stopCall.pc = "passes" /\ p \in stopCall.waits /\ livePass[p].pc = "idle"
    /\ stopCall' = [stopCall EXCEPT !.waits = @ \ {p}]
    /\ UNCHANGED <<active, syncMode, hosted, life, livePass, toggles, switches>>

StopTenantRetires ==
    /\ stopCall.pc = "passes" /\ stopCall.waits = {}
    /\ IF hosted # NoLife THEN Retired(hosted) ELSE UNCHANGED <<hosted, life>>
    /\ stopCall' = [stopCall EXCEPT !.pc = "stops"]
    /\ UNCHANGED <<active, syncMode, livePass, toggles, switches>>

StopTenantResolves ==
    /\ stopCall.pc = "stops" /\ \A l \in Lives : StopSettled(l)
    /\ stopCall' = [stopCall EXCEPT !.pc = "done"]
    /\ UNCHANGED <<active, syncMode, hosted, life, livePass, toggles, switches>>

LiveWork ==
    \/ \E p \in LivePasses : HostAccount(p) \/ ReplaceHosted(p) \/ AfterStart(p) \/ RetireInactive(p)
                             \/ PassEnds(p) \/ StopTenantPassDone(p)
    \/ \E l \in Lives : StartSettles(l) \/ StopRuns(l)
    \/ StopTenantRetires \/ StopTenantResolves

LiveNext ==
    \/ LiveWork \/ Toggle \/ SetSyncMode \/ StopTenantBegins
    \/ \E p \in LivePasses : DiscoverActiveAccounts(p)

-----------------------------------------------------------------------------
(* runPass's comment: "an account never has two lifecycles hosted for it   *)
(* at once".  A lifecycle nobody has asked to stop is the one in the map:  *)
(* anything else can never be stopped again.                               *)
NoOrphanLifecycle ==
    \A l \in Lives : life[l].state \in {"starting", "live"} /\ ~life[l].stopping => hosted = l

(* The same for an account whose sync mode is never switched: overlapping  *)
(* passes, deactivation and reactivation alone leave no orphan.            *)
OrphansNeedModeSwitch == switches = 0 => NoOrphanLifecycle

(* A heartbeat never outlives its lifecycle: entry.stopping is checked     *)
(* after the await of start().                                             *)
HeartbeatEndsWithLifecycle == \A l \in Lives : life[l].beat => life[l].state = "live"

(* When stopTenant resolves, nothing of the tenant runs, and nothing is    *)
(* started again while the tenant stays inactive, although passes may be   *)
(* in flight all the time.                                                 *)
StoppedTenantIsQuiet ==
    stopCall.pc = "done" /\ ~active /\ switches = 0 =>
        \A l \in Lives : life[l].state \notin {"starting", "live"}

(* A tenant that stays inactive has in the end nothing running.            *)
InactiveStopped == ~active /\ switches = 0 => \A l \in Lives : life[l].state # "live"

LivePassStep(p) ==
    HostAccount(p) \/ ReplaceHosted(p) \/ AfterStart(p) \/ RetireInactive(p) \/ PassEnds(p)
DiscoverSucceeds(p) == DiscoverActiveAccounts(p) /\ livePass'[p].found # "failed"

(* The event loop runs what is ready, the interval starts passes, and the  *)
(* reading of a tenant does not fail for ever.                             *)
LiveSpec ==
    /\ LiveInit /\ [][LiveNext]_liveVars
    /\ \A l \in Lives : WF_liveVars(StartSettles(l) \/ StopRuns(l))
    /\ \A p \in LivePasses : WF_liveVars(LivePassStep(p)) /\ SF_liveVars(DiscoverSucceeds(p))

-----------------------------------------------------------------------------
(***************************************************************************)
(* Push notifications of new mail: the Gmail watch and the Pub/Sub         *)
(* dispatcher (gmailWatchLifecycle.ts), the Graph subscription and its     *)
(* webhook (graphWebhookLifecycle.ts, graphWebhookNotifications.ts).  A    *)
(* notification only ever enqueues the mailbox's sync job; what matters is *)
(* that none is given back to the provider as handled before the job is    *)
(* enqueued, and that a registration is known before its notifications.    *)
(***************************************************************************)

CONSTANTS
    PushBoxes,  \* the mailboxes
    MaxSubs,    \* bound on the registrations made with the provider, per mailbox
    MaxArrivals, \* bound on the changes the provider announces
    MaxDrops    \* bound on failed enqueues and acknowledgements

ASSUME PushAssumption == MaxSubs \in Nat /\ MaxDrops \in Nat /\ MaxArrivals \in Nat

Subs == 1..MaxSubs
NoSub == 0

VARIABLES
    channel,   \* "gmail" or "graph"
    made,      \* per mailbox: registrations made so far; the last one's id
    alive,     \* per mailbox: the registrations the provider notifies
    recorded,  \* mail_account_sync_state: the registration's id, or NoSub
    renewal,   \* per mailbox: the renewal loop, "asleep" or "registered"
    inbox,     \* the provider's notifications not yet acknowledged or delivered
    batch,     \* the dispatcher's pulled notifications and those handed off
    queued,    \* the mailboxes with a sync job
    unsynced,  \* the mailboxes with changes no sync has seen
    blind,     \* history: changes made while no recorded registration was alive
    arrivals, drops

pushVars == <<channel, made, alive, recorded, renewal, inbox, batch, queued, unsynced, blind,
              arrivals, drops>>

(* A notification: its mailbox, its registration and its number.           *)
Notices == PushBoxes \X Subs \X (1..MaxArrivals)

PushInit ==
    /\ channel \in {"gmail", "graph"}
    /\ made = [b \in PushBoxes |-> 0] /\ alive = [b \in PushBoxes |-> {}]
    /\ recorded = [b \in PushBoxes |-> NoSub] /\ renewal = [b \in PushBoxes |-> "asleep"]
    /\ inbox = {} /\ batch = [pulled |-> {}, acks |-> {}]
    /\ queued = PushBoxes  \* start() enqueues a first sync
    /\ unsynced = {} /\ blind = {} /\ arrivals = 0 /\ drops = 0

PushTypeOK ==
    /\ made \in [PushBoxes -> 0..MaxSubs] /\ alive \in [PushBoxes -> SUBSET Subs]
    /\ recorded \in [PushBoxes -> Subs \cup {NoSub}]
    /\ renewal \in [PushBoxes -> {"asleep", "registered"}]
    /\ inbox \subseteq Notices /\ batch.pulled \subseteq Notices /\ batch.acks \subseteq Notices
    /\ queued \subseteq PushBoxes /\ unsynced \subseteq PushBoxes /\ blind \subseteq PushBoxes
    /\ arrivals \in 0..MaxArrivals /\ drops \in 0..MaxDrops

-----------------------------------------------------------------------------
(* The provider: mail arrives and every live registration is notified.     *)
MailArrives(b) ==
    /\ arrivals < MaxArrivals /\ arrivals' = arrivals + 1
    /\ unsynced' = unsynced \cup {b}
    /\ inbox' = inbox \cup ({b} \X alive[b] \X {arrivals'})
    /\ blind' = IF recorded[b] \in alive[b] THEN blind ELSE blind \cup {b}
    /\ UNCHANGED <<channel, made, alive, recorded, renewal, batch, queued, drops>>

(* A watch or subscription that was not renewed in time ends.              *)
RegistrationExpires(b) ==
    /\ alive[b] # {} /\ alive' = [alive EXCEPT ![b] = {}]
    /\ UNCHANGED <<channel, made, recorded, renewal, inbox, batch, queued, unsynced, blind, arrivals, drops>>

(* The renewal loop calls the provider: registerWatch, or renewSubscription*)
(* and createSubscription when there is none or Graph no longer has it.    *)
RegisterOrRenew(b) ==
    /\ renewal[b] = "asleep"
    /\ \/ /\ channel = "graph" /\ recorded[b] # NoSub /\ recorded[b] \in alive[b]
          /\ UNCHANGED <<made, alive, renewal>>
       \/ /\ ~(channel = "graph" /\ recorded[b] # NoSub /\ recorded[b] \in alive[b])
          /\ made[b] < MaxSubs
          /\ made' = [made EXCEPT ![b] = @ + 1]
          /\ alive' = [alive EXCEPT ![b] = (IF channel = "gmail" THEN {} ELSE @) \cup {made'[b]}]
          /\ renewal' = [renewal EXCEPT ![b] = "registered"]
    /\ UNCHANGED <<channel, recorded, inbox, batch, queued, unsynced, blind, arrivals, drops>>

(* recordGmailWatchRegistration, recordGraphSubscriptionRegistration: from *)
(* now on a late notification of the replaced subscription is unknown.     *)
RecordRegistration(b) ==
    /\ renewal[b] = "registered"
    /\ recorded' = [recorded EXCEPT ![b] = made[b]]
    /\ renewal' = [renewal EXCEPT ![b] = "asleep"]
    /\ blind' = IF channel = "graph" /\ \E n \in inbox : n[1] = b /\ n[2] # made[b]
                  THEN blind \cup {b} ELSE blind
    /\ UNCHANGED <<channel, made, alive, inbox, batch, queued, unsynced, arrivals, drops>>

(* The process restarts between the provider's answer and the record.      *)
RestartBeforeRecord(b) ==
    /\ renewal[b] = "registered" /\ drops < MaxDrops
    /\ renewal' = [renewal EXCEPT ![b] = "asleep"]
    /\ drops' = drops + 1
    /\ UNCHANGED <<channel, made, alive, recorded, inbox, batch, queued, unsynced, blind, arrivals>>

-----------------------------------------------------------------------------
(* Gmail: a notification names an address; every mailbox recorded with it  *)
(* is a target, whichever watch sent it.                                   *)
PullNotifications ==
    /\ channel = "gmail" /\ batch = [pulled |-> {}, acks |-> {}] /\ inbox # {}
    /\ batch' = [pulled |-> inbox, acks |-> {}]
    /\ UNCHANGED <<channel, made, alive, recorded, renewal, inbox, queued, unsynced, blind, arrivals, drops>>

(* One notification is routed and its job enqueued; it may be acknowledged *)
(* when the enqueue succeeded, or when it routes to nobody.                *)
Dispatch(n) ==
    /\ n \in batch.pulled
    /\ queued' = IF recorded[n[1]] # NoSub THEN queued \cup {n[1]} ELSE queued
    /\ batch' = [pulled |-> batch.pulled \ {n}, acks |-> batch.acks \cup {n}]
    /\ UNCHANGED <<channel, made, alive, recorded, renewal, inbox, unsynced, blind, arrivals, drops>>

DispatchFails(n) ==
    /\ n \in batch.pulled /\ drops < MaxDrops
    /\ batch' = [batch EXCEPT !.pulled = @ \ {n}]
    /\ drops' = drops + 1
    /\ UNCHANGED <<channel, made, alive, recorded, renewal, inbox, queued, unsynced, blind, arrivals>>

(* The batch is done: what was handed off is acknowledged.  A failed       *)
(* acknowledgement, or a stop in the middle, lets Pub/Sub deliver again.   *)
Acknowledge ==
    /\ batch.pulled = {} /\ batch.acks # {}
    /\ inbox' = inbox \ batch.acks
    /\ batch' = [pulled |-> {}, acks |-> {}]
    /\ UNCHANGED <<channel, made, alive, recorded, renewal, queued, unsynced, blind, arrivals, drops>>

AbandonBatch ==
    /\ drops < MaxDrops /\ batch # [pulled |-> {}, acks |-> {}]
    /\ batch' = [pulled |-> {}, acks |-> {}]
    /\ drops' = drops + 1
    /\ UNCHANGED <<channel, made, alive, recorded, renewal, inbox, queued, unsynced, blind, arrivals>>

(* Graph: handleGraphChangeNotification.  A notification of a subscription *)
(* that is not the recorded one is answered and dropped; the enqueue is in *)
(* the transaction of the lookup, and a failure makes Graph deliver again. *)
HandleGraphNotification(n) ==
    /\ channel = "graph" /\ n \in inbox
    /\ inbox' = inbox \ {n}
    /\ queued' = IF recorded[n[1]] = n[2] THEN queued \cup {n[1]} ELSE queued
    /\ UNCHANGED <<channel, made, alive, recorded, renewal, batch, unsynced, blind, arrivals, drops>>

(* The sync job of MailSync sees every change made so far.                 *)
SyncRuns(b) ==
    /\ b \in queued
    /\ queued' = queued \ {b} /\ unsynced' = unsynced \ {b} /\ blind' = blind \ {b}
    /\ UNCHANGED <<channel, made, alive, recorded, renewal, inbox, batch, arrivals, drops>>

(* sweepDueMailAccounts: the account's expected activity is overdue.       *)
SweepDueAccounts(b) ==
    /\ queued' = queued \cup {b}
    /\ UNCHANGED <<channel, made, alive, recorded, renewal, inbox, batch, unsynced, blind, arrivals, drops>>

PushNext ==
    \/ \E b \in PushBoxes : MailArrives(b) \/ RegistrationExpires(b) \/ RegisterOrRenew(b)
          \/ RecordRegistration(b) \/ RestartBeforeRecord(b) \/ SyncRuns(b) \/ SweepDueAccounts(b)
    \/ \E n \in Notices : Dispatch(n) \/ DispatchFails(n) \/ HandleGraphNotification(n)
    \/ PullNotifications \/ Acknowledge \/ AbandonBatch

-----------------------------------------------------------------------------
(* A change made while the recorded registration was alive is not          *)
(* forgotten: a job is enqueued, or the provider still holds the           *)
(* notification, through failed enqueues, abandoned batches, lost          *)
(* acknowledgements and renewed watches.                                   *)
SignalNotLost ==
    \A b \in unsynced \ blind :
        \/ b \in queued
        \/ \E n \in inbox : n[1] = b /\ (channel = "gmail" \/ n[2] = recorded[b])

(* What no notification announced is found by the sweep.                   *)
AllSynced == unsynced = {}

PushSpec == PushInit /\ [][PushNext]_pushVars
            /\ \A b \in PushBoxes : WF_pushVars(SweepDueAccounts(b)) /\ WF_pushVars(SyncRuns(b))
=============================================================================
