----------------------------- MODULE ServerPush -----------------------------
(***************************************************************************)
(* What the server tells clients unasked: the sync server's frames, and    *)
(* push notifications to devices.                                          *)
(***************************************************************************)
EXTENDS Naturals, Sequences, FiniteSets

-----------------------------------------------------------------------------
(***************************************************************************)
(* The API process's WS /api/sync server: the sockets it has upgraded, the *)
(* LISTEN connection their frames come from, the coalescer that holds an   *)
(* invalidation back from a client that is behind, the listener that hears *)
(* of a deactivated tenant, the heartbeat that looks for revoked sessions  *)
(* and dead peers, and the order in which the process shuts down.          *)
(*                                                                         *)
(* One tenant with one item, whose version stands for its updatedAt.  A    *)
(* client that reads a frame newer than its copy fetches the item again.   *)
(***************************************************************************)

CONSTANTS
    Clients,          \* the devices, each with a session and at most one socket
    MaxWrites,        \* writes to the item at most
    MaxLogins,        \* logins of a device after its first
    MaxHubEvents      \* writes, revocations, logins, suspensions and faults, together

ASSUME HubAssumption ==
    MaxWrites \in Nat /\ MaxLogins \in Nat /\ MaxHubEvents \in Nat

VARIABLES
    version,     \* the item's committed version
    publishing,  \* messages whose pg_notify is under way, in no order
    wire,        \* notifications Postgres holds for the LISTEN connection
    hubListen,   \* the server's LISTEN connection: "up", "down", "connecting"
    phase,       \* how far the process's shutdown has come
    tenantUp,    \* tenants.status = 'active'
    deviceSession, \* each device's newest session, and whether it is active
    sock,        \* each device's socket as the server knows it
    device,      \* each device: its copy, what it has to read, whether it gave up
    statusListen, statusHeld, statusSnap, \* the deactivation listener and what it has in hand
    closeCount, lastClose,  \* tenantCloseCount and its entry for the tenant
    toldHub,     \* closeTenant has run since the tenant was last suspended
    lostInvalidation, hubEvents

hubVars == <<version, publishing, wire, hubListen, phase, tenantUp, deviceSession, sock, device,
             statusListen, statusHeld, statusSnap, closeCount, lastClose, toldHub,
             lostInvalidation, hubEvents>>
statusVars == <<statusListen, statusHeld, statusSnap, closeCount, lastClose, toldHub>>
dataVars == <<version, tenantUp, deviceSession>>

Phases == <<"run", "listener", "drain", "mail", "queue", "pool", "exit">>
HubClosed == phase \notin {"run", "listener"}
NoSocket == [st |-> "none", session |-> 0, before |-> 0, pending |-> 0, missed |-> 0, code |-> 0]
Alive(c, n) == deviceSession[c] = [n |-> n, active |-> TRUE]
SocketOpen(c) == sock[c].st = "open"
(* Faults: failed NOTIFYs, lost connections, peers that fall silent.       *)
Event == hubEvents < MaxHubEvents /\ hubEvents' = hubEvents + 1

HubInit ==
    /\ version = 0 /\ publishing = {} /\ wire = <<>> /\ hubListen = "up" /\ phase = "run"
    /\ tenantUp = TRUE /\ deviceSession = [c \in Clients |-> [n |-> 1, active |-> TRUE]]
    /\ sock = [c \in Clients |-> NoSocket]
    /\ device = [c \in Clients |-> [copy |-> 0, frame |-> 0, stale |-> FALSE,
                                    gaveUp |-> FALSE, silent |-> FALSE]]
    /\ statusListen = "up" /\ statusHeld = FALSE /\ statusSnap = FALSE
    /\ closeCount = 0 /\ lastClose = 0 /\ toldHub = FALSE
    /\ lostInvalidation = FALSE /\ hubEvents = 0

-----------------------------------------------------------------------------
(* Writers, in this process or another.  The hook runs after the commit    *)
(* and publishes without waiting: messages may overtake one another.       *)

NotifyInvalidation ==
    /\ Event /\ version < MaxWrites /\ version' = version + 1
    /\ publishing' = publishing \cup {[type |-> "invalidation", v |-> version']}
    /\ UNCHANGED <<wire, hubListen, phase, tenantUp, deviceSession, sock, device, statusVars,
                   lostInvalidation>>

Revocations(S) == {[type |-> "revoked", c |-> c, n |-> deviceSession[c].n] : c \in S}

(* A notification reaches only a connection that listens at the time.      *)
PublishRealtimeMessage(m) ==
    /\ m \in publishing /\ publishing' = publishing \ {m}
    /\ wire' = IF hubListen = "up" THEN Append(wire, m) ELSE wire
    /\ UNCHANGED <<dataVars, hubListen, phase, sock, device, statusVars, lostInvalidation, hubEvents>>

PublishFails(m) ==
    /\ m \in publishing /\ Event /\ publishing' = publishing \ {m}
    /\ lostInvalidation' = (lostInvalidation \/ m.type = "invalidation")
    /\ UNCHANGED <<dataVars, wire, hubListen, phase, sock, device, statusVars>>

(* Logout, or the revocation of a device's session.                        *)
RevokeSession(c) ==
    /\ Event /\ deviceSession[c].active
    /\ deviceSession' = [deviceSession EXCEPT ![c].active = FALSE]
    /\ publishing' = publishing \cup Revocations({c})
    /\ UNCHANGED <<version, wire, hubListen, phase, tenantUp, sock, device, statusVars,
                   lostInvalidation>>

(* A suspension or a requested deletion revokes the sessions and queues    *)
(* the signal in its own transaction.                                      *)
DeactivateTenant ==
    /\ tenantUp /\ Event
    /\ tenantUp' = FALSE /\ toldHub' = FALSE
    /\ LET live == {c \in Clients : deviceSession[c].active}
       IN  /\ publishing' = publishing \cup Revocations(live)
           /\ deviceSession' = [c \in Clients |-> [deviceSession[c] EXCEPT !.active = FALSE]]
    /\ statusHeld' = (statusHeld \/ statusListen \in {"up", "listening", "read"})
    /\ UNCHANGED <<version, wire, hubListen, phase, sock, device, statusListen, statusSnap,
                   closeCount, lastClose, lostInvalidation>>

ReactivateTenant ==
    /\ Event /\ ~tenantUp /\ tenantUp' = TRUE
    /\ UNCHANGED <<version, publishing, wire, hubListen, phase, deviceSession, sock, device,
                   statusVars, lostInvalidation>>

Login(c) ==
    /\ Event /\ tenantUp /\ ~deviceSession[c].active /\ deviceSession[c].n <= MaxLogins
    /\ deviceSession' = [deviceSession EXCEPT ![c] = [n |-> @.n + 1, active |-> TRUE]]
    /\ device' = [device EXCEPT ![c].gaveUp = FALSE]
    /\ UNCHANGED <<version, publishing, wire, hubListen, phase, tenantUp, sock, statusVars,
                   lostInvalidation>>

-----------------------------------------------------------------------------
(* The device.                                                             *)

(* It fetches the item after its socket opened, and whenever a view asks.  *)
Refetch(c) ==
    /\ SocketOpen(c) /\ ~device[c].silent /\ (device[c].stale \/ device[c].copy # version)
    /\ device' = [device EXCEPT ![c].copy = version, ![c].stale = FALSE]
    /\ UNCHANGED <<dataVars, publishing, wire, hubListen, phase, sock, statusVars, lostInvalidation, hubEvents>>

ReadsFrame(c) ==
    /\ device[c].frame # 0 /\ ~device[c].silent
    /\ device' = [device EXCEPT ![c].frame = 0,
                                ![c].copy = IF device[c].frame > @ THEN version ELSE @]
    /\ UNCHANGED <<dataVars, publishing, wire, hubListen, phase, sock, statusVars, lostInvalidation, hubEvents>>

FallsSilent(c) ==
    /\ SocketOpen(c) /\ ~device[c].silent /\ Event
    /\ device' = [device EXCEPT ![c].silent = TRUE]
    /\ UNCHANGED <<dataVars, publishing, wire, hubListen, phase, sock, statusVars, lostInvalidation>>

-----------------------------------------------------------------------------
(* A socket is opened: the upgrade authenticates, which takes a query, and *)
(* is attached in a later step.                                            *)

HandleUpgrade(c) ==
    /\ sock[c].st = "none" /\ ~device[c].gaveUp /\ ~device[c].silent
    /\ phase \in {"run", "listener"}
    /\ sock' = [sock EXCEPT ![c] = [NoSocket EXCEPT !.st = "authenticating", !.before = closeCount]]
    /\ UNCHANGED <<dataVars, publishing, wire, hubListen, phase, device, statusVars, lostInvalidation, hubEvents>>

(* verifySessionToken wants an active session of an active tenant.         *)
Authenticate(c) ==
    /\ sock[c].st = "authenticating" /\ phase \notin {"exit"}
    /\ IF deviceSession[c].active /\ tenantUp /\ phase # "pool"
       THEN /\ sock' = [sock EXCEPT ![c].st = "authenticated", ![c].session = deviceSession[c].n]
            /\ UNCHANGED device
       ELSE /\ sock' = [sock EXCEPT ![c] = NoSocket]
            /\ device' = [device EXCEPT ![c].gaveUp = TRUE]
    /\ UNCHANGED <<dataVars, publishing, wire, hubListen, phase, statusVars, lostInvalidation, hubEvents>>

Opened(c) ==
    /\ sock' = [sock EXCEPT ![c].st = "open"]
    /\ device' = [device EXCEPT ![c].stale = TRUE, ![c].frame = 0]

Refused(c) == sock' = [sock EXCEPT ![c] = NoSocket] /\ UNCHANGED device

(* A socket whose tenant was closed since it began is closed at once.      *)
AttachClient(c) ==
    /\ sock[c].st = "authenticated" /\ phase # "exit"
    /\ IF HubClosed THEN Refused(c)
       ELSE IF lastClose > sock[c].before
       THEN sock' = [sock EXCEPT ![c].st = "closing", ![c].code = 4401] /\ UNCHANGED device
       ELSE Opened(c)
    /\ UNCHANGED <<dataVars, publishing, wire, hubListen, phase, statusVars, lostInvalidation, hubEvents>>

Closing(S, code) == [c \in Clients |-> IF c \in S /\ SocketOpen(c)
                                       THEN [sock[c] EXCEPT !.st = "closing", !.code = code]
                                       ELSE sock[c]]

(* The close handshake ends, or its timeout does; the coalescer's queue is *)
(* discarded.  A device closed with 4401 waits for a login.                *)
SocketCloses(c) ==
    /\ sock[c].st = "closing" /\ sock' = [sock EXCEPT ![c] = NoSocket]
    /\ device' = [device EXCEPT ![c].gaveUp = (sock[c].code = 4401), ![c].frame = 0, ![c].silent = FALSE]
    /\ UNCHANGED <<dataVars, publishing, wire, hubListen, phase, statusVars, lostInvalidation, hubEvents>>

(* The peer goes away by itself.                                           *)
PeerLeaves(c) ==
    /\ SocketOpen(c) /\ Event /\ sock' = [sock EXCEPT ![c] = NoSocket]
    /\ device' = [device EXCEPT ![c].frame = 0, ![c].silent = FALSE]
    /\ UNCHANGED <<dataVars, publishing, wire, hubListen, phase, statusVars, lostInvalidation>>

-----------------------------------------------------------------------------
(* Frames.                                                                 *)

(* A drained client gets the frame at once; else the queue keeps the       *)
(* newest of the item.                                                     *)
Enqueue(s, frame, v) == IF s.pending = 0 /\ frame = 0 THEN [send |-> v, pending |-> 0]
                        ELSE [send |-> frame, pending |-> IF v >= s.pending THEN v ELSE s.pending]

SendInvalidation(v) ==
    /\ sock' = [c \in Clients |-> IF SocketOpen(c)
                   THEN [sock[c] EXCEPT !.pending = Enqueue(sock[c], device[c].frame, v).pending]
                   ELSE sock[c]]
    /\ device' = [c \in Clients |-> IF SocketOpen(c)
                     THEN [device[c] EXCEPT !.frame = Enqueue(sock[c], device[c].frame, v).send]
                     ELSE device[c]]

OnNotification ==
    /\ hubListen = "up" /\ wire # <<>> /\ wire' = Tail(wire)
    /\ LET m == Head(wire)
       IN  IF m.type = "invalidation" THEN SendInvalidation(m.v)
           ELSE sock' = Closing({c \in Clients : m.c = c /\ m.n = sock[c].session}, 4401)
                /\ UNCHANGED device
    /\ UNCHANGED <<dataVars, publishing, hubListen, phase, statusVars, lostInvalidation, hubEvents>>

(* The poller finds the socket's buffer empty and sends what is pending.   *)
Flush(c) ==
    /\ SocketOpen(c) /\ sock[c].pending # 0 /\ device[c].frame = 0
    /\ sock' = [sock EXCEPT ![c].pending = 0]
    /\ device' = [device EXCEPT ![c].frame = sock[c].pending]
    /\ UNCHANGED <<dataVars, publishing, wire, hubListen, phase, statusVars, lostInvalidation, hubEvents>>

(* The heartbeat drops a peer that left two pings unanswered; otherwise it *)
(* pings and asks the database about the socket's session.                 *)
Heartbeat(c) ==
    /\ SocketOpen(c)
    /\ IF sock[c].missed = 2
       THEN /\ sock' = [sock EXCEPT ![c] = NoSocket]
            /\ device' = [device EXCEPT ![c].frame = 0, ![c].silent = FALSE]
       ELSE /\ sock' = [sock EXCEPT ![c].missed = IF device[c].silent THEN @ + 1 ELSE 0,
                                    ![c].st = IF Alive(c, sock[c].session) THEN @ ELSE "closing",
                                    ![c].code = IF Alive(c, sock[c].session) THEN @ ELSE 4401]
            /\ UNCHANGED device
    /\ UNCHANGED <<dataVars, publishing, wire, hubListen, phase, statusVars, lostInvalidation, hubEvents>>

-----------------------------------------------------------------------------
(* The LISTEN connection: an outage closes every socket, and so does its   *)
(* end, for the sockets that were opened meanwhile.                        *)

ListenError ==
    /\ hubListen = "up" /\ Event
    /\ hubListen' = "down" /\ wire' = <<>> /\ sock' = Closing(Clients, 1012)
    /\ UNCHANGED <<dataVars, publishing, phase, device, statusVars, lostInvalidation>>

ConnectListen ==
    /\ hubListen = "down" /\ ~HubClosed /\ hubListen' = "connecting"
    /\ UNCHANGED <<dataVars, publishing, wire, phase, sock, device, statusVars, lostInvalidation, hubEvents>>

ReconnectListen ==
    /\ hubListen = "connecting" /\ phase # "exit"
    /\ IF HubClosed THEN hubListen' = "down" /\ UNCHANGED sock
       ELSE hubListen' = "up" /\ sock' = Closing(Clients, 1012)
    /\ UNCHANGED <<dataVars, publishing, wire, phase, device, statusVars, lostInvalidation, hubEvents>>

-----------------------------------------------------------------------------
(* The deactivation listener calls closeTenant for every signal, and for   *)
(* a tenant its resync finds deactivated.                                  *)

CloseTenant ==
    /\ closeCount' = closeCount + 1 /\ lastClose' = closeCount + 1 /\ toldHub' = TRUE
    /\ sock' = Closing(Clients, 4401)

TenantDeactivated ==
    /\ statusListen = "up" /\ statusHeld /\ statusHeld' = FALSE /\ CloseTenant
    /\ UNCHANGED <<dataVars, publishing, wire, hubListen, phase, device, statusListen, statusSnap,
                   lostInvalidation, hubEvents>>

StatusListenError ==
    /\ statusListen \in {"up", "listening", "read"} /\ Event
    /\ statusListen' = "down" /\ statusHeld' = FALSE /\ statusSnap' = FALSE
    /\ UNCHANGED <<dataVars, publishing, wire, hubListen, phase, sock, device, closeCount, lastClose,
                   toldHub, lostInvalidation>>

StatusListens ==
    /\ statusListen = "down" /\ phase = "run" /\ statusListen' = "listening"
    /\ UNCHANGED <<dataVars, publishing, wire, hubListen, phase, sock, device, statusHeld, statusSnap,
                   closeCount, lastClose, toldHub, lostInvalidation, hubEvents>>

ResyncReads ==
    /\ statusListen = "listening" /\ statusListen' = "read" /\ statusSnap' = ~tenantUp
    /\ UNCHANGED <<dataVars, publishing, wire, hubListen, phase, sock, device, statusHeld,
                   closeCount, lastClose, toldHub, lostInvalidation, hubEvents>>

(* The resync's tenants are dispatched; a held notification comes next.    *)
AttachListener ==
    /\ statusListen = "read" /\ statusListen' = "up" /\ statusSnap' = FALSE
    /\ IF statusSnap THEN CloseTenant ELSE UNCHANGED <<closeCount, lastClose, toldHub, sock>>
    /\ UNCHANGED <<dataVars, publishing, wire, hubListen, phase, device, statusHeld,
                   lostInvalidation, hubEvents>>

-----------------------------------------------------------------------------
(* Shutdown, one step after the other; every wait but the mail root's and  *)
(* the queue's is bounded.                                                 *)

Advance(from, to) == phase = from /\ phase' = to

CloseListener ==
    /\ Advance("run", "listener")
    /\ statusListen' = "closed" /\ statusHeld' = FALSE /\ statusSnap' = FALSE
    /\ UNCHANGED <<dataVars, publishing, wire, hubListen, sock, device, closeCount, lastClose, toldHub,
                   lostInvalidation, hubEvents>>

CloseSyncServer ==
    /\ Advance("listener", "drain")
    /\ hubListen' = (IF hubListen = "up" THEN "down" ELSE hubListen) /\ wire' = <<>>
    /\ sock' = Closing(Clients, 1012)
    /\ UNCHANGED <<dataVars, publishing, device, statusVars, lostInvalidation, hubEvents>>

(* server.close settles once every connection is gone, an upgraded one too.*)
ServerDrained ==
    /\ Advance("drain", "mail") /\ \A c \in Clients : sock[c].st = "none"
    /\ UNCHANGED <<dataVars, publishing, wire, hubListen, sock, device, statusVars, lostInvalidation, hubEvents>>

DrainTimesOut ==
    /\ Advance("drain", "mail") /\ \E c \in Clients : sock[c].st # "none"
    /\ UNCHANGED <<dataVars, publishing, wire, hubListen, sock, device, statusVars, lostInvalidation, hubEvents>>

StopMailLiveSync ==
    /\ Advance("mail", "queue")
    /\ UNCHANGED <<dataVars, publishing, wire, hubListen, sock, device, statusVars, lostInvalidation, hubEvents>>

StopQueueRuntime ==
    /\ Advance("queue", "pool")
    /\ UNCHANGED <<dataVars, publishing, wire, hubListen, sock, device, statusVars, lostInvalidation, hubEvents>>

(* The pool's end is waited for 5 s at most; the process exits.            *)
EndPool ==
    /\ Advance("pool", "exit") /\ sock' = [c \in Clients |-> NoSocket]
    /\ hubListen' = "down" /\ wire' = <<>>
    /\ UNCHANGED <<dataVars, publishing, device, statusVars, lostInvalidation, hubEvents>>

Shutdown == CloseListener \/ CloseSyncServer \/ ServerDrained \/ DrainTimesOut
            \/ StopMailLiveSync \/ StopQueueRuntime \/ EndPool
StatusStep == TenantDeactivated \/ StatusListens \/ ResyncReads \/ AttachListener
DeviceStep(c) == Refetch(c) \/ ReadsFrame(c) \/ FallsSilent(c) \/ HandleUpgrade(c) \/ PeerLeaves(c)
ServerStep(c) == Authenticate(c) \/ AttachClient(c) \/ SocketCloses(c) \/ Flush(c) \/ Heartbeat(c)

HubNext ==
    \/ NotifyInvalidation \/ DeactivateTenant \/ ReactivateTenant
    \/ \E m \in publishing : PublishRealtimeMessage(m) \/ PublishFails(m)
    \/ \E c \in Clients : RevokeSession(c) \/ Login(c) \/ DeviceStep(c) \/ ServerStep(c)
    \/ OnNotification \/ ListenError \/ ConnectListen \/ ReconnectListen
    \/ StatusStep \/ StatusListenError \/ Shutdown

(* Timers fire, queries answer and started steps end; nothing makes a      *)
(* process shut down.                                                      *)
HubFairness ==
    /\ \A c \in Clients : WF_hubVars(ServerStep(c)) /\ WF_hubVars(Heartbeat(c))
    /\ WF_hubVars(StatusStep)

HubSpec == HubInit /\ [][HubNext]_hubVars /\ HubFairness

-----------------------------------------------------------------------------
HubTypeOK ==
    /\ version \in 0 .. MaxWrites /\ phase \in {Phases[i] : i \in 1 .. Len(Phases)}
    /\ hubListen \in {"up", "down", "connecting"}
    /\ statusListen \in {"up", "down", "listening", "read", "closed"}
    /\ \A c \in Clients :
          /\ sock[c].st \in {"none", "authenticating", "authenticated", "open", "closing"}
          /\ sock[c].missed \in 0 .. 2 /\ sock[c].pending \in 0 .. MaxWrites
          /\ device[c].copy <= version /\ device[c].frame <= version
    /\ {statusHeld, statusSnap, toldHub, lostInvalidation, tenantUp} \subseteq BOOLEAN

(* A client whose socket is open and who has read all there is to read has *)
(* the item's newest version, whatever order the notifications came in,    *)
(* however often the LISTEN connection was lost and however far behind the *)
(* client fell - unless a NOTIFY itself failed, which the hooks only log.  *)
InvalidationsArrive ==
    \A c \in Clients :
        (/\ SocketOpen(c) /\ hubListen = "up" /\ wire = <<>> /\ sock[c].pending = 0
         /\ \A m \in publishing : m.type # "invalidation"
         /\ ~device[c].stale /\ device[c].frame = 0)
        => device[c].copy = version \/ lostInvalidation

(* Once the process has heard of a tenant's deactivation, no socket of it  *)
(* is open, not even one whose upgrade was authenticating at the time.     *)
DeactivatedHasNoSocket ==
    ~tenantUp /\ toldHub => \A c \in Clients : ~SocketOpen(c)

(* After the sync server's close no socket is or becomes open, and no      *)
(* LISTEN connection is attached, not even one a reconnect had under way.  *)
ClosedServerIsQuiet ==
    HubClosed => hubListen # "up" /\ \A c \in Clients : ~SocketOpen(c)

(* A socket of a revoked session is closed, also when the notification was *)
(* lost or the socket was attached after it.                               *)
RevokedSocketsClosed == \A c \in Clients : SocketOpen(c) => Alive(c, sock[c].session)

(* The process learns of a deactivation, also of one that happened while   *)
(* its listener had no connection - unless it shuts down.                  *)
DeactivationHeard == ~tenantUp => toldHub \/ phase # "run"

-----------------------------------------------------------------------------
(***************************************************************************)
(* A notification on its way to its owner's devices: the producers that    *)
(* write it, the notificationFanout job its insert enqueues, the           *)
(* push_deliveries rows that remember what each registration has received, *)
(* and the registrations, which come, move to another account and go while *)
(* the job runs.                                                           *)
(*                                                                         *)
(* A registration is one row: its id is its place in the order of creation.*)
(* One transition of one source, one recipient, Owner.                     *)
(***************************************************************************)

CONSTANTS
    Producers,      \* transactions that report the same transition
    PushDevices, Accts, Owner,
    FanoutWorkers, FanoutTries,
    MaxRegs,        \* registrations, the owner's first ones included
    MaxPushFaults   \* crashes, stale locks and provider answers that got lost

ASSUME PushAssumption ==
    /\ Owner \in Accts /\ FanoutTries \in Nat \ {0} /\ MaxRegs \in Nat \ {0} /\ MaxPushFaults \in Nat
    /\ Producers \cap {"none", "committed"} = {}

VARIABLES
    note,        \* the notifications row: who holds it uncommitted, or "committed"
    fanJob,      \* the job's row: state, attempts
    regs,        \* push_subscriptions
    delivery,    \* push_deliveries.status by registration
    fan,         \* what each execution of the job does
    accepted,    \* pushes a provider accepted, by registration
    attempted,   \* registrations the job's newest attempt has sent to
    pushFaults

pushVars == <<note, fanJob, regs, delivery, fan, accepted, attempted, pushFaults>>
jobRest == <<note, regs, delivery, accepted>>

RegIds == 1 .. MaxRegs
FanoutIdle == [pc |-> "idle", try |-> 0, todo |-> {}, resolved |-> {}, cur |-> 0, answer |-> "none", transient |-> FALSE]
PushFault == pushFaults < MaxPushFaults /\ pushFaults' = pushFaults + 1
To(w, pc) == fan' = [fan EXCEPT ![w].pc = pc]
Active(u) == {r \in 1 .. Len(regs) : regs[r].owner = u /\ regs[r].active}
FirstDevice == CHOOSE d \in PushDevices : TRUE

PushInit ==
    /\ note = "none" /\ fanJob = [state |-> "none", attempts |-> 0]
    /\ regs = <<[device |-> FirstDevice, owner |-> Owner, active |-> TRUE]>>
    /\ delivery = [r \in RegIds |-> "none"]
    /\ fan = [w \in FanoutWorkers |-> FanoutIdle]
    /\ accepted = [r \in RegIds |-> 0] /\ attempted = {} /\ pushFaults = 0

-----------------------------------------------------------------------------
(* Producers: the row and its job are written in the producer's own        *)
(* transaction; an uncommitted row of another makes the insert wait.       *)

WriteNotification(p) ==
    /\ note = "none" /\ note' = p
    /\ UNCHANGED <<fanJob, regs, delivery, fan, accepted, attempted, pushFaults>>

ProducerCommits(p) ==
    /\ note = p /\ note' = "committed" /\ fanJob' = [state |-> "queued", attempts |-> 0]
    /\ UNCHANGED <<regs, delivery, fan, accepted, attempted, pushFaults>>

ProducerRollsBack(p) ==
    /\ note = p /\ PushFault /\ note' = "none"
    /\ UNCHANGED <<fanJob, regs, delivery, fan, accepted, attempted>>

-----------------------------------------------------------------------------
(* Registrations.                                                          *)

(* Another account's active row of the device is revoked, the account's    *)
(* own refreshed or inserted, in one transaction.                          *)
DisplaceAndUpsert(u, d) ==
    LET others == {r \in 1 .. Len(regs) : regs[r].device = d /\ regs[r].active /\ regs[r].owner # u}
        mine == {r \in Active(u) : regs[r].device = d}
        kept == [r \in 1 .. Len(regs) |-> [regs[r] EXCEPT !.active = @ /\ r \notin others]]
    IN  /\ mine # {} \/ Len(regs) < MaxRegs
        /\ regs' = IF mine # {} THEN kept
                   ELSE Append(kept, [device |-> d, owner |-> u, active |-> TRUE])
        /\ UNCHANGED <<note, fanJob, delivery, fan, accepted, attempted, pushFaults>>

RevokeRegistration(r) ==
    /\ regs[r].active /\ regs' = [regs EXCEPT ![r].active = FALSE]
    /\ UNCHANGED <<note, fanJob, delivery, fan, accepted, attempted, pushFaults>>

-----------------------------------------------------------------------------
(* The job.                                                                *)

TakeFanout(w) ==
    /\ fanJob.state = "queued" /\ fan[w].pc = "idle"
    /\ fanJob' = [state |-> "locked", attempts |-> fanJob.attempts + 1]
    /\ fan' = [fan EXCEPT ![w] = [FanoutIdle EXCEPT !.pc = "loading", !.try = fanJob.attempts + 1]]
    /\ attempted' = {}
    /\ UNCHANGED <<jobRest, pushFaults>>

ListRegistrations(w) ==
    /\ fan[w].pc = "loading"
    /\ fan' = [fan EXCEPT ![w].pc = "claiming", ![w].todo = Active(Owner)]
    /\ UNCHANGED <<jobRest, fanJob, attempted, pushFaults>>

ClaimPushDeliveryTargets(w) ==
    /\ fan[w].pc = "claiming" /\ To(w, "checking")
    /\ delivery' = [r \in RegIds |-> IF r \in fan[w].todo /\ delivery[r] = "none"
                                     THEN "pending" ELSE delivery[r]]
    /\ UNCHANGED <<note, fanJob, regs, accepted, attempted, pushFaults>>

GetPushDeliveryStatuses(w) ==
    /\ fan[w].pc = "checking"
    /\ fan' = [fan EXCEPT ![w].pc = "sending",
                          ![w].resolved = {r \in RegIds : delivery[r] \in {"delivered", "failed"}}]
    /\ UNCHANGED <<jobRest, fanJob, attempted, pushFaults>>

(* The newest registration that is left; a resolved one is passed over.    *)
Left(w) == fan[w].todo \ fan[w].resolved
NewestLeft(w) == CHOOSE r \in Left(w) : \A q \in Left(w) : q <= r

(* What either adapter makes of a provider's answer.                       *)
Answers == {"delivered", "permanent", "transient", "unconfigured"}

(* The provider answers, and a push may be accepted though its answer is   *)
(* lost.                                                                   *)
SendPush(w) ==
    /\ fan[w].pc = "sending" /\ Left(w) # {}
    /\ LET r == NewestLeft(w) IN
        /\ \E answer \in Answers :
              fan' = [fan EXCEPT ![w].pc = "recording", ![w].cur = r, ![w].answer = answer,
                                 ![w].todo = @ \ {r}]
        /\ \/ /\ fan'[w].answer = "delivered" /\ UNCHANGED pushFaults
              /\ accepted' = [accepted EXCEPT ![r] = @ + 1]
           \/ /\ fan'[w].answer = "transient" /\ PushFault
              /\ accepted' = [accepted EXCEPT ![r] = @ + 1]
           \/ fan'[w].answer # "delivered" /\ UNCHANGED <<accepted, pushFaults>>
        /\ attempted' = IF fan[w].try = fanJob.attempts THEN attempted \cup {r} ELSE attempted
        /\ UNCHANGED <<note, fanJob, regs, delivery>>

JobFails(w) == fanJob' = IF fanJob.state # "locked" \/ fanJob.attempts # fan[w].try THEN fanJob
                         ELSE [fanJob EXCEPT !.state = IF fanJob.attempts < FanoutTries THEN "queued" ELSE "dead"]

(* The provider's verdict is recorded; a permanent one revokes whatever    *)
(* active registration the device has.                                     *)
RecordAnswer(w) ==
    /\ fan[w].pc = "recording"
    /\ LET r == fan[w].cur
           verdict == fan[w].answer
           target == regs[r].device
       IN  /\ fan' = [fan EXCEPT ![w].pc = "sending", ![w].transient = @ \/ verdict = "transient"]
           /\ delivery' = IF verdict = "transient" THEN delivery
                          ELSE [delivery EXCEPT ![r] = IF verdict = "delivered" THEN verdict ELSE "failed"]
           /\ regs' = IF verdict # "permanent" THEN regs
                      ELSE [q \in 1 .. Len(regs) |-> [regs[q] EXCEPT !.active = @ /\ regs[q].device # target]]
    /\ UNCHANGED <<note, fanJob, accepted, attempted, pushFaults>>

(* After the last registration a transient failure fails the attempt.      *)
FinishFanout(w) ==
    /\ fan[w].pc = "sending" /\ Left(w) = {}
    /\ fan' = [fan EXCEPT ![w] = FanoutIdle]
    /\ IF fan[w].transient THEN JobFails(w)
       ELSE fanJob' = IF fanJob.state # "locked" \/ fanJob.attempts # fan[w].try THEN fanJob
                      ELSE [fanJob EXCEPT !.state = "done"]
    /\ UNCHANGED <<jobRest, attempted, pushFaults>>

(* The process dies, and the job is given away once its lock is old; or    *)
(* the lock grows old while the worker still runs.                         *)
FanoutCrashes(w) ==
    /\ fan[w].pc # "idle" /\ PushFault
    /\ fan' = [fan EXCEPT ![w] = FanoutIdle] /\ JobFails(w)
    /\ UNCHANGED <<jobRest, attempted>>

FanoutLockGoesStale(w) ==
    /\ fan[w].pc # "idle" /\ fanJob.state = "locked" /\ fanJob.attempts = fan[w].try
    /\ fanJob.attempts < FanoutTries /\ PushFault
    /\ fanJob' = [fanJob EXCEPT !.state = "queued"]
    /\ UNCHANGED <<jobRest, fan, attempted>>

FanoutStep(w) ==
    \/ TakeFanout(w) \/ ListRegistrations(w) \/ ClaimPushDeliveryTargets(w)
    \/ GetPushDeliveryStatuses(w) \/ SendPush(w) \/ RecordAnswer(w) \/ FinishFanout(w)

PushNext ==
    \/ \E p \in Producers : WriteNotification(p) \/ ProducerCommits(p) \/ ProducerRollsBack(p)
    \/ \E u \in Accts, d \in PushDevices : DisplaceAndUpsert(u, d)
    \/ \E r \in 1 .. Len(regs) : RevokeRegistration(r)
    \/ \E w \in FanoutWorkers : FanoutStep(w) \/ FanoutCrashes(w) \/ FanoutLockGoesStale(w)

(* Workers run; a producer that has written commits.                       *)
PushFairness ==
    /\ \A w \in FanoutWorkers : WF_pushVars(FanoutStep(w))
    /\ \A p \in Producers : WF_pushVars(ProducerCommits(p))

PushSpec == PushInit /\ [][PushNext]_pushVars /\ PushFairness

-----------------------------------------------------------------------------
PushTypeOK ==
    /\ note \in {"none", "committed"} \cup Producers
    /\ fanJob.state \in {"none", "queued", "locked", "done", "dead"} /\ fanJob.attempts \in 0 .. FanoutTries
    /\ Len(regs) <= MaxRegs
    /\ \A d \in PushDevices : Cardinality({r \in 1 .. Len(regs) : regs[r].device = d /\ regs[r].active}) <= 1
    /\ \A r \in RegIds : delivery[r] \in {"none", "pending", "delivered", "failed"}
    /\ \A w \in FanoutWorkers : fan[w].todo \subseteq 1 .. Len(regs)

(* A registration receives a notification once, however often the job is   *)
(* retried for the sake of another - unless an answer got lost, a process  *)
(* died between the push and its record, or two workers ran the job.       *)
PushedTwiceNeedsFault == \A r \in RegIds : accepted[r] > 1 => pushFaults > 0

(* When the job's attempts are used up, its last attempt has tried every   *)
(* delivery that is still pending: one bad device costs the others nothing.*)
DeadJobTriedAll ==
    fanJob.state = "dead" /\ pushFaults = 0
        => \A r \in RegIds : delivery[r] = "pending" => r \in attempted \/ ~regs[r].active

(* A job that ends well leaves no delivery to an active registration       *)
(* pending.                                                                *)
DoneMeansResolved ==
    fanJob.state = "done" /\ pushFaults = 0
        => \A r \in RegIds : delivery[r] = "pending" => ~regs[r].active

(* A committed notification's deliveries are brought to an end.            *)
FanoutEnded == note = "committed" => fanJob.state \in {"done", "dead"}
=============================================================================
