--------------------------- MODULE RealtimeClient ---------------------------
(***************************************************************************)
(* A client's realtime connection, seen from both ends: the watch of an    *)
(* agent run on the server, and the connection of the sync client.         *)
(***************************************************************************)
EXTENDS Integers, Sequences, FiniteSets, FiniteSetsExt

-----------------------------------------------------------------------------
(***************************************************************************)
(* A socket that follows one agent run: packages/realtime/src/             *)
(* agentRunWatch.ts and the per-run delivery chain of syncServer.ts        *)
(* (enqueueAgentEvent).                                                    *)
(*                                                                         *)
(* A watch looks the run up, registers a watcher that collects the NOTIFYs *)
(* of its replay, replays the events after the client's cursor, drains     *)
(* what it collected and then takes over. An earlier watcher of the socket *)
(* stays active until then. Events are numbered in their commit order.     *)
(***************************************************************************)

CONSTANTS MaxRunEvents,   \* bound: events of the run
          MaxWatches,     \* bound: agent:watch frames
          MaxWatchFaults  \* bound: failed reads

ASSUME AgentRunWatchAssumption ==
    {MaxRunEvents, MaxWatches, MaxWatchFaults} \subseteq Nat

VARIABLES committed,   \* the events of the run: 1 .. committed
          announced,   \* NOTIFYs under way
          chain,       \* agentEventDeliveryTails: events to forward, in turn
          forwarding,  \* the forward that is fetching its event
          watchers,    \* one watcher per agent:watch frame
          pendingWatch, active, replacement, \* the socket's maps for the run
          socketOpen,
          got,         \* the events sent to the client since its last watch
          asked,       \* the cursor of the client's last watch, or NotWatching
          watchFaults, outOfTurn

watchVars == <<committed, announced, chain, forwarding, watchers,
               pendingWatch, active, replacement, socketOpen, got, asked,
               watchFaults, outOfTurn>>

None == 0
NotWatching == -1
Tokens == 1 .. Len(watchers)
RunEvents == 1 .. MaxRunEvents
Idle == [event |-> None, to |-> {}]

WatchInit ==
    /\ committed = 0 /\ announced = {} /\ chain = <<>> /\ forwarding = Idle
    /\ watchers = <<>> /\ pendingWatch = None
    /\ active = None /\ replacement = None
    /\ socketOpen = TRUE /\ got = {} /\ asked = NotWatching
    /\ watchFaults = 0 /\ outOfTurn = FALSE

Stages == {"lookup", "list", "replay", "drain", "live", "ended"}

WatchTypeOK ==
    /\ committed \in 0 .. MaxRunEvents /\ announced \subseteq RunEvents
    /\ chain \in Seq(RunEvents)
    /\ forwarding \in [event : 0 .. MaxRunEvents, to : SUBSET Tokens]
    /\ Len(watchers) <= MaxWatches
    /\ \A t \in Tokens :
          watchers[t] \in [at : Stages, last : 0 .. MaxRunEvents,
                           queued : SUBSET RunEvents,
                           fetched : SUBSET RunEvents]
    /\ {pendingWatch, active, replacement} \subseteq 0 .. MaxWatches
    /\ socketOpen \in BOOLEAN /\ outOfTurn \in BOOLEAN
    /\ got \subseteq RunEvents /\ asked \in -1 .. MaxRunEvents
    /\ watchFaults \in 0 .. MaxWatchFaults

IsCurrent(t) == t \in {active, replacement}
Replaying(t) == watchers[t].at \in {"list", "replay", "drain"}

\* deliver: only later events, and the cursor moves with them.
Deliver(t, event) == IF IsCurrent(t) /\ event > watchers[t].last
                     THEN {event} ELSE {}
CursorAfter(t, sent) == IF sent = {} THEN watchers[t].last ELSE Max(sent)

-----------------------------------------------------------------------------
(* Events *)

CommitEvent ==
    /\ committed < MaxRunEvents
    /\ committed' = committed + 1
    /\ announced' = announced \union {committed + 1}
    /\ UNCHANGED <<chain, forwarding, watchers, pendingWatch, active,
                   replacement, socketOpen, got, asked, watchFaults, outOfTurn>>

\* Each NOTIFY is a query of its own: they may overtake one another.
EventAnnounced(e) ==
    /\ e \in announced
    /\ announced' = announced \ {e}
    /\ chain' = Append(chain, e)
    /\ outOfTurn' = (outOfTurn \/ \E d \in announced : d < e)
    /\ UNCHANGED <<committed, forwarding, watchers, pendingWatch, active,
                   replacement, socketOpen, got, asked, watchFaults>>

\* A forward that serves only the watchers that are live.
QueuesNothing(e) == watchers

\* A watcher in replay collects the event; a live one gets it when fetched.
Queues(e) == [t \in Tokens |->
                 IF IsCurrent(t) /\ Replaying(t)
                 THEN [watchers[t] EXCEPT !.queued = @ \union {e}]
                 ELSE watchers[t]]

ForwardEvent ==
    /\ forwarding = Idle /\ chain # <<>>
    /\ LET e == Head(chain)
           live == {t \in Tokens : IsCurrent(t) /\ ~Replaying(t)}
       IN  /\ watchers' = Queues(e)
           /\ forwarding' = IF live = {} THEN Idle
                            ELSE [event |-> e, to |-> live]
    /\ chain' = Tail(chain)
    /\ UNCHANGED <<committed, announced, pendingWatch, active, replacement,
                   socketOpen, got, asked, watchFaults, outOfTurn>>

ForwardFetched ==
    /\ forwarding # Idle
    /\ forwarding' = Idle
    /\ got' = got \union UNION {Deliver(t, forwarding.event) :
                                t \in forwarding.to}
    /\ watchers' = [t \in Tokens |->
          IF t \in forwarding.to
          THEN [watchers[t] EXCEPT
                   !.last = CursorAfter(t, Deliver(t, forwarding.event))]
          ELSE watchers[t]]
    /\ UNCHANGED <<committed, announced, chain, pendingWatch, active,
                   replacement, socketOpen, asked, watchFaults, outOfTurn>>

ForwardFails ==
    /\ forwarding # Idle /\ watchFaults < MaxWatchFaults
    /\ forwarding' = Idle /\ watchFaults' = watchFaults + 1
    /\ outOfTurn' = TRUE
    /\ UNCHANGED <<committed, announced, chain, watchers, pendingWatch, active,
                   replacement, socketOpen, got, asked>>

-----------------------------------------------------------------------------
(* agent:watch *)

\* The client asks for everything after what it has, or from the start.
Watch(cursor) ==
    /\ socketOpen /\ Len(watchers) < MaxWatches
    /\ watchers' = Append(watchers, [at |-> "lookup", last |-> cursor,
                                     queued |-> {}, fetched |-> {}])
    /\ pendingWatch' = Len(watchers) + 1
    /\ asked' = cursor /\ got' = {}
    /\ UNCHANGED <<committed, announced, chain, forwarding, active,
                   replacement, socketOpen, watchFaults, outOfTurn>>

Moved(t, stage) == [watchers EXCEPT ![t].at = stage]

\* addReplacement: a former candidate is removed, the established one stays.
Register(t) == replacement' = t /\ UNCHANGED active

\* The run was looked up: the watch goes on unless it was withdrawn or
\* overtaken, or the socket closed.
WatchLookedUp(t) ==
    /\ watchers[t].at = "lookup"
    /\ IF pendingWatch = t /\ socketOpen
       THEN /\ Register(t)
            /\ watchers' = [Moved(t, "list") EXCEPT
                  ![IF replacement = None THEN t ELSE replacement].at =
                      IF replacement = None THEN "list" ELSE "ended"]
            /\ pendingWatch' = None
       ELSE /\ watchers' = Moved(t, "ended")
            /\ UNCHANGED <<active, replacement, pendingWatch>>
    /\ UNCHANGED <<committed, announced, chain, forwarding, socketOpen, got,
                   asked, watchFaults, outOfTurn>>

\* listAgentRunEventsAfter.
ListEvents(t) ==
    /\ watchers[t].at = "list"
    /\ watchers' = [Moved(t, "replay") EXCEPT
          ![t].fetched = {e \in 1 .. committed : e > watchers[t].last}]
    /\ UNCHANGED <<committed, announced, chain, forwarding, pendingWatch,
                   active, replacement, socketOpen, got, asked, watchFaults,
                   outOfTurn>>

ReplayEvents(t) ==
    /\ watchers[t].at = "replay"
    /\ IF IsCurrent(t)
       THEN /\ got' = got \union watchers[t].fetched
            /\ watchers' = [Moved(t, "drain") EXCEPT
                  ![t].last = CursorAfter(t, watchers[t].fetched),
                  ![t].fetched = {}]
       ELSE /\ watchers' = Moved(t, "ended")
            /\ UNCHANGED got
    /\ UNCHANGED <<committed, announced, chain, forwarding, pendingWatch,
                   active, replacement, socketOpen, asked, watchFaults,
                   outOfTurn>>

\* The collected events are taken as a batch and fetched in order; those
\* that come meanwhile wait for the next batch.
TakeQueued(t) ==
    /\ watchers[t].at = "drain"
    /\ watchers[t].fetched = {} /\ watchers[t].queued # {}
    /\ watchers' = [watchers EXCEPT ![t].fetched = watchers[t].queued,
                                    ![t].queued = {}]
    /\ UNCHANGED <<committed, announced, chain, forwarding, pendingWatch,
                   active, replacement, socketOpen, got, asked, watchFaults,
                   outOfTurn>>

DrainOne(t) ==
    /\ watchers[t].at = "drain" /\ watchers[t].fetched # {}
    /\ LET e == Min(watchers[t].fetched)
           sent == Deliver(t, e)
       IN  /\ got' = got \union sent
           /\ watchers' = [watchers EXCEPT ![t].last = CursorAfter(t, sent),
                                           ![t].fetched = @ \ {e}]
    /\ UNCHANGED <<committed, announced, chain, forwarding, pendingWatch,
                   active, replacement, socketOpen, asked, watchFaults,
                   outOfTurn>>

\* promoteReplacement: the established watcher's cursor bounds the new one's.
Promote(t) ==
    /\ watchers[t].at = "drain"
    /\ watchers[t].fetched = {} /\ watchers[t].queued = {}
    /\ IF IsCurrent(t)
       THEN /\ active' = t /\ replacement' = None
            /\ watchers' = [s \in Tokens |->
                  CASE s = t -> [watchers[t] EXCEPT
                          !.at = "live",
                          !.last = IF active = None THEN @
                                   ELSE Max({@, watchers[active].last})]
                    [] s = active /\ s # t -> [watchers[s] EXCEPT !.at = "ended"]
                    [] OTHER -> watchers[s]]
       ELSE /\ watchers' = Moved(t, "ended")
            /\ UNCHANGED <<active, replacement>>
    /\ UNCHANGED <<committed, announced, chain, forwarding, pendingWatch,
                   socketOpen, got, asked, watchFaults, outOfTurn>>

\* A read of the watch fails: the candidate is removed, nothing else.
WatchFails(t) ==
    /\ watchers[t].at \in {"lookup", "list", "drain"}
    /\ watchFaults < MaxWatchFaults
    /\ watchFaults' = watchFaults + 1
    /\ watchers' = Moved(t, "ended")
    /\ pendingWatch' = IF pendingWatch = t THEN None ELSE pendingWatch
    /\ replacement' = IF replacement = t THEN None ELSE replacement
    /\ outOfTurn' = TRUE
    /\ UNCHANGED <<committed, announced, chain, forwarding, active,
                   socketOpen, got, asked>>

-----------------------------------------------------------------------------
(* agent:unwatch and the socket's end *)

\* Watchers that are removed while they read end where they are; a live one
\* is simply no longer current.
Removed == [t \in Tokens |-> IF t = active
                             THEN [watchers[t] EXCEPT !.at = "ended"]
                             ELSE watchers[t]]

\* An unwatch that does not know of a watch still being looked up.
Withdraw == pendingWatch' = None

Unwatch ==
    /\ socketOpen /\ asked # NotWatching
    /\ Withdraw
    /\ active' = None /\ replacement' = None /\ watchers' = Removed
    /\ asked' = NotWatching /\ got' = {}
    /\ UNCHANGED <<committed, announced, chain, forwarding, socketOpen,
                   watchFaults, outOfTurn>>

SocketEnds ==
    /\ socketOpen /\ socketOpen' = FALSE
    /\ pendingWatch' = None
    /\ active' = None /\ replacement' = None /\ watchers' = Removed
    /\ asked' = NotWatching /\ got' = {}
    /\ UNCHANGED <<committed, announced, chain, forwarding, watchFaults,
                   outOfTurn>>

WatchStep(t) == \/ WatchLookedUp(t) \/ ListEvents(t) \/ ReplayEvents(t)
                \/ TakeQueued(t) \/ DrainOne(t) \/ Promote(t)

ForwardStep == ForwardEvent \/ ForwardFetched

WatchNext ==
    \/ CommitEvent \/ (\E e \in RunEvents : EventAnnounced(e))
    \/ ForwardStep \/ ForwardFails
    \/ \E cursor \in {0} \union got : Watch(cursor)
    \/ \E t \in Tokens : WatchStep(t) \/ WatchFails(t)
    \/ Unwatch \/ SocketEnds

\* The event loop runs its continuations; NOTIFYs are delivered.
WatchSpec ==
    /\ WatchInit /\ [][WatchNext]_watchVars
    /\ \A t \in 1 .. MaxWatches : WF_watchVars(t \in Tokens /\ WatchStep(t))
    /\ WF_watchVars(ForwardStep)
    /\ \A e \in RunEvents : WF_watchVars(EventAnnounced(e))

-----------------------------------------------------------------------------
(***************************************************************************)
(* No event falls between the replay and the live stream: once the last    *)
(* watch is established and nothing is under way, the client has been sent *)
(* every event after its cursor. Two NOTIFYs that overtake one another, or *)
(* a failed read, are what it takes to lose one.                           *)
(***************************************************************************)
NoEventFallsBetween ==
    /\ active # None /\ replacement = None /\ pendingWatch = None
    /\ announced = {} /\ chain = <<>> /\ forwarding = Idle /\ ~outOfTurn
    => {e \in 1 .. committed : e > asked} \subseteq got

(***************************************************************************)
(* Nothing follows a run the client has withdrawn from: an unwatch, or the *)
(* end of the socket, is not overtaken by a watch still being looked up.   *)
(***************************************************************************)
WithdrawnStaysWithdrawn ==
    asked = NotWatching => active = None /\ replacement = None

(***************************************************************************)
(* An established watch is given up only for the client's sake: a newer    *)
(* watch that is refused or whose replay fails leaves it in place.         *)
(***************************************************************************)
EstablishedWatchSurvives ==
    [][active # None /\ active' = None => asked' = NotWatching]_watchVars

(***************************************************************************)
(* A watch that is not withdrawn gets established (or its reads failed).   *)
(***************************************************************************)
WatchEstablished == asked # NotWatching => active # None \/ outOfTurn

-----------------------------------------------------------------------------
(***************************************************************************)
(* The connection of the sync client (packages/realtime-client/src/        *)
(* syncClient.ts): connect, close, the reconnect timer, sockets that are   *)
(* superseded while their callbacks are still to come, and the gate that   *)
(* holds invalidations back while the active state is fetched again.       *)
(***************************************************************************)

CONSTANTS MaxClientSockets,  \* bound: connections attempted
          MaxCalls           \* bound: connect() and close() calls

ASSUME SyncClientAssumption == {MaxClientSockets, MaxCalls} \subseteq Nat

VARIABLES clientSocket,   \* the socket in use, 0 for null
          connectionId,   \* of the last attempt
          reconnectTimer, \* "unset", "armed", or "fired": never reset then
          closedByCaller,
          gated,          \* gateInvalidations
          wire,           \* wire[k]: the state of the k-th socket
          refetching,     \* the connections whose refetch has not settled
          calls,
          deafened        \* history: revoked while a fired timer is remembered

clientVars == <<clientSocket, connectionId, reconnectTimer, closedByCaller,
                gated, wire, refetching, calls, deafened>>

ClientSockets == 1 .. MaxClientSockets
OpenEnds == {"connecting", "open"}

ClientInit ==
    /\ clientSocket = 0 /\ connectionId = 0 /\ reconnectTimer = "unset"
    /\ closedByCaller = TRUE /\ gated = FALSE
    /\ wire = [k \in ClientSockets |-> "none"] /\ refetching = {}
    /\ calls = 0 /\ deafened = FALSE

ClientTypeOK ==
    /\ {clientSocket, connectionId} \subseteq 0 .. MaxClientSockets
    /\ reconnectTimer \in {"unset", "armed", "fired"}
    /\ {closedByCaller, gated, deafened} \subseteq BOOLEAN
    /\ wire \in [ClientSockets -> OpenEnds \union {"none", "leaving", "gone"}]
    /\ refetching \subseteq ClientSockets /\ calls \in 0 .. MaxCalls

EstablishConnection ==
    /\ connectionId < MaxClientSockets
    /\ connectionId' = connectionId + 1
    /\ clientSocket' = connectionId + 1
    /\ wire' = [wire EXCEPT ![connectionId + 1] = "connecting"]

\* connect() does nothing while there is a socket, or a timer: an armed one,
\* or one that has fired.
IdleClient == clientSocket = 0 /\ reconnectTimer = "unset"

CallConnect ==
    /\ calls < MaxCalls /\ calls' = calls + 1
    /\ closedByCaller' = FALSE
    /\ IF IdleClient
       THEN EstablishConnection
       ELSE UNCHANGED <<connectionId, clientSocket, wire>>
    /\ UNCHANGED <<reconnectTimer, gated, refetching, deafened>>

\* A close that stops the timer but goes on remembering it.
TimerCleared == "unset"

CallClose ==
    /\ calls < MaxCalls /\ calls' = calls + 1
    /\ closedByCaller' = TRUE
    /\ reconnectTimer' = TimerCleared
    /\ deafened' = FALSE
    /\ clientSocket' = 0
    /\ wire' = IF clientSocket # 0
               THEN [wire EXCEPT ![clientSocket] =
                        IF @ \in OpenEnds THEN "leaving" ELSE @]
               ELSE wire
    /\ UNCHANGED <<connectionId, gated, refetching>>

TimerFires ==
    /\ reconnectTimer = "armed"
    /\ reconnectTimer' = "fired"
    /\ IF closedByCaller THEN UNCHANGED <<connectionId, clientSocket, wire>>
                         ELSE EstablishConnection
    /\ UNCHANGED <<closedByCaller, gated, refetching, calls, deafened>>

\* onopen of the current attempt: resume, and refetch behind the gate.
SocketOpens(k) ==
    /\ wire[k] = "connecting"
    /\ wire' = [wire EXCEPT ![k] = "open"]
    /\ IF k = connectionId
       THEN gated' = TRUE /\ refetching' = refetching \union {k}
       ELSE UNCHANGED <<gated, refetching>>
    /\ UNCHANGED <<clientSocket, connectionId, reconnectTimer, closedByCaller,
                   calls, deafened>>

\* A close handler that does not ask whose socket it was.
IsCurrentSocket(k) == k = connectionId

\* onclose: a superseded socket's is ignored; a revocation is final; any
\* other close of the current one arms the timer, unless the caller closed.
SocketCloses(k, revoked) ==
    /\ wire[k] \in OpenEnds \union {"leaving"}
    /\ wire' = [wire EXCEPT ![k] = "gone"]
    /\ IF IsCurrentSocket(k)
       THEN /\ clientSocket' = 0
            /\ closedByCaller' = (closedByCaller \/ revoked)
            /\ reconnectTimer' = IF closedByCaller \/ revoked
                                 THEN reconnectTimer ELSE "armed"
            /\ deafened' = (revoked /\ reconnectTimer = "fired")
       ELSE UNCHANGED <<clientSocket, closedByCaller, reconnectTimer, deafened>>
    /\ UNCHANGED <<connectionId, gated, refetching, calls>>

\* A refetch that lifts the gate for whichever connection is current.
LiftsGate(k) == IF k = connectionId THEN FALSE ELSE gated

RefetchSettles(k) ==
    /\ k \in refetching
    /\ refetching' = refetching \ {k}
    /\ gated' = LiftsGate(k)
    /\ UNCHANGED <<clientSocket, connectionId, reconnectTimer, closedByCaller,
                   wire, calls, deafened>>

ClientNext ==
    \/ CallConnect \/ CallClose \/ TimerFires
    \/ \E k \in ClientSockets :
          \/ SocketOpens(k) \/ RefetchSettles(k)
          \/ \E revoked \in BOOLEAN : SocketCloses(k, revoked)

ClientSpec == ClientInit /\ [][ClientNext]_clientVars

-----------------------------------------------------------------------------
(***************************************************************************)
(* However connect, close, the timer and late callbacks interleave, one    *)
(* socket at most is connecting or open: none is left behind unreferenced. *)
(***************************************************************************)
NoSocketLeftBehind ==
    \A k \in ClientSockets : wire[k] \in OpenEnds => k = clientSocket

(***************************************************************************)
(* A client that is wanted connected has a socket or waits for its timer.  *)
(* The exception is a connect() after a revocation that followed an        *)
(* earlier reconnect: the timer that fired then still counts as pending.   *)
(***************************************************************************)
WantedMeansTrying ==
    ~closedByCaller /\ ~deafened => clientSocket # 0 \/ reconnectTimer = "armed"

(***************************************************************************)
(* No invalidation gets through while the state the current connection     *)
(* asked for is still being fetched, whatever older refetches do.          *)
(***************************************************************************)
GateCoversRefetch == connectionId \in refetching => gated
=============================================================================
