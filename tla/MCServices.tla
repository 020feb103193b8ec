----------------------------- MODULE MCServices -----------------------------
(***************************************************************************)
(* The services around the data, part by part: the review follow-ups       *)
(* pipeline, the gateway's calls, the sync server and the push fanout, and *)
(* the job queue and the connection pool under all of them. They share no  *)
(* state in the model, so the stage picks the one that moves and their     *)
(* state spaces add up.                                                    *)
(***************************************************************************)
EXTENDS FollowUps, GatewayCalls, ServerPush, Database, TLC

CONSTANTS c1, c2, c3, o1, o2, o3, o4

Findings == 1 :> {"a"} @@ 2 :> {"b", "c"} @@ 3 :> {"d"}
Routes == c1 :> "audio" @@ c2 :> "pi" @@ c3 :> "audio"
Kinds == o1 :> "transaction" @@ o2 :> "transaction" @@ o3 :> "query" @@ o4 :> "session"
Scopes == o1 :> "t1" @@ o2 :> "t2" @@ o3 :> "t1" @@ o4 :> "t2"

VARIABLE stage

servicesVars ==
    <<stage, followVars, gwVars, hubVars, pushVars, queueVars, connVars>>

ServicesInit ==
    /\ stage \in {"followups", "gateway", "hub", "fanout", "queue",
                    "connections"}
    \* one initial state for the parts at rest
    /\ FollowInit
    /\ GwInit
    /\ HubInit
    /\ PushInit
    /\ QueueInit /\ (stage # "queue" => want = 0)
    /\ ConnInit

(* The types of every part.                                                *)
ServicesTypeOK ==
    /\ FollowTypeOK /\ GwTypeOK /\ HubTypeOK /\ PushTypeOK /\ QueueTypeOK
    /\ ConnTypeOK

ServicesNext ==
    /\ UNCHANGED stage
    /\ \/ stage = "followups" /\ FollowNext
            /\ UNCHANGED <<gwVars, hubVars, pushVars, queueVars, connVars>>
       \/ stage = "gateway" /\ GwNext
            /\ UNCHANGED <<followVars, hubVars, pushVars, queueVars,
                            connVars>>
       \/ stage = "hub" /\ HubNext
            /\ UNCHANGED <<followVars, gwVars, pushVars, queueVars,
                            connVars>>
       \/ stage = "fanout" /\ PushNext
            /\ UNCHANGED <<followVars, gwVars, hubVars, queueVars, connVars>>
       \/ stage = "queue" /\ QueueNext
            /\ UNCHANGED <<followVars, gwVars, hubVars, pushVars, connVars>>
       \/ stage = "connections" /\ ConnNext
            /\ UNCHANGED <<followVars, gwVars, hubVars, pushVars, queueVars>>

(* The fairness of each component, in its own stage.                       *)
ServicesSpec ==
    /\ ServicesInit /\ [][ServicesNext]_servicesVars
    /\ WF_followVars(stage = "followups" /\ HarvestStep)
    /\ WF_followVars(stage = "followups" /\ TriageStep)
    /\ WF_followVars(stage = "followups" /\ Human)
    /\ \A c \in Calls : WF_gwVars(stage = "gateway" /\ HandlerStep(c))
    /\ WF_gwVars(stage = "gateway" /\ DrainCompletes)
    /\ WF_gwVars(stage = "gateway" /\ StreamDrainTimesOut)
    /\ WF_gwVars(stage = "gateway" /\ Exit)
    /\ \A c \in Clients : WF_hubVars(stage = "hub" /\ ServerStep(c)) /\ WF_hubVars(stage = "hub" /\ Heartbeat(c))
    /\ WF_hubVars(stage = "hub" /\ StatusStep)
    /\ \A w \in FanoutWorkers : WF_pushVars(stage = "fanout" /\ FanoutStep(w))
    /\ \A p \in Producers : WF_pushVars(stage = "fanout" /\ ProducerCommits(p))
    /\ \A w \in QueueWorkers : WF_queueVars(stage = "queue" /\ WorkerStep(w))
    /\ \A o \in PoolOps : WF_connVars(stage = "connections" /\ OpStep(o))

-----------------------------------------------------------------------------
(* The safety properties of the components, each stated and explained in   *)
(* its own module: the review follow-ups, the gateway's calls, the sync    *)
(* server's sockets and the push fanout, the job queue, the connections of *)
(* the pool and its callbacks.                                             *)
ServicesAreSafe ==
    /\ ServicesTypeOK
    /\ PublishedOnce /\ OneEpicPerHarvest /\ ClosedIsTriaged
    /\ LabelledIsRecorded
    /\ BilledIsCounted /\ ReservedNeedsACause /\ SlotsMatchRequests
    /\ GoneClientStopsProvider
    /\ InvalidationsArrive /\ DeactivatedHasNoSocket /\ ClosedServerIsQuiet
    /\ PushedTwiceNeedsFault /\ DeadJobTriedAll /\ DoneMeansResolved
    /\ EveryChangeHasAJob /\ WaitingIsNewest /\ SupersededIsNotDead
    /\ ToldAfterCommit /\ CommittedIsTold /\ NothingIsLeaked /\ IdleIsClean

(* What the services begin ends: findings are published, the calls of      *)
(* clients that left and the shutdown are over, revoked and deactivated    *)
(* sockets are closed, the fanout and the pool's operations end, and every *)
(* change is accounted for.                                                *)
ServicesSettle ==
    <>[](/\ stage = "followups" => FindingsSettled
         /\ stage = "gateway" => GoneCallsOver /\ ShutdownOver
         /\ stage = "hub" => RevokedSocketsClosed /\ DeactivationHeard
         /\ stage = "fanout" => FanoutEnded
         /\ stage = "queue" => Accounted
         /\ stage = "connections" => OperationsEnded)
=============================================================================
