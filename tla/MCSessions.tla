----------------------------- MODULE MCSessions -----------------------------
(***************************************************************************)
(* The agent runtime and what clients see of the data, part by part:       *)
(* queued and scheduled runs, a conversation that sleeps and wakes,        *)
(* delegated sessions; a document's retained history, its synchronisation, *)
(* a watched run, the client's connection, and the mailbox of the web      *)
(* client. They share no state in the model, so the stage picks the one    *)
(* that moves and their state spaces add up.                               *)
(***************************************************************************)
EXTENDS AgentRunJobs, AgentSessions, Documents, RealtimeClient, MailboxClient

VARIABLE stage

sessionVars ==
    <<stage, jobVars, convVars, delVars, histVars, docVars, watchVars, clientVars,
      vVars, composeVars>>

SessionsInit ==
    /\ stage \in {"runs", "conversation", "delegation", "history", "sync",
                    "watch", "client", "mailbox", "compose"}
    \* one initial state for the parts at rest
    /\ RunsInit /\ (stage # "runs" => kind = "agentRun")
    /\ ConvInit
    /\ DelInit
    /\ HistInit
    /\ DocInit
    /\ WatchInit
    /\ ClientInit
    /\ VInit
    /\ ComposeInit

(* The types of every part.                                                *)
SessionsTypeOK ==
    /\ RunsTypeOK /\ ConvTypeOK /\ DelTypeOK /\ HistTypeOK /\ DocTypeOK
    /\ WatchTypeOK /\ ClientTypeOK /\ VTypeOK /\ ComposeTypeOK

SessionsNext ==
    /\ UNCHANGED stage
    /\ \/ stage = "runs" /\ RunsNext
            /\ UNCHANGED <<convVars, delVars, histVars, docVars, watchVars,
                            clientVars, vVars, composeVars>>
       \/ stage = "conversation" /\ ConvNext
            /\ UNCHANGED <<jobVars, delVars, histVars, docVars, watchVars,
                            clientVars, vVars, composeVars>>
       \/ stage = "delegation" /\ DelNext
            /\ UNCHANGED <<jobVars, convVars, histVars, docVars, watchVars,
                            clientVars, vVars, composeVars>>
       \/ stage = "history" /\ HistNext
            /\ UNCHANGED <<jobVars, convVars, delVars, docVars, watchVars,
                            clientVars, vVars, composeVars>>
       \/ stage = "sync" /\ DocNext
            /\ UNCHANGED <<jobVars, convVars, delVars, histVars, watchVars,
                            clientVars, vVars, composeVars>>
       \/ stage = "watch" /\ WatchNext
            /\ UNCHANGED <<jobVars, convVars, delVars, histVars, docVars,
                            clientVars, vVars, composeVars>>
       \/ stage = "client" /\ ClientNext
            /\ UNCHANGED <<jobVars, convVars, delVars, histVars, docVars,
                            watchVars, vVars, composeVars>>
       \/ stage = "mailbox" /\ VNext
            /\ UNCHANGED <<jobVars, convVars, delVars, histVars, docVars,
                            watchVars, clientVars, composeVars>>
       \/ stage = "compose" /\ ComposeNext
            /\ UNCHANGED <<jobVars, convVars, delVars, histVars, docVars,
                            watchVars, clientVars, vVars>>

(* The fairness of each component, in its own stage.                       *)
SessionsSpec ==
    /\ SessionsInit /\ [][SessionsNext]_sessionVars
    /\ \A w \in JobWorkers : WF_jobVars(stage = "runs" /\ JobStep(w))
    /\ WF_jobVars(stage = "runs" /\ ListenerStep)
    /\ WF_convVars(stage = "conversation" /\ ConvWork)
    /\ WF_convVars(stage = "conversation" /\ RecordToolEvent)
    /\ \A r \in Wakes : WF_convVars(stage = "conversation" /\ FailReusedRun(r))
    /\ WF_delVars(stage = "delegation" /\ ExpiryStep)
    /\ \A d \in Delegations : WF_delVars(stage = "delegation" /\ DelegateStep(d))
    /\ \A c \in Editors : WF_docVars(stage = "sync" /\ ClientStep(c))
    /\ \A s \in Socket : WF_docVars(stage = "sync" /\ Handles(s))
    /\ WF_docVars(stage = "sync" /\ FansOut)
    /\ WF_docVars(stage = "sync" /\ ListenRestored)
    /\ \A t \in 1 .. MaxWatches : WF_watchVars(stage = "watch" /\ t \in Tokens /\ WatchStep(t))
    /\ WF_watchVars(stage = "watch" /\ ForwardStep)
    /\ \A e \in RunEvents : WF_watchVars(stage = "watch" /\ EventAnnounced(e))

-----------------------------------------------------------------------------
(* The safety properties of the agent runtime, each stated and explained   *)
(* in its own module: queued and scheduled runs, the session of a          *)
(* conversation, the sessions of delegations.                              *)
AgentRunsAreSafe ==
    /\ RunsTypeOK /\ ConvTypeOK /\ DelTypeOK
    /\ NoMissedDeactivation /\ LastWordIsTrue /\ ErrorIsNotifiedOnce
    /\ OneNoticePerOccurrence /\ OnlyFaultsStrandRuns
    /\ OpenRunHasCloser /\ NoTurnOnClosedRun /\ IdleEntryHasTimer
    /\ DroppedRunsAreNotDone
    /\ OneSessionPerKey /\ NoTurnOnExpiredRun /\ IdleSessionHasTimer
    /\ EndIsToldTruly

(* The safety properties of what clients see, each stated and explained in *)
(* its own module: a document and its history, the synchronisation of its  *)
(* editors, a watched run, the connection, the mailbox.                    *)
ClientsAreSafe ==
    /\ HistTypeOK /\ DocTypeOK /\ WatchTypeOK /\ ClientTypeOK /\ VTypeOK
    /\ ComposeTypeOK
    /\ GapsNeedOvertaking /\ DocIsWhole
    /\ SettledClientIsCurrent /\ UnstoredNeedsADrop /\ DeadSocketsAreReleased
    /\ NoEventFallsBetween /\ WithdrawnStaysWithdrawn
    /\ NoSocketLeftBehind /\ WantedMeansTrying /\ GateCoversRefetch
    /\ NeverInNoFolder /\ MovedIsGone /\ SelectionIsShown /\ TypedIsKept
    /\ RepliesGoOutOnce

(* A watch that is established survives what happens to others, and what   *)
(* is begun ends: the runs of a suspended tenant, dropped and delegated    *)
(* runs; the editors of a document agree, and a wanted watch is            *)
(* established.                                                            *)
SessionsSettle ==
    /\ EstablishedWatchSurvives
    /\ <>[](/\ stage = "runs" => SuspendedRunsEnded
            /\ stage = "conversation" => DroppedRunsEnded
            /\ stage = "delegation" => DelegatedRunsEnded
            /\ stage = "sync" => ClientsAgree
            /\ stage = "watch" => WatchEstablished)
=============================================================================
