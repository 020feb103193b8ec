--------------------------- MODULE AgentSessions ----------------------------
(***************************************************************************)
(* The sessions an agent process keeps between turns: of a conversation    *)
(* with a user, and of a delegation by another agent.                      *)
(***************************************************************************)
EXTENDS Naturals, Sequences, FiniteSets

-----------------------------------------------------------------------------
(***************************************************************************)
(* Semp's conversation with one tenant's user (SempConversation): a        *)
(* session kept in memory over one agent_runs row per wake, paused after a *)
(* day without a message, dropped when the tenant is deactivated, closed   *)
(* when a turn fails.  The conversation outlives its runs: a wake rebuilds *)
(* the history from the events that the earlier runs stored, so the model  *)
(* keeps the tool calls and results of that history since its last         *)
(* compaction.  A crash ends the process; the restarted one repairs what   *)
(* it left behind.                                                         *)
(***************************************************************************)

CONSTANTS
    MaxWakes,       \* rows the conversation opens
    MaxConvFaults,  \* failed writes, failed turns and crashes
    MaxHistory,     \* tool events kept since the last compaction
    MaxDrops

ASSUME ConversationAssumption ==
    MaxWakes \in Nat /\ MaxConvFaults \in Nat /\ MaxHistory \in Nat /\ MaxDrops \in Nat

VARIABLES
    wakeRun,     \* agent_runs.status of every wake's row
    told,        \* the last run_status event of every row
    conv,        \* the entry of the tenant in the conversations map
    act,         \* the call that holds the conversation: its step and its row
    failing,     \* rows that a failed turn is still closing (failRun)
    events,      \* tool_use, tool_result and synthetic events since the compaction
    awake,       \* whether the process runs
    convFaults, convDrops,
    lost,        \* rows left running by a write that failed outside the turn, or by failRun
    reused,      \* rows that a pause closed and could not report
    doomed       \* rows that were live when their tenant was dropped

convVars == <<wakeRun, told, conv, act, failing, events, awake, convFaults, convDrops, lost, reused, doomed>>
ghosts == <<lost, reused, doomed>>

Wakes == 1 .. MaxWakes
NoConv == [entry |-> 0, waking |-> FALSE, busy |-> FALSE, dropped |-> FALSE, timer |-> "off"]
Free == [pc |-> "idle", run |-> 0]
ConvFault == convFaults < MaxConvFaults /\ convFaults' = convFaults + 1
Act(pc) == act' = [act EXCEPT !.pc = pc]

(* validateProtocolInvariants: every tool_use is followed by its result.   *)
Unmatched(h) == \E i \in 1 .. Len(h) : h[i] = "use" /\ (i = Len(h) \/ h[i + 1] = "use")
(* toPiMessages refuses the synthetic result of a repaired run, which has  *)
(* no isError and a text where the content should be.                      *)
Convertible(h) == \A i \in 1 .. Len(h) : h[i] # "synthetic"

ConvInit ==
    /\ wakeRun = [r \in Wakes |-> "none"] /\ told = [r \in Wakes |-> "none"]
    /\ conv = NoConv /\ act = Free /\ failing = {} /\ events = <<>>
    /\ awake = TRUE /\ convFaults = 0 /\ convDrops = 0
    /\ lost = {} /\ reused = {} /\ doomed = {}

(* releaseIfIdle forgets the tenant once it has neither entry nor wake.    *)
Released(c) == IF c.entry = 0 /\ ~c.waking THEN NoConv ELSE c

-----------------------------------------------------------------------------
(* send() with no entry: the key is reserved before the first await.       *)
Wake ==
    /\ awake /\ act = Free /\ conv = NoConv
    /\ \E r \in Wakes : wakeRun[r] = "none"
    /\ conv' = [NoConv EXCEPT !.waking = TRUE] /\ Act("history")
    /\ UNCHANGED <<wakeRun, told, failing, events, awake, convFaults, convDrops, ghosts>>

(* The wake ends without a session.                                        *)
WakeThrows ==
    /\ conv' = NoConv /\ act' = Free

(* reconstructConversationHistory: an unsound history throws, before a row *)
(* is opened; an oversized one is compacted, and the checkpoint stored on  *)
(* the row it seeds.                                                       *)
ReconstructHistory ==
    /\ act.pc = "history"
    /\ IF Unmatched(events) THEN WakeThrows
       ELSE Act("open") /\ UNCHANGED conv
    /\ UNCHANGED <<wakeRun, told, failing, events, awake, convFaults, convDrops, ghosts>>

OpenWakeRun ==
    /\ act.pc = "open"
    /\ \/ LET r == CHOOSE x \in Wakes : wakeRun[x] = "none" /\ \A y \in 1 .. (x - 1) : wakeRun[y] # "none" IN
          /\ wakeRun' = [wakeRun EXCEPT ![r] = "running"]
          /\ act' = [pc |-> "announce", run |-> r]
          /\ UNCHANGED <<conv, convFaults>>
       \/ ConvFault /\ WakeThrows /\ UNCHANGED wakeRun
    /\ UNCHANGED <<told, failing, events, awake, convDrops, ghosts>>

(* The running status, the compaction and the session's creation come      *)
(* before the try: an error in one of them leaves the row running.         *)
AnnounceWake ==
    /\ act.pc = "announce"
    /\ \/ /\ told' = [told EXCEPT ![act.run] = "running"]
          /\ IF Convertible(events) THEN Act("wakeTurn") /\ UNCHANGED <<conv, lost>>
             ELSE WakeThrows /\ lost' = lost \cup {act.run}
          /\ UNCHANGED <<events, convFaults>>
       \/ /\ told' = [told EXCEPT ![act.run] = "running"]
          /\ events # <<>> /\ Convertible(events)
          /\ events' = <<>> /\ Act("wakeTurn")          \* persistCompaction
          /\ UNCHANGED <<conv, lost, convFaults>>
       \/ /\ ConvFault /\ WakeThrows /\ lost' = lost \cup {act.run}
          /\ UNCHANGED <<told, events>>
    /\ UNCHANGED <<wakeRun, failing, awake, convDrops, reused, doomed>>

(* send() does not look at the drop of an idle entry.                      *)
ReuseDropped ==
    /\ awake /\ act = Free /\ conv.entry # 0 /\ ~conv.busy /\ ~conv.waking
    /\ conv' = [conv EXCEPT !.busy = TRUE]
    /\ act' = [pc |-> "turn", run |-> conv.entry]
    /\ UNCHANGED <<wakeRun, told, failing, events, awake, convFaults, convDrops, ghosts>>

(* send() with an idle entry: a turn on the session that is kept.          *)
Reuse ==
    /\ awake /\ act = Free /\ conv.entry # 0 /\ ~conv.busy /\ ~conv.waking /\ ~conv.dropped
    /\ conv' = [conv EXCEPT !.busy = TRUE]
    /\ act' = [pc |-> "turn", run |-> conv.entry]
    /\ UNCHANGED <<wakeRun, told, failing, events, awake, convFaults, convDrops, ghosts>>

-----------------------------------------------------------------------------
InTurn == act.pc \in {"turn", "wakeTurn"}

(* The model calls a tool, and the tool answers: an event each, refused    *)
(* when the row is no longer running.                                      *)
RecordToolEvent ==
    /\ InTurn /\ wakeRun[act.run] = "running" /\ Len(events) < MaxHistory
    /\ events' = Append(events, IF events # <<>> /\ events[Len(events)] = "use" THEN "result" ELSE "use")
    /\ UNCHANGED <<wakeRun, told, conv, act, failing, awake, convFaults, convDrops, ghosts>>

(* The turn ends well: a kept session gets a new timer, a dropped one is   *)
(* closed.                                                                 *)
TurnEnds ==
    /\ InTurn /\ wakeRun[act.run] = "running" /\ ~Unmatched(events)
    /\ IF conv.dropped
       THEN /\ conv' = [conv EXCEPT !.entry = act.run, !.busy = TRUE, !.timer = "off"]
            /\ Act(IF act.pc = "turn" THEN "closeDropped" ELSE "closeWoken")
       ELSE /\ conv' = [conv EXCEPT !.entry = act.run, !.busy = FALSE, !.waking = FALSE, !.timer = "ttl"]
            /\ act' = Free
    /\ UNCHANGED <<wakeRun, told, failing, events, awake, convFaults, convDrops, ghosts>>

(* The turn throws: the model call, a tool, or a write failed, an event is *)
(* over the size limit, or the row was closed by another writer.  The      *)
(* entry goes first, the row is closed afterwards.                         *)
TurnThrows ==
    /\ InTurn
    /\ IF wakeRun[act.run] = "running" THEN ConvFault ELSE UNCHANGED convFaults
    /\ conv' = IF act.pc = "turn" THEN Released([conv EXCEPT !.entry = 0, !.busy = FALSE, !.timer = "off"]) ELSE conv
    /\ IF act.pc = "turn"
       THEN failing' = failing \cup {act.run} /\ act' = Free
       ELSE Act("failWoken") /\ UNCHANGED failing
    /\ UNCHANGED <<wakeRun, told, events, awake, convDrops, ghosts>>

(* failRun is best-effort: its transaction, or the status event after it,  *)
(* may fail, and the error is only logged.                                 *)
FailRun(r) ==
    \/ /\ wakeRun' = [wakeRun EXCEPT ![r] = IF @ = "running" THEN "error" ELSE @]
       /\ told' = [told EXCEPT ![r] = "error"]
       /\ UNCHANGED <<convFaults, lost>>
    \/ /\ ConvFault /\ wakeRun' = [wakeRun EXCEPT ![r] = IF @ = "running" THEN "error" ELSE @]
       /\ UNCHANGED <<told, lost>>
    \/ /\ ConvFault /\ lost' = lost \cup {r} /\ UNCHANGED <<wakeRun, told>>

FailReusedRun(r) ==
    /\ r \in failing /\ FailRun(r)
    /\ failing' = failing \ {r}
    /\ UNCHANGED <<conv, act, events, awake, convDrops, reused, doomed>>

(* The failed wake waits for failRun before its finally forgets the key.   *)
FailWokenRun ==
    /\ act.pc = "failWoken" /\ FailRun(act.run) /\ WakeThrows
    /\ UNCHANGED <<failing, events, awake, convDrops, reused, doomed>>

-----------------------------------------------------------------------------
(* The timer fires: pause() claims the entry, unless a turn holds it.      *)
PauseFires ==
    /\ awake /\ conv.timer = "ttl"
    /\ IF conv.busy \/ act # Free
       THEN conv' = [conv EXCEPT !.timer = "off"] /\ UNCHANGED act
       ELSE /\ conv' = [conv EXCEPT !.busy = TRUE, !.timer = "off"]
            /\ act' = [pc |-> "pauseUpdate", run |-> conv.entry]
    /\ UNCHANGED <<wakeRun, told, failing, events, awake, convFaults, convDrops, ghosts>>

(* The done update, and the check for a drop before COMMIT is sent.        *)
PauseUpdate ==
    /\ act.pc = "pauseUpdate"
    /\ \/ conv.dropped /\ Act("closeDropped") /\ UNCHANGED <<conv, convFaults>>
       \/ ~conv.dropped /\ Act("pauseCommit") /\ UNCHANGED <<conv, convFaults>>
       \/ /\ ConvFault
          /\ IF conv.dropped THEN Act("closeDropped") /\ UNCHANGED conv
             ELSE act' = Free /\ conv' = [conv EXCEPT !.busy = FALSE, !.timer = "ttl"]
    /\ UNCHANGED <<wakeRun, told, failing, events, awake, convDrops, ghosts>>

PauseCommit ==
    /\ act.pc = "pauseCommit"
    /\ wakeRun' = [wakeRun EXCEPT ![act.run] = IF @ = "running" THEN "done" ELSE @]
    /\ Act("pauseReport")
    /\ UNCHANGED <<told, conv, failing, events, awake, convFaults, convDrops, ghosts>>

(* The status event; when it fails, the entry stays, free for a send(), on *)
(* a row that is closed.                                                   *)
PauseReport ==
    /\ act.pc = "pauseReport"
    /\ \/ /\ told' = [told EXCEPT ![act.run] = wakeRun[act.run]]
          /\ conv' = NoConv /\ act' = Free
          /\ UNCHANGED <<convFaults, reused>>
       \/ /\ ConvFault
          /\ IF conv.dropped THEN Act("closeDropped") /\ UNCHANGED <<conv, reused>>
             ELSE /\ act' = Free /\ conv' = [conv EXCEPT !.busy = FALSE, !.timer = "ttl"]
                  /\ reused' = reused \cup {act.run}
          /\ UNCHANGED told
    /\ UNCHANGED <<wakeRun, failing, events, awake, convDrops, lost, doomed>>

-----------------------------------------------------------------------------
(* dropTenant(): an idle conversation is closed at once, a busy one by the *)
(* call that holds it.                                                     *)
DropTenant ==
    /\ awake /\ conv # NoConv /\ ~conv.dropped /\ convDrops < MaxDrops
    /\ convDrops' = convDrops + 1
    /\ conv' = [conv EXCEPT !.dropped = TRUE, !.timer = "off", !.busy = @ \/ (act = Free)]
    /\ act' = IF act = Free THEN [pc |-> "closeDropped", run |-> conv.entry] ELSE act
    /\ doomed' = IF act.pc \in {"pauseCommit", "pauseReport"} THEN doomed
                 ELSE doomed \cup {r \in {conv.entry, act.run} \ {0} : wakeRun[r] = "running"}
    /\ UNCHANGED <<wakeRun, told, failing, events, awake, convFaults, lost, reused>>

(* closeDropped(): the entry goes once the row is closed and its status    *)
(* told, whoever closed it; a failure keeps it for a retry.                *)
CloseDropped ==
    /\ act.pc \in {"closeDropped", "closeWoken"}
    /\ \/ /\ wakeRun' = [wakeRun EXCEPT ![act.run] = IF @ = "running" THEN "error" ELSE @]
          /\ told' = [told EXCEPT ![act.run] = wakeRun'[act.run]]
          /\ conv' = NoConv /\ UNCHANGED convFaults
       \/ /\ ConvFault
          /\ wakeRun' \in {wakeRun, [wakeRun EXCEPT ![act.run] = IF @ = "running" THEN "error" ELSE @]}
          /\ conv' = [conv EXCEPT !.busy = FALSE, !.waking = FALSE, !.timer = "retry"]
          /\ UNCHANGED told
    /\ act' = Free
    /\ UNCHANGED <<failing, events, awake, convDrops, ghosts>>

RetryFires ==
    /\ awake /\ conv.timer = "retry"
    /\ conv' = [conv EXCEPT !.busy = TRUE, !.timer = "off"]
    /\ act' = [pc |-> "closeDropped", run |-> conv.entry]
    /\ UNCHANGED <<wakeRun, told, failing, events, awake, convFaults, convDrops, ghosts>>

-----------------------------------------------------------------------------
ConvProcessDies ==
    /\ awake /\ ConvFault /\ awake' = FALSE
    /\ conv' = NoConv /\ act' = Free /\ failing' = {}
    /\ UNCHANGED <<wakeRun, told, events, convDrops, ghosts>>

(* repairInterruptedRuns: a trailing tool_use gets a synthetic result, and *)
(* the row is closed.  A row that is not running is not looked at.         *)
RepairConversation ==
    /\ ~awake /\ awake' = TRUE
    /\ wakeRun' = [r \in Wakes |-> IF wakeRun[r] = "running" THEN "error" ELSE wakeRun[r]]
    /\ events' = IF (\E r \in Wakes : wakeRun[r] = "running" /\ ~\E s \in Wakes : s > r /\ wakeRun[s] # "none")
                      /\ events # <<>> /\ events[Len(events)] = "use"
                 THEN Append(events, "synthetic") ELSE events
    /\ lost' = {}
    /\ UNCHANGED <<told, conv, act, failing, convFaults, convDrops, reused, doomed>>

-----------------------------------------------------------------------------
-----------------------------------------------------------------------------
(* The call that holds the conversation, and its timers.                   *)
ConvWork ==
    \/ ReconstructHistory \/ OpenWakeRun \/ AnnounceWake \/ TurnEnds \/ FailWokenRun
    \/ PauseUpdate \/ PauseCommit \/ PauseReport \/ CloseDropped \/ RetryFires
    \/ PauseFires \/ RepairConversation

ConvNext ==
    \/ ConvWork
    \/ \E r \in Wakes : FailReusedRun(r)
    \/ Wake \/ Reuse \/ RecordToolEvent \/ TurnThrows \/ DropTenant \/ ConvProcessDies

ConvSpec ==
    /\ ConvInit /\ [][ConvNext]_convVars
    /\ WF_convVars(ConvWork) /\ WF_convVars(RecordToolEvent)
    /\ \A r \in Wakes : WF_convVars(FailReusedRun(r))

-----------------------------------------------------------------------------
ConvTypeOK ==
    /\ wakeRun \in [Wakes -> {"none", "running", "done", "error"}]
    /\ told \in [Wakes -> {"none", "running", "done", "error"}]
    /\ conv \in [entry : 0 .. MaxWakes, waking : BOOLEAN, busy : BOOLEAN, dropped : BOOLEAN,
                 timer : {"off", "ttl", "retry"}]
    /\ act.run \in 0 .. MaxWakes /\ failing \subseteq Wakes
    /\ Len(events) <= MaxHistory + 1

(* A row that says running has someone who will close it: the entry, the   *)
(* call that holds the conversation, a failRun under way, or the repair of *)
(* the next start.  The exceptions are the rows of `lost`.                 *)
OpenRunHasCloser ==
    \A r \in Wakes : wakeRun[r] = "running" =>
        conv.entry = r \/ act.run = r \/ r \in failing \/ r \in lost \/ ~awake

(* A turn writes to a row that is open: a paused, dropped or failed row is *)
(* never given another turn, unless its pause could not be reported.       *)
NoTurnOnClosedRun == InTurn => wakeRun[act.run] = "running" \/ act.run \in reused

(* An entry nobody holds has a timer that ends it, dropped or not.         *)
IdleEntryHasTimer == conv.entry # 0 /\ ~conv.busy /\ act = Free => conv.timer # "off"

(* A row that was live when its tenant was dropped never ends as done.     *)
DroppedRunsAreNotDone == \A r \in doomed : wakeRun[r] # "done"

(* And it is closed in the end.                                            *)
DroppedRunsEnded == \A r \in doomed : wakeRun[r] = "error" \/ r \in lost

-----------------------------------------------------------------------------
(***************************************************************************)
(* The delegations of one supervisor run to one project (DelegationRegistry *)
(* and its delegate tool): concurrent calls for one key, a session that is *)
(* kept for further turns, its expiry, and writers that trash the project  *)
(* or close the delegated run (the startup repair of another process)      *)
(* beside them.                                                            *)
(***************************************************************************)

CONSTANTS
    Delegations,    \* calls of delegate()
    MaxSessions,    \* rows they open
    MaxDelFaults    \* failed writes and failed turns

ASSUME DelegationAssumption == MaxSessions \in Nat /\ MaxDelFaults \in Nat

VARIABLES
    drow,       \* agent_runs.status of every delegated row
    dtold,      \* its last run_status event
    target,     \* whether the project is live
    reg,        \* the entry of the key: its row (0 when none), busy, timer
    pending,    \* whether pendingKeys holds the key
    call,       \* the step and the row of every delegate() call
    expiring,   \* the step and the row of the expiry under way
    delFaults,
    stray,      \* rows left running by a write that failed outside the turn
    foreign     \* rows that another writer closed

delVars == <<drow, dtold, target, reg, pending, call, expiring, delFaults, stray, foreign>>

Sessions == 1 .. MaxSessions
NoReg == [run |-> 0, busy |-> FALSE, timer |-> FALSE]
DelFault == delFaults < MaxDelFaults /\ delFaults' = delFaults + 1
CallAt(d, pc) == call' = [call EXCEPT ![d].pc = pc]
Returned(d) == call' = [call EXCEPT ![d] = [pc |-> "done", run |-> 0]]
CloseRow(r, s) == [drow EXCEPT ![r] = IF @ = "running" THEN s ELSE @]

DelInit ==
    /\ drow = [r \in Sessions |-> "none"] /\ dtold = [r \in Sessions |-> "none"]
    /\ target = TRUE /\ reg = NoReg /\ pending = FALSE
    /\ call = [d \in Delegations |-> [pc |-> "start", run |-> 0]]
    /\ expiring = [pc |-> "idle", run |-> 0]
    /\ delFaults = 0 /\ stray = {} /\ foreign = {}

-----------------------------------------------------------------------------

(* The synchronous part of delegate(): a busy or pending key refuses the   *)
(* call, an idle entry is claimed for another turn, a new key is reserved. *)
Delegate(d) ==
    /\ call[d].pc = "start"
    /\ \/ /\ reg.busy \/ pending
          /\ Returned(d) /\ UNCHANGED <<reg, pending>>
       \/ /\ reg.run # 0 /\ ~reg.busy /\ ~pending
          /\ reg' = [reg EXCEPT !.busy = TRUE]
          /\ call' = [call EXCEPT ![d] = [pc |-> "turn", run |-> reg.run]]
          /\ UNCHANGED pending
       \/ /\ reg.run = 0 /\ ~pending
          /\ pending' = TRUE /\ CallAt(d, "check") /\ UNCHANGED reg
    /\ UNCHANGED <<drow, dtold, target, expiring, delFaults, stray, foreign>>

(* The first check spares the reconstruction, which may call the model.    *)
CheckTarget(d) ==
    /\ call[d].pc = "check"
    /\ IF target THEN CallAt(d, "create") /\ UNCHANGED pending
       ELSE Returned(d) /\ pending' = FALSE
    /\ UNCHANGED <<drow, dtold, target, reg, expiring, delFaults, stray, foreign>>

(* The second one holds the locks of supervisor and project until the row  *)
(* is inserted.                                                            *)
CreateDelegatedRun(d) ==
    /\ call[d].pc = "create"
    /\ \/ /\ target
          /\ \E r \in Sessions : drow[r] = "none"
          /\ LET r == CHOOSE x \in Sessions : drow[x] = "none" /\ \A y \in 1 .. (x - 1) : drow[y] # "none" IN
             /\ drow' = [drow EXCEPT ![r] = "running"]
             /\ call' = [call EXCEPT ![d] = [pc |-> "announce", run |-> r]]
             /\ UNCHANGED <<pending, delFaults>>
       \/ ~target /\ Returned(d) /\ pending' = FALSE /\ UNCHANGED <<drow, delFaults>>
       \/ DelFault /\ Returned(d) /\ pending' = FALSE /\ UNCHANGED drow
    /\ UNCHANGED <<dtold, target, reg, expiring, stray, foreign>>

(* The running status, the compaction checkpoint and the session: an error *)
(* here comes before the try that closes the row.                          *)
AnnounceDelegation(d) ==
    /\ call[d].pc = "announce"
    /\ \/ /\ dtold' = [dtold EXCEPT ![call[d].run] = "running"]
          /\ CallAt(d, "firstTurn") /\ UNCHANGED <<pending, delFaults, stray>>
       \/ /\ DelFault /\ Returned(d) /\ pending' = FALSE
          /\ stray' = stray \cup {call[d].run} /\ UNCHANGED dtold
    /\ UNCHANGED <<drow, target, reg, expiring, foreign>>

(* The first turn enters the session into the registry, a later one        *)
(* renews its timer.                                                       *)
TurnDone(d) ==
    /\ call[d].pc \in {"firstTurn", "turn"} /\ drow[call[d].run] = "running"
    /\ reg' = [run |-> call[d].run, busy |-> FALSE, timer |-> TRUE]
    /\ pending' = (IF call[d].pc = "firstTurn" THEN FALSE ELSE pending)
    /\ Returned(d)
    /\ UNCHANGED <<drow, dtold, target, expiring, delFaults, stray, foreign>>

(* A failed turn drops the entry before its row is closed; a first turn    *)
(* keeps its reservation until then.                                       *)
TurnFails(d) ==
    /\ call[d].pc \in {"firstTurn", "turn"}
    /\ IF drow[call[d].run] = "running" THEN DelFault ELSE UNCHANGED delFaults
    /\ reg' = IF call[d].pc = "turn" THEN NoReg ELSE reg
    /\ CallAt(d, IF call[d].pc = "turn" THEN "failRun" ELSE "failFirst")
    /\ UNCHANGED <<drow, dtold, target, pending, expiring, stray, foreign>>

(* failRun is best-effort.                                                 *)
FailDelegatedRun(d) ==
    /\ call[d].pc \in {"failRun", "failFirst"}
    /\ \/ /\ drow' = CloseRow(call[d].run, "error")
          /\ dtold' = [dtold EXCEPT ![call[d].run] = "error"]
          /\ UNCHANGED <<delFaults, stray>>
       \/ /\ DelFault /\ stray' = stray \cup {call[d].run} /\ UNCHANGED <<drow, dtold>>
    /\ pending' = (IF call[d].pc = "failFirst" THEN FALSE ELSE pending)
    /\ Returned(d)
    /\ UNCHANGED <<target, reg, expiring, foreign>>

-----------------------------------------------------------------------------

(* The timer of an idle session fires; a busy one is left alone, and the   *)
(* turn that holds it arms the next timer.                                 *)
ExpiryFires ==
    /\ reg.timer /\ expiring.pc = "idle"
    /\ IF reg.busy
       THEN reg' = [reg EXCEPT !.timer = FALSE] /\ UNCHANGED expiring
       ELSE /\ reg' = [reg EXCEPT !.busy = TRUE, !.timer = FALSE]
            /\ expiring' = [pc |-> "finish", run |-> reg.run]
    /\ UNCHANGED <<drow, dtold, target, pending, call, delFaults, stray, foreign>>

(* An expiry whose write fails forgets the entry.                          *)
FinishForgets ==
    /\ expiring.pc = "finish"
    /\ \/ /\ drow' = CloseRow(expiring.run, "done")
          /\ expiring' = [expiring EXCEPT !.pc = "drop"]
          /\ UNCHANGED <<reg, delFaults>>
       \/ /\ DelFault /\ expiring' = [pc |-> "idle", run |-> 0]
          /\ reg' = NoReg /\ UNCHANGED drow
    /\ UNCHANGED <<dtold, target, pending, call, stray, foreign>>

(* The row is closed; only a failure of this write keeps the entry.        *)
FinishExpired ==
    /\ expiring.pc = "finish"
    /\ \/ /\ drow' = CloseRow(expiring.run, "done")
          /\ expiring' = [expiring EXCEPT !.pc = IF drow[expiring.run] = "running" THEN "drop" ELSE "readBack"]
          /\ UNCHANGED <<reg, delFaults>>
       \/ /\ DelFault /\ expiring' = [pc |-> "idle", run |-> 0]
          /\ reg' = [reg EXCEPT !.busy = FALSE, !.timer = TRUE] /\ UNCHANGED drow
    /\ UNCHANGED <<dtold, target, pending, call, stray, foreign>>

(* Another writer had closed it: its status is read back for the event.    *)
ReadBack ==
    /\ expiring.pc = "readBack"
    /\ \/ expiring' = [expiring EXCEPT !.pc = "drop"] /\ UNCHANGED <<reg, delFaults>>
       \/ DelFault /\ expiring' = [pc |-> "idle", run |-> 0] /\ reg' = NoReg
    /\ UNCHANGED <<drow, dtold, target, pending, call, stray, foreign>>

(* The entry is dropped before the event is written.                       *)
DropExpired ==
    /\ expiring.pc = "drop"
    /\ reg' = NoReg /\ expiring' = [expiring EXCEPT !.pc = "tell"]
    /\ UNCHANGED <<drow, dtold, target, pending, call, delFaults, stray, foreign>>

TellExpired ==
    /\ expiring.pc = "tell"
    /\ \/ dtold' = [dtold EXCEPT ![expiring.run] = drow[expiring.run]] /\ UNCHANGED delFaults
       \/ DelFault /\ UNCHANGED dtold
    /\ expiring' = [pc |-> "idle", run |-> 0]
    /\ UNCHANGED <<drow, target, reg, pending, call, stray, foreign>>

-----------------------------------------------------------------------------
(* The project is trashed or restored.                                     *)
TrashTarget ==
    /\ target' = ~target /\ DelFault
    /\ UNCHANGED <<drow, dtold, reg, pending, call, expiring, stray, foreign>>

(* Another writer, such as the repair of a process that starts beside this *)
(* one, closes a row.                                                      *)
ForeignClose(r) ==
    /\ drow[r] = "running" /\ DelFault
    /\ drow' = [drow EXCEPT ![r] = "error"] /\ foreign' = foreign \cup {r}
    /\ stray' = stray \ {r}
    /\ UNCHANGED <<dtold, target, reg, pending, call, expiring>>

-----------------------------------------------------------------------------
DelegateStep(d) ==
    \/ Delegate(d) \/ CheckTarget(d) \/ CreateDelegatedRun(d) \/ AnnounceDelegation(d)
    \/ TurnDone(d) \/ TurnFails(d) \/ FailDelegatedRun(d)
ExpiryStep == ExpiryFires \/ FinishExpired \/ ReadBack \/ DropExpired \/ TellExpired

DelNext ==
    \/ \E d \in Delegations : DelegateStep(d)
    \/ ExpiryStep \/ TrashTarget \/ \E r \in Sessions : ForeignClose(r)

DelSpec == DelInit /\ [][DelNext]_delVars /\ WF_delVars(ExpiryStep)
             /\ \A d \in Delegations : WF_delVars(DelegateStep(d))

-----------------------------------------------------------------------------
DelTypeOK ==
    /\ drow \in [Sessions -> {"none", "running", "done", "error"}]
    /\ dtold \in [Sessions -> {"none", "running", "done", "error"}]
    /\ reg \in [run : 0 .. MaxSessions, busy : BOOLEAN, timer : BOOLEAN]
    /\ target \in BOOLEAN /\ pending \in BOOLEAN
    /\ \A d \in Delegations : call[d].run \in 0 .. MaxSessions
    /\ stray \subseteq Sessions /\ foreign \subseteq Sessions

(* One conversation per supervisor and project: however the calls race, no *)
(* two sessions of the key are open at the same time.                      *)
OneSessionPerKey ==
    Cardinality({r \in Sessions \ stray : drow[r] = "running" /\
                   (reg.run = r \/ \E d \in Delegations : call[d].run = r /\ call[d].pc \in {"announce", "firstTurn", "turn"})}) <= 1

(* A session is given a turn only while its row is open: the registry      *)
(* holds no row that was closed, unless another writer closed it.          *)
NoTurnOnExpiredRun ==
    \A d \in Delegations :
        call[d].pc \in {"firstTurn", "turn"} => drow[call[d].run] = "running" \/ call[d].run \in foreign

(* A session nobody uses has a timer, so its row is closed in the end.     *)
IdleSessionHasTimer == reg.run # 0 /\ ~reg.busy => reg.timer

(* What a watcher is told of a delegated run's end is what its row says.   *)
EndIsToldTruly == \A r \in Sessions : dtold[r] \in {"done", "error"} => drow[r] = dtold[r]

(* Every delegated run is closed in the end, unless a write that failed    *)
(* outside a turn left it behind.                                          *)
DelegatedRunsEnded == \A r \in Sessions : drow[r] = "running" => r \in stray
=============================================================================
