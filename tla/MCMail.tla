------------------------------- MODULE MCMail -------------------------------
(***************************************************************************)
(* The mail module, part by part: sending a draft, the Gmail and Graph     *)
(* reconcile, the reconcile of an IMAP folder, the live-sync root, the     *)
(* IMAP connection budget, push notifications, and the flags of one        *)
(* message with copies in two folders. They share no state in the model,   *)
(* so the stage picks the one that moves and their state spaces add up.    *)
(***************************************************************************)
EXTENDS MailSend, MailSync, Imap, MailLiveSync, MailFlags

CONSTANTS m1, p1

OneOrBoth == {{1}, {1, 2}}    \* a message with a copy in one folder or in both

\* One pass at a time, with every change of the provider.
SyncAlone ==
    \/ SyncWork(p1) \/ FailPass(p1) \/ CommitAnswerLost(p1)
    \/ \E m \in Msgs : ProviderChange(m)
    \/ ProviderMakesBox \/ ProviderForgets

\* Overlapping passes over one message.
SyncOverlap ==
    \/ \E p \in SyncPasses : SyncWork(p) \/ FailPass(p) \/ CommitAnswerLost(p)
    \/ ProviderChange(m1)

VARIABLE stage

mailVars ==
    <<stage, sendVars, syncVars, imapVars, liveVars, idleVars, pushVars, vars>>

MailInit ==
    /\ stage \in {"send", "sync", "overlap", "imap", "live", "idle",
                    "push", "flags"}
    \* one initial state for the parts at rest
    /\ SendInit /\ (stage # "send" => mailbox = "ok")
    /\ SyncInit /\ (stage \notin {"sync", "overlap"} => api = "gmail")
    /\ ImapInit /\ (stage # "imap" => qresync)
    /\ LiveInit
    /\ IdleInit /\ (stage # "idle" => limit = 1)
    /\ PushInit /\ (stage # "push" => channel = "gmail")
    /\ Init /\ (stage # "flags" => copies = {1} /\ condstore /\ row.desired = FALSE)

(* The types of every part.                                                *)
MailTypeOK ==
    /\ SendTypeOK /\ SyncTypeOK /\ ImapTypeOK /\ LiveTypeOK /\ IdleTypeOK
    /\ PushTypeOK /\ TypeOK

MailNext ==
    /\ UNCHANGED stage
    /\ \/ stage = "send" /\ SendNext
            /\ UNCHANGED <<syncVars, imapVars, liveVars, idleVars,
                            pushVars, vars>>
       \/ stage = "sync" /\ SyncAlone
            /\ UNCHANGED <<sendVars, imapVars, liveVars, idleVars,
                            pushVars, vars>>
       \/ stage = "overlap" /\ SyncOverlap
            /\ UNCHANGED <<sendVars, imapVars, liveVars, idleVars,
                            pushVars, vars>>
       \/ stage = "imap" /\ ImapNext
            /\ UNCHANGED <<sendVars, syncVars, liveVars, idleVars,
                            pushVars, vars>>
       \/ stage = "live" /\ LiveNext
            /\ UNCHANGED <<sendVars, syncVars, imapVars, idleVars,
                            pushVars, vars>>
       \/ stage = "idle" /\ IdleNext
            /\ UNCHANGED <<sendVars, syncVars, imapVars, liveVars,
                            pushVars, vars>>
       \/ stage = "push" /\ PushNext
            /\ UNCHANGED <<sendVars, syncVars, imapVars, liveVars,
                            idleVars, vars>>
       \/ stage = "flags" /\ Next
            /\ UNCHANGED <<sendVars, syncVars, imapVars, liveVars,
                            idleVars, pushVars>>

(* The fairness of each component, in its own stage.                       *)
MailSpec ==
    /\ MailInit /\ [][MailNext]_mailVars
    /\ WF_syncVars(stage \in {"sync", "overlap"} /\ SyncWork(p1))
    /\ WF_syncVars(stage = "overlap" /\ \E p \in SyncPasses \ {p1} : SyncWork(p))
    /\ WF_imapVars(stage = "imap" /\ ImapWork)
    /\ \A l \in Lives : WF_liveVars(stage = "live" /\ (StartSettles(l) \/ StopRuns(l)))
    /\ \A p \in LivePasses : WF_liveVars(stage = "live" /\ LivePassStep(p)) /\ SF_liveVars(stage = "live" /\ DiscoverSucceeds(p))
    /\ \A b \in PushBoxes : WF_pushVars(stage = "push" /\ SweepDueAccounts(b)) /\ WF_pushVars(stage = "push" /\ SyncRuns(b))
    /\ \A p \in Passes : WF_vars(stage = "flags" /\ PassStep(p))
    /\ WF_vars(stage = "flags" /\ \E p \in Passes : Start(p))

-----------------------------------------------------------------------------
(* The safety properties of the mail module, each stated and explained in  *)
(* its own module: sending a draft, the reconcile of a mailbox and of an   *)
(* IMAP folder, the live-sync root, the IMAP connection budget, push       *)
(* notifications.                                                          *)
MailIsSafe ==
    /\ MailTypeOK
    /\ SentWasAccepted /\ DuplicatesNeedLostAnswer /\ SentCopyConverges
    /\ StuckDraftHadFault
    /\ NothingIsLost /\ OneItemPerMessage /\ AttachmentsHaveBytes
    /\ NoLeakedFiles
    /\ NoMessageSlipsThrough /\ UidsNameTheirMessage
    /\ SlotsAreCounted /\ WaitsOnlyWhenFull /\ QuietWhenStopped
    /\ OrphansNeedModeSwitch /\ HeartbeatEndsWithLifecycle
    /\ StoppedTenantIsQuiet /\ SignalNotLost

(* No step resubmits a draft that may have been sent or admits a           *)
(* connection over the budget, and what is begun ends: mailboxes, folders  *)
(* and flags agree with the provider, nothing of an inactive tenant runs,  *)
(* every change is synchronised.                                           *)
MailSettles ==
    /\ NoResubmission /\ NeverOverAdmitted
    /\ <>[](/\ stage \in {"sync", "overlap"} => MailboxAgrees
            /\ stage = "imap" => FolderAgrees
            /\ stage = "live" => InactiveStopped
            /\ stage = "push" => AllSynced
            /\ stage = "flags" => FlagsAgree)
=============================================================================
