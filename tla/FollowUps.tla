----------------------------- MODULE FollowUps -----------------------------
(***************************************************************************)
(* The review follow-ups pipeline (.github/scripts/review-followups): the  *)
(* daily harvest collects the open findings of merged pull requests into a *)
(* harvest issue, and the triage of that issue publishes each finding as a *)
(* draft issue or a rejection.  All state is in GitHub: labels, and the    *)
(* markers in issue bodies and comments.  A step may fail before its write *)
(* or after it, with the answer lost; nothing is retried within a run, and *)
(* a failed triage starts again from prepare or publishes the same         *)
(* proposal again.                                                         *)
(***************************************************************************)
EXTENDS Naturals, Sequences, FiniteSets, Functions

CONSTANTS PullRequests, \* numbers of the pull requests that will be merged
          Found,        \* pull request -> the open findings of its review memory
          ConfirmedFix, \* findings whose thread the review bot resolved as fixed
          HarvestCap,   \* findings a harvest issue may hold
          LabelLimit,   \* pull requests one run labels
          MaxFailures   \* bound: steps that fail

ASSUME FollowUpsAssumption ==
  /\ PullRequests \subseteq Nat /\ HarvestCap \in Nat \ {0} /\ LabelLimit \in Nat \ {0} /\ MaxFailures \in Nat
  /\ \A p, q \in PullRequests : p # q => Found[p] \cap Found[q] = {}

VARIABLES
  merged,    \* pull requests merged into develop
  harvestedL,\* pull requests labelled followups:harvested
  harvests,  \* harvest issues, in the order they were created
  followups, \* follow-up issues: epics and drafts
  hrun,      \* the harvest run: its step and its plan
  trun,      \* the triage run: its step, its harvest issue and its proposal
  failures   \* failed steps so far (bounds the model)

followVars == <<merged, harvestedL, harvests, followups, hrun, trun, failures>>

HarvestIdle == [step |-> "idle", prs |-> {}, block |-> {}, skipped |-> {}, toLabel |-> {}]
TriageIdle == [step |-> "idle", h |-> 0, drafts |-> <<>>, rejected |-> {}, next |-> 1, epic |-> 0]

----------------------------------------------------------------------------
\* computeLedger: what the markers say.
ResultsOf(h) == harvests[h].results
Terminal == UNION ({followups[i].marks : i \in DOMAIN followups} \cup {ResultsOf(h) : h \in DOMAIN harvests})
Harvested == Terminal \cup UNION {harvests[h].marks : h \in DOMAIN harvests}
HarvestedPrs == UNION {harvests[h].prs : h \in DOMAIN harvests}

\* What publish and prepare leave out for harvest issue h.
TerminalFor(h) == (UNION {followups[i].marks : i \in DOMAIN followups}) \cup ResultsOf(h)

EpicsOf(h) == {i \in DOMAIN followups : followups[i].epicOf = h}
EpicOf(h) == IF EpicsOf(h) = {} THEN 0 ELSE CHOOSE i \in EpicsOf(h) : \A j \in EpicsOf(h) : i <= j

\* pendingWork: an open harvest issue, or a draft no human has decided on.
PendingWork == \/ \E h \in DOMAIN harvests : harvests[h].open
               \/ \E i \in DOMAIN followups : followups[i].open /\ followups[i].proposed

----------------------------------------------------------------------------
\* readMemoryFindings: the open findings of the newest trusted memory comment.
MemoryFindings(pr) == Found[pr]

\* classifyPullRequest: open findings that no marker has.
OpenFindings(pr) == MemoryFindings(pr) \ Harvested

Candidates == merged \ harvestedL

\* What the pull requests of S add to the harvest issue: nothing, when an
\* earlier harvest recorded them.
Offered(S) == UNION {OpenFindings(pr) \ ConfirmedFix : pr \in S \ HarvestedPrs}
SkippedOf(S) == UNION {OpenFindings(pr) \cap ConfirmedFix : pr \in S \ HarvestedPrs}

\* createHarvestPlan.offer: whole pull requests in the order of their numbers,
\* up to the first whose findings no longer fit under the cap.
Earlier(S, pr) == {q \in S : q < pr}
Stops(pr) ==
  LET before == Offered(Earlier(Candidates, pr))
      found == Offered({pr}) IN
  before # {} /\ found # {} /\ Cardinality(before) + Cardinality(found) > HarvestCap

Taken == {pr \in Candidates : \A q \in Candidates : q <= pr => ~Stops(q)}

HarvestPlan ==
  [prs |-> Taken \ HarvestedPrs, block |-> Offered(Taken), skipped |-> SkippedOf(Taken),
   toLabel |-> {pr \in Taken : Cardinality(Earlier(Taken, pr)) < LabelLimit}]

Fault == failures < MaxFailures /\ failures' = failures + 1

RunHarvest ==
  /\ hrun.step = "idle" /\ ~PendingWork /\ Candidates # {}
  /\ LET plan == HarvestPlan IN
     hrun' = [step |-> IF plan.block \cup plan.skipped # {} THEN "create" ELSE "label",
              prs |-> plan.prs, block |-> plan.block, skipped |-> plan.skipped, toLabel |-> plan.toLabel]
  /\ UNCHANGED <<merged, harvestedL, harvests, followups, trun, failures>>

\* The harvest issue; record-only when every finding was skipped as fixed.
CreateHarvestIssue ==
  /\ hrun.step = "create"
  /\ harvests' = Append(harvests, [prs |-> hrun.prs, block |-> hrun.block, marks |-> hrun.block \cup hrun.skipped,
                                   ready |-> hrun.block # {}, open |-> TRUE, results |-> {}])
  /\ \/ hrun' = [hrun EXCEPT !.step = IF hrun.block = {} THEN "close" ELSE "label"] /\ UNCHANGED failures
     \/ Fault /\ hrun' = HarvestIdle                          \* the answer is lost
  /\ UNCHANGED <<merged, harvestedL, followups, trun>>

CloseRecordOnly ==
  /\ hrun.step = "close"
  /\ harvests' = [harvests EXCEPT ![Len(harvests)].open = FALSE]
  /\ hrun' = [hrun EXCEPT !.step = "label"]
  /\ UNCHANGED <<merged, harvestedL, followups, trun, failures>>

LabelPullRequest ==
  /\ hrun.step = "label"
  /\ \/ hrun.toLabel = {} /\ hrun' = HarvestIdle /\ UNCHANGED harvestedL
     \/ \E pr \in hrun.toLabel :
          /\ \A q \in hrun.toLabel : pr <= q
          /\ harvestedL' = harvestedL \cup {pr} /\ hrun' = [hrun EXCEPT !.toLabel = @ \ {pr}]
  /\ UNCHANGED <<merged, harvests, followups, trun, failures>>

HarvestFails == /\ hrun.step # "idle" /\ Fault /\ hrun' = HarvestIdle
                /\ UNCHANGED <<merged, harvestedL, harvests, followups, trun>>

----------------------------------------------------------------------------
\* What a proposal may say of the kept findings, duplicates included.
Proposals(kept) ==
  {[drafts |-> d, rejected |-> r] :
     d \in {<<>>} \cup {<<s>> : s \in (SUBSET kept) \ {{}}} \cup {<<{a}, {b}>> : a, b \in kept},
     r \in SUBSET kept}

ClaimsOf(p) == Len(p.drafts) + IF p.rejected = {} THEN 0 ELSE 1
ClaimOf(p, i) == IF i <= Len(p.drafts) THEN p.drafts[i] ELSE p.rejected

\* checkCompleteness: every input finding is claimed, by one draft or rejection.
ClaimedOnce(p) == \A i, j \in 1 .. ClaimsOf(p) : i # j => ClaimOf(p, i) \cap ClaimOf(p, j) = {}
EveryFindingClaimed(p, kept) == kept = UNION {ClaimOf(p, i) : i \in 1 .. ClaimsOf(p)}

\* checkEpic: two drafts or more need an epic.
NeedsEpic(drafts) == Len(drafts) >= 2

ValidateProposal(p, kept) == ClaimedOnce(p) /\ EveryFindingClaimed(p, kept)

\* buildInput: the findings of the block that no marker has.
InputFindings(h) == harvests[h].block \ TerminalFor(h)

\* prepare and the agent: an input file without what is already published.
Prepare(h) ==
  /\ trun.step \in {"idle", "failed"} /\ harvests[h].open /\ harvests[h].ready
  /\ \E p \in Proposals(InputFindings(h)) :
       ValidateProposal(p, InputFindings(h)) /\ trun' = [TriageIdle EXCEPT !.step = "check", !.h = h, !.drafts = p.drafts,
                                                         !.rejected = p.rejected]
  /\ UNCHANGED <<merged, harvestedL, harvests, followups, hrun, failures>>

\* publish is run again with the proposal of a failed run.
RetryPublish ==
  /\ trun.step = "failed" /\ trun' = [trun EXCEPT !.step = "check", !.next = 1, !.epic = 0]
  /\ UNCHANGED <<merged, harvestedL, harvests, followups, hrun, failures>>

Claimed == trun.rejected \cup UNION Range(trun.drafts)

\* A mutant: a proposal that was published in part is published again.
CheckNothing ==
  /\ trun.step = "check"
  /\ trun' = [trun EXCEPT !.epic = EpicOf(trun.h), !.step = IF NeedsEpic(trun.drafts) THEN "epic" ELSE "draft"]
  /\ UNCHANGED <<merged, harvestedL, harvests, followups, hrun, failures>>

\* readLedger: a proposal with a published finding is stale.
CheckLedger ==
  /\ trun.step = "check"
  /\ IF Claimed \cap TerminalFor(trun.h) # {}
     THEN trun' = TriageIdle
     ELSE trun' = [trun EXCEPT !.epic = IF NeedsEpic(trun.drafts) THEN EpicOf(trun.h) ELSE 0,
                               !.step = IF NeedsEpic(trun.drafts) THEN "epic" ELSE "draft"]
  /\ UNCHANGED <<merged, harvestedL, harvests, followups, hrun, failures>>

FollowUp(marks, epicOf) == [marks |-> marks, epicOf |-> epicOf, proposed |-> epicOf = 0, open |-> TRUE, parent |-> 0]

\* A write of the run: its answer arrives, or is lost and the run fails.
Answered(next) == \/ trun' = next /\ UNCHANGED failures
                  \/ Fault /\ trun' = [trun EXCEPT !.step = "failed"]

CreateEpic ==
  /\ trun.step = "epic"
  /\ IF trun.epic # 0
     THEN trun' = [trun EXCEPT !.step = "draft"] /\ UNCHANGED <<followups, failures>>
     ELSE /\ followups' = Append(followups, FollowUp({}, trun.h))
          /\ Answered([trun EXCEPT !.step = "draft", !.epic = Len(followups')])
  /\ UNCHANGED <<merged, harvestedL, harvests, hrun>>

CreateDraft ==
  /\ trun.step = "draft" /\ trun.next <= Len(trun.drafts)
  /\ followups' = Append(followups, FollowUp(trun.drafts[trun.next], 0))
  /\ Answered([trun EXCEPT !.step = IF trun.epic # 0 THEN "link" ELSE "draft",
                           !.next = IF trun.epic # 0 THEN @ ELSE @ + 1])
  /\ UNCHANGED <<merged, harvestedL, harvests, hrun>>

AddSubIssue ==
  /\ trun.step = "link"
  /\ followups' = [followups EXCEPT ![Len(followups)].parent = trun.epic]
  /\ Answered([trun EXCEPT !.step = "draft", !.next = @ + 1])
  /\ UNCHANGED <<merged, harvestedL, harvests, hrun>>

CreateComment ==
  /\ trun.step = "draft" /\ trun.next > Len(trun.drafts)
  /\ harvests' = [harvests EXCEPT ![trun.h].results = @ \cup trun.rejected]
  /\ Answered([trun EXCEPT !.step = "unready"])
  /\ UNCHANGED <<merged, harvestedL, followups, hrun>>

RemoveReady ==
  /\ trun.step = "unready"
  /\ harvests' = [harvests EXCEPT ![trun.h].ready = FALSE]
  /\ Answered([trun EXCEPT !.step = "closeH"])
  /\ UNCHANGED <<merged, harvestedL, followups, hrun>>

CloseHarvest ==
  /\ trun.step = "closeH"
  /\ harvests' = [harvests EXCEPT ![trun.h].open = FALSE]
  /\ trun' = TriageIdle
  /\ UNCHANGED <<merged, harvestedL, followups, hrun, failures>>

TriageFails == /\ trun.step \notin {"idle", "failed"} /\ Fault /\ trun' = [trun EXCEPT !.step = "failed"]
               /\ UNCHANGED <<merged, harvestedL, harvests, followups, hrun>>

----------------------------------------------------------------------------
Merge(pr) == /\ pr \in PullRequests \ merged /\ merged' = merged \cup {pr}
             /\ UNCHANGED <<harvestedL, harvests, followups, hrun, trun, failures>>

\* The maintainer approves or closes a proposed draft.
Decide(i) == /\ followups[i].open /\ followups[i].proposed
             /\ followups' = [followups EXCEPT ![i].proposed = FALSE]
             /\ UNCHANGED <<merged, harvestedL, harvests, hrun, trun, failures>>

\* The maintainer closes a harvest issue that no triage will pick up: a
\* record-only one left open, or one whose label is gone.
CloseByHand(h) ==
  /\ harvests[h].open /\ ~harvests[h].ready /\ hrun.step # "close"
  /\ trun.h = h => trun.step \in {"idle", "failed"}
  /\ harvests' = [harvests EXCEPT ![h].open = FALSE]
  /\ trun' = IF trun.h = h THEN TriageIdle ELSE trun
  /\ UNCHANGED <<merged, harvestedL, followups, hrun, failures>>

FollowInit ==
  /\ merged = {} /\ harvestedL = {} /\ harvests = <<>> /\ followups = <<>>
  /\ hrun = HarvestIdle /\ trun = TriageIdle /\ failures = 0

HarvestStep == RunHarvest \/ CreateHarvestIssue \/ CloseRecordOnly \/ LabelPullRequest
TriageStep == \/ \E h \in DOMAIN harvests : Prepare(h)
              \/ CheckLedger \/ CreateEpic \/ CreateDraft \/ AddSubIssue \/ CreateComment
              \/ RemoveReady \/ CloseHarvest
Human == \/ \E pr \in PullRequests : Merge(pr)
         \/ \E i \in DOMAIN followups : Decide(i)
         \/ \E h \in DOMAIN harvests : CloseByHand(h)

FollowNext == HarvestStep \/ HarvestFails \/ TriageStep \/ RetryPublish \/ TriageFails \/ Human

\* The harvest runs every day, a ready issue is triaged, and the maintainer
\* decides on what is proposed.
FollowFairness == /\ WF_followVars(HarvestStep) /\ WF_followVars(TriageStep) /\ WF_followVars(Human)

FollowSpec == FollowInit /\ [][FollowNext]_followVars /\ FollowFairness

----------------------------------------------------------------------------
AllFindings == UNION {Found[p] : p \in PullRequests}

FollowTypeOK ==
  /\ merged \subseteq PullRequests /\ harvestedL \subseteq merged
  /\ \A h \in DOMAIN harvests : harvests[h].marks \subseteq AllFindings /\ harvests[h].prs \subseteq merged
  /\ trun.h \in 0 .. Len(harvests) /\ trun.epic \in 0 .. Len(followups)

\* However often a run fails and starts again, a finding is published once:
\* in one draft or as one rejection (publish.mjs, "every write that publishes
\* a finding carries that finding's marker in the same write").
PublishedOnce ==
  \A f \in AllFindings :
    Cardinality({i \in DOMAIN followups : f \in followups[i].marks})
      + Cardinality({h \in DOMAIN harvests : f \in ResultsOf(h)}) <= 1

\* An interrupted run's epic is found again.
OneEpicPerHarvest == \A h \in DOMAIN harvests : Cardinality(EpicsOf(h)) <= 1

\* A harvest issue is closed only when all it holds has been published.
ClosedIsTriaged ==
  \A h \in DOMAIN harvests : ~harvests[h].open => harvests[h].block \subseteq Terminal

\* A pull request carries the label only when a harvest issue records each
\* of its findings, once.
LabelledIsRecorded ==
  \A pr \in harvestedL : \A f \in Found[pr] :
    Cardinality({h \in DOMAIN harvests : f \in harvests[h].marks}) = 1

\* Every finding is published in the end, or was confirmed as fixed.
FindingsSettled == AllFindings \subseteq Terminal \cup ConfirmedFix
=============================================================================
