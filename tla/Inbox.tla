------------------------------- MODULE Inbox --------------------------------
(***************************************************************************)
(* One captured Inbox item and its processing proposals: the semprec.tick  *)
(* action (inboxTickAction.ts), which reads, calls the model outside any   *)
(* transaction and writes; the user's confirm, reject and revise           *)
(* (proposalActions.ts); the types the item may have (inboxTypesStore.ts); *)
(* and the list of the day it belongs to (journalInboxCompute.ts). Ticks   *)
(* of a tenant run in one lane, one after the other.                       *)
(***************************************************************************)
EXTENDS Naturals, Sequences

CONSTANTS
    MaxTexts,           \* edits of the item's text
    MaxCards,           \* proposal rows
    MaxInboxActs,       \* acts of the user other than edits
    MaxTickFaults       \* failed ticks, and recomputes of the day given up

ASSUME InboxAssumption ==
    MaxTexts \in Nat /\ MaxCards \in Nat \ {0} /\ MaxInboxActs \in Nat /\ MaxTickFaults \in Nat

VARIABLES
    text,           \* the version of the item's text
    emoji,          \* the emoji of its type, 0 without a recognised type
    gone,           \* the item is in the trash
    dest,           \* the destination of its type takes the proposed properties
    cards,          \* proposal rows in the order of their edges
    tickJob,        \* a tick is queued
    tick,           \* the tick that runs
    dayJob,         \* a recompute of the day's list is queued
    dayShows,       \* the status the day's list shows for the item
    written,        \* destination writes per card
    typeMoved,      \* history: the type changed, which queues no tick
    tickLost,       \* history: a tick failed for good
    cardTrashed,    \* history: the user deleted a card
    tickWrote,      \* history: a tick wrote a card after it queued the recompute
    dayLost,        \* history: the last recompute, or the read that queues it, was given up
    inboxActs, tickFaults

inboxVars == <<text, emoji, gone, dest, cards, tickJob, tick, dayJob, dayShows, written,
               typeMoved, tickLost, cardTrashed, tickWrote, dayLost, inboxActs, tickFaults>>
source == <<text, emoji, gone, dest>>
gaps == <<typeMoved, tickLost, cardTrashed, dayLost>>

LockedStatuses == {"confirmed", "rejected"}
NoPrint == <<0, 0>>
Fingerprint == <<emoji, text>>
IdleTick == [phase |-> "idle", print |-> NoPrint, card |-> 0, version |-> 0]

InboxInit ==
    /\ text = 1 /\ emoji \in {0, 1} /\ gone = FALSE /\ dest = TRUE
    /\ cards = <<>> /\ tickJob = TRUE /\ tick = IdleTick
    /\ dayJob = TRUE /\ dayShows = "none" /\ written = [c \in 1 .. MaxCards |-> 0]
    /\ typeMoved = FALSE /\ tickLost = FALSE /\ cardTrashed = FALSE /\ tickWrote = FALSE
    /\ dayLost = FALSE /\ inboxActs = 0 /\ tickFaults = 0

InboxTypeOK ==
    /\ text \in 1 .. MaxTexts + 1 /\ emoji \in 0 .. MaxInboxActs + 1 /\ gone \in BOOLEAN /\ dest \in BOOLEAN
    /\ Len(cards) <= MaxCards
    /\ \A c \in 1 .. Len(cards) :
          /\ cards[c].status \in {"proposed", "needsClarification", "invalid"} \cup LockedStatuses
          /\ cards[c].live \in BOOLEAN /\ cards[c].by \in {"ai", "user"}
    /\ tickJob \in BOOLEAN /\ dayJob \in BOOLEAN
    /\ tick.phase \in {"idle", "calling"} /\ tick.card \in 0 .. MaxCards
    /\ dayShows \in {"none", "absent", "proposed", "needsClarification", "invalid"} \cup LockedStatuses

-----------------------------------------------------------------------------
(* resolveRecognizedType; what the destination accepts of the envelope, as *)
(* the tick checks it and, for its card, as confirm and revise do.         *)
Recognized == emoji # 0
ValidEnvelope == dest
ValidForCard == ValidEnvelope

(* enqueueJournalInboxRecompute, in the transaction of the write.          *)
EnqueueRecompute == dayJob' = TRUE

(* findExistingProposal: the first edge that leads to a live card.         *)
FindExistingProposal ==
    LET live == {c \in 1 .. Len(cards) : cards[c].live}
    IN IF live = {} THEN 0 ELSE CHOOSE c \in live : \A d \in live : c <= d

(* lockUnlockedProposal: the row is still what the tick read.              *)
LockUnlockedProposal(c, version) ==
    cards[c].live /\ cards[c].status \notin LockedStatuses /\ cards[c].version = version

Card(status, print, basis) ==
    [status |-> status, print |-> print, basis |-> basis, by |-> "ai", version |-> 1, live |-> TRUE]
Revised(c, status, print, basis) ==
    [cards EXCEPT ![c] = [@ EXCEPT !.status = status, !.print = print, !.basis = basis, !.by = "ai",
                                   !.version = @ + 1]]

(* writeNeedsClarification and invalidateProposalForDeletedSource.         *)
NeedsClarification(c, version, print) ==
    CASE c = 0 -> Append(cards, Card("needsClarification", print, print))
      [] c # 0 /\ (cards[c].status \in LockedStatuses
                     \/ (cards[c].status = "needsClarification" /\ cards[c].print = print)) -> cards
      [] OTHER -> IF LockUnlockedProposal(c, version)
                  THEN Revised(c, "needsClarification", print, print) ELSE cards

InvalidateForDeletedSource(c) ==
    IF c # 0 /\ cards[c].status \notin LockedStatuses \cup {"invalid"}
    THEN Revised(c, "invalid", cards[c].print, cards[c].basis) ELSE cards

(* readTickSnapshot: the outcomes that need no call are written here; the  *)
(* recompute of the day is queued in any case.                             *)
ReadTickSnapshot ==
    /\ tickJob /\ tick.phase = "idle" /\ tickJob' = FALSE /\ EnqueueRecompute /\ tickWrote' = FALSE
    /\ LET c == FindExistingProposal
       IN /\ Len(cards) < MaxCards \/ c # 0
          /\ CASE gone -> cards' = InvalidateForDeletedSource(c) /\ UNCHANGED tick
               [] ~gone /\ ~Recognized ->
                    cards' = NeedsClarification(c, IF c = 0 THEN 0 ELSE cards[c].version, NoPrint) /\ UNCHANGED tick
               [] ~gone /\ Recognized /\ c # 0 /\ (cards[c].status \in LockedStatuses \/ cards[c].print = Fingerprint) ->
                    UNCHANGED <<cards, tick>>
               [] OTHER ->
                    /\ tick' = [phase |-> "calling", print |-> Fingerprint, card |-> c,
                                version |-> IF c = 0 THEN 0 ELSE cards[c].version]
                    /\ UNCHANGED cards
    /\ UNCHANGED <<source, dayShows, written, gaps, inboxActs, tickFaults>>

(* writeTickResult: a source that moved on gets nothing; an envelope the   *)
(* destination refuses becomes a question; otherwise the card of the       *)
(* snapshot, or one made meanwhile, is revised, or a new one is made.      *)
WriteTickResult ==
    /\ tick.phase = "calling" /\ tick' = IdleTick
    /\ LET c == IF tick.card # 0 THEN tick.card ELSE FindExistingProposal
           version == IF tick.card # 0 THEN tick.version ELSE IF c = 0 THEN 0 ELSE cards[c].version
       IN /\ Len(cards) < MaxCards \/ c # 0
          /\ cards' =
               CASE gone \/ ~Recognized \/ Fingerprint # tick.print -> cards
                 [] ~gone /\ Recognized /\ Fingerprint = tick.print /\ ~ValidEnvelope -> NeedsClarification(c, version, tick.print)
                 [] OTHER -> IF c = 0 THEN Append(cards, Card("proposed", tick.print, tick.print))
                             ELSE IF LockUnlockedProposal(c, version)
                                  THEN Revised(c, "proposed", tick.print, tick.print) ELSE cards
          /\ tickWrote' = (tickWrote \/ cards' # cards)
    /\ UNCHANGED <<source, tickJob, dayJob, dayShows, written, gaps, inboxActs, tickFaults>>

(* The call or the write fails: the job is retried from the read, or given *)
(* up with its last attempt.                                               *)
TickFails ==
    /\ tick.phase = "calling" /\ tickFaults < MaxTickFaults /\ tickFaults' = tickFaults + 1
    /\ tick' = IdleTick
    /\ \/ tickJob' = TRUE /\ UNCHANGED tickLost
       \/ tickLost' = TRUE /\ UNCHANGED tickJob
    /\ UNCHANGED <<source, cards, dayJob, dayShows, written, typeMoved, cardTrashed, dayLost, tickWrote, inboxActs>>

(* The read rejects on every attempt (a type without a destination, a      *)
(* destination that is not seeded, a failed statement): it is rolled back  *)
(* with the recompute it queued, and the job is given up.                  *)
ReadFails ==
    /\ tickJob /\ tick.phase = "idle" /\ tickFaults < MaxTickFaults /\ tickFaults' = tickFaults + 1
    /\ tickJob' = FALSE /\ tickLost' = TRUE /\ dayLost' = TRUE
    /\ UNCHANGED <<source, cards, tick, dayJob, dayShows, written, typeMoved, cardTrashed, tickWrote, inboxActs>>

-----------------------------------------------------------------------------
Act == inboxActs < MaxInboxActs /\ inboxActs' = inboxActs + 1

(* Writes of the item queue a tick under one key.                          *)
EditText ==
    /\ ~gone /\ text <= MaxTexts /\ text' = text + 1 /\ tickJob' = TRUE
    /\ UNCHANGED <<emoji, gone, dest, cards, tick, dayJob, dayShows, written, gaps, tickWrote, inboxActs, tickFaults>>

DeleteInboxItem ==
    /\ ~gone /\ Act /\ gone' = TRUE /\ tickJob' = TRUE
    /\ UNCHANGED <<text, emoji, dest, cards, tick, dayJob, dayShows, written, gaps, tickWrote, tickFaults>>

(* Linking a type, editing its emoji, or deleting it: an edge is no write  *)
(* of the item, and queues no tick. A locked card keeps a deleted type.    *)
ChangeType ==
    /\ ~gone /\ Act /\ typeMoved' = TRUE
    /\ \/ emoji' = inboxActs + 2
       \/ emoji' = 0
    /\ UNCHANGED <<text, gone, dest, cards, tickJob, tick, dayJob, dayShows, written, tickLost, cardTrashed,
                   dayLost, tickWrote, tickFaults>>

(* The destination is archived, or takes proposals again.                  *)
ChangeDestination ==
    /\ Act /\ dest' = ~dest
    /\ UNCHANGED <<text, emoji, gone, cards, tickJob, tick, dayJob, dayShows, written, gaps, tickWrote, tickFaults>>

TrashCard(c) ==
    /\ Act /\ cards[c].live /\ cardTrashed' = TRUE
    /\ cards' = [cards EXCEPT ![c].live = FALSE, ![c].version = @ + 1]
    /\ UNCHANGED <<source, tickJob, tick, dayJob, dayShows, written, typeMoved, tickLost, dayLost, tickWrote,
                   tickFaults>>

Decided(c, status) == [cards EXCEPT ![c].status = status, ![c].version = @ + 1]

(* A confirm that does not look at the status it finds.                    *)
ConfirmAgain(c) ==
    /\ Act /\ cards[c].live /\ cards[c].status \in {"proposed", "confirmed"} /\ ValidForCard
    /\ written' = [written EXCEPT ![c] = @ + 1]
    /\ cards' = Decided(c, "confirmed") /\ EnqueueRecompute
    /\ UNCHANGED <<source, tickJob, tick, dayShows, gaps, tickWrote, tickFaults>>

(* confirmProposalWithClient: the destination is checked again, written,   *)
(* and the card locked in one transaction; a repeat changes nothing.       *)
ConfirmProposal(c) ==
    /\ Act /\ cards[c].live /\ cards[c].status = "proposed" /\ ValidForCard
    /\ written' = [written EXCEPT ![c] = @ + 1]
    /\ cards' = Decided(c, "confirmed") /\ EnqueueRecompute
    /\ UNCHANGED <<source, tickJob, tick, dayShows, gaps, tickWrote, tickFaults>>

RejectProposal(c) ==
    /\ Act /\ cards[c].live /\ cards[c].status \notin LockedStatuses
    /\ cards' = Decided(c, "rejected") /\ EnqueueRecompute
    /\ UNCHANGED <<source, tickJob, tick, dayShows, written, gaps, tickWrote, tickFaults>>

ReviseProposal(c) ==
    /\ Act /\ cards[c].live /\ cards[c].status \notin LockedStatuses /\ ValidForCard
    /\ cards' = [Decided(c, "proposed") EXCEPT ![c].by = "user"] /\ EnqueueRecompute
    /\ UNCHANGED <<source, tickJob, tick, dayShows, written, gaps, tickWrote, tickFaults>>

(* recomputeJournalInboxDay: a deleted item is not in the list.            *)
StatusOf == IF gone THEN "absent" ELSE IF FindExistingProposal = 0 THEN "none" ELSE cards[FindExistingProposal].status
RecomputeJournalInboxDay ==
    /\ dayJob /\ dayJob' = FALSE /\ dayShows' = StatusOf /\ dayLost' = FALSE
    /\ UNCHANGED <<source, cards, tickJob, tick, written, typeMoved, tickLost, cardTrashed, tickWrote, inboxActs,
                   tickFaults>>

(* It is a job of three attempts; after the last, nothing recomputes the   *)
(* day until the next write.                                               *)
RecomputeGivenUp ==
    /\ dayJob /\ tickFaults < MaxTickFaults /\ tickFaults' = tickFaults + 1
    /\ dayJob' = FALSE /\ dayLost' = TRUE
    /\ UNCHANGED <<source, cards, tickJob, tick, dayShows, written, typeMoved, tickLost, cardTrashed, tickWrote,
                   inboxActs>>

InboxNext ==
    \/ ReadTickSnapshot \/ WriteTickResult \/ TickFails \/ ReadFails
    \/ EditText \/ DeleteInboxItem \/ ChangeType \/ ChangeDestination
    \/ \E c \in 1 .. Len(cards) :
         TrashCard(c) \/ ConfirmProposal(c) \/ RejectProposal(c) \/ ReviseProposal(c)
    \/ RecomputeJournalInboxDay \/ RecomputeGivenUp

InboxSpec ==
    /\ InboxInit /\ [][InboxNext]_inboxVars
    /\ WF_inboxVars(ReadTickSnapshot) /\ WF_inboxVars(WriteTickResult) /\ WF_inboxVars(RecomputeJournalInboxDay)

-----------------------------------------------------------------------------
(* The item never has two live cards, although the edges of deleted ones   *)
(* stay and a card may be made while a tick waits for the model.           *)
OneLiveCard == \A c, d \in 1 .. Len(cards) : cards[c].live /\ cards[d].live => c = d

(* A confirmed card wrote its destination once, and no other card did.     *)
ConfirmedWritesOnce ==
    \A c \in 1 .. Len(cards) : written[c] = (IF cards[c].status = "confirmed" THEN 1 ELSE 0)

(* With no tick left, the card was made from the item as it is, unless the *)
(* user decided on it or deleted it, a tick failed, or the type changed.   *)
CardIsUpToDate ==
    ~tickJob /\ tick.phase = "idle" /\ ~typeMoved /\ ~tickLost /\ ~cardTrashed
        => IF gone
           THEN \A c \in 1 .. Len(cards) : cards[c].live /\ cards[c].by = "ai"
                    => cards[c].status \in LockedStatuses \cup {"invalid"}
           ELSE \E c \in 1 .. Len(cards) :
                   /\ cards[c].live
                   /\ \/ cards[c].status \in LockedStatuses \/ cards[c].by = "user"
                      \/ cards[c].basis = (IF ~Recognized THEN NoPrint ELSE Fingerprint)

(* The day shows the card's status when nothing is queued, unless a tick   *)
(* wrote the card after it had queued the recompute, it was deleted, or    *)
(* the last recompute or the read that queues it was given up.             *)
DayIsCurrent ==
    ~dayJob => dayShows = StatusOf \/ tickWrote \/ cardTrashed \/ tickJob \/ dayLost

(* A card the user decided on is never changed by a tick, nor is a         *)
(* revision the tick had not read when it called the model.                *)
DecisionsStand ==
    [][\A c \in 1 .. Len(cards) :
          LET ours == cards'[c].by = "user" \/ cards'[c].status \in LockedStatuses
          IN /\ cards[c].status \in LockedStatuses /\ cards'[c].live
                  => cards'[c].status = cards[c].status /\ cards'[c].basis = cards[c].basis
             /\ cards[c].by = "user" /\ tick.phase = "calling" /\ tick'.phase = "idle" /\ ~ours
                  => tick.card = c /\ tick.version = cards[c].version]_inboxVars
=============================================================================
