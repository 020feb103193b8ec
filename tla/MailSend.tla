------------------------------ MODULE MailSend ------------------------------
(***************************************************************************)
(* Sending one draft (data/src/mail/send.ts).  Several calls of            *)
(* sendDraftEmail may run for the same draft: two clicks, a retry, an      *)
(* agent and the user.  A call claims the draft by writing its             *)
(* mail_message_meta row (the item id is the primary key), submits over    *)
(* SMTP, releases the claim when the submission fails, and files the item  *)
(* under Sent when it succeeds.  Each call generates its own Message-ID,   *)
(* so a call also stands for its message.  The synchronisation of the      *)
(* mailbox may meet the message in the provider's Sent folder at any time  *)
(* after the server accepted it.                                           *)
(***************************************************************************)
EXTENDS Naturals, FiniteSets

CONSTANTS
    Calls,        \* the calls of sendDraftEmail for the draft
    NoCall,       \* the draft has no mail_message_meta row
    MaxSendFaults \* bound on crashes and failed compensating deletes

ASSUME SendAssumption == NoCall \notin Calls /\ MaxSendFaults \in Nat

VARIABLES
    sendPc,    \* where each call is
    claim,     \* the call whose message id the draft's mail_message_meta row carries
    folders,   \* the folders the draft item is linked to
    accepted,  \* the messages the SMTP server has accepted
    sentCopies,    \* the messages ingest has made an Emails item of their own for
    mailbox,   \* the mailbox item: "ok", "no_sent_folder" or "deleted"
    sendFaults \* crashes and failed deletes so far

sendVars == <<sendPc, claim, folders, accepted, sentCopies, mailbox, sendFaults>>

(* Where a call can be.  "refused" and "conflict" ended before the claim,  *)
(* "late" is a call whose submission timed out and may still be delivered. *)
SendPcs == {"idle", "checked", "claimed", "submitting", "late", "failed",
            "submitted", "done", "refused", "conflict", "error", "no_client", "dead"}

(* The calls that own the claim and have not ended.                        *)
Holding == {"claimed", "submitting", "late", "failed", "submitted"}

(* createEmailDraft: the item, linked to Drafts, and no meta row.          *)
SendInit ==
    /\ sendPc = [c \in Calls |-> "idle"]
    /\ claim = NoCall
    /\ folders = {"drafts"}
    /\ accepted = {}
    /\ sentCopies = {}
    /\ mailbox \in {"ok", "no_sent_folder"}
    /\ sendFaults = 0

SendTypeOK ==
    /\ sendPc \in [Calls -> SendPcs]
    /\ claim \in Calls \cup {NoCall}
    /\ folders \subseteq {"drafts", "sent"}
    /\ accepted \subseteq Calls
    /\ sentCopies \subseteq Calls
    /\ mailbox \in {"ok", "no_sent_folder", "deleted"}
    /\ sendFaults \in 0..MaxSendFaults

SendStep(c, from, to) == sendPc[c] = from /\ sendPc' = [sendPc EXCEPT ![c] = to]

(* An agent without the grant is refused before anything is read.          *)
AssertEmailSendAuthorized(c) ==
    /\ SendStep(c, "idle", "refused")
    /\ UNCHANGED <<claim, folders, accepted, sentCopies, mailbox, sendFaults>>

(* The reads before the claim: the draft, the mailbox with its registered  *)
(* addresses, its Sent folder and its credential.  Nothing is locked.      *)
CheckDraftAndMailbox(c) ==
    /\ \/ mailbox = "ok" /\ SendStep(c, "idle", "checked")
       \/ SendStep(c, "idle", "refused")
    /\ UNCHANGED <<claim, folders, accepted, sentCopies, mailbox, sendFaults>>

(* Mutant: the claim is written whether or not a row is there.             *)
ClaimWithoutConflict(c) ==
    /\ SendStep(c, "checked", "claimed") /\ claim' = c
    /\ UNCHANGED <<folders, accepted, sentCopies, mailbox, sendFaults>>

(* The claim: an insert that only the item's primary key arbitrates, since *)
(* the Message-ID is fresh.                                                *)
ClaimDraft(c) ==
    /\ IF claim = NoCall
         THEN SendStep(c, "checked", "claimed") /\ claim' = c
         ELSE SendStep(c, "checked", "conflict") /\ UNCHANGED claim
    /\ UNCHANGED <<folders, accepted, sentCopies, mailbox, sendFaults>>

(* createSmtpClient is called outside the try block: when it throws, the   *)
(* call ends and the claim stays.                                          *)
CreateSmtpClient(c) ==
    /\ \/ SendStep(c, "claimed", "submitting")
       \/ SendStep(c, "claimed", "no_client")
    /\ UNCHANGED <<claim, folders, accepted, sentCopies, mailbox, sendFaults>>

(* The transport delivers, and the answer arrives in time.                 *)
SmtpAccepts(c) ==
    /\ SendStep(c, "submitting", "submitted")
    /\ accepted' = accepted \cup {c}
    /\ UNCHANGED <<claim, folders, sentCopies, mailbox, sendFaults>>

(* The server refuses, or the 30 s race is lost: the call goes on as       *)
(* failed.  In a lost race the transport may have delivered already, or    *)
(* deliver later.                                                          *)
SmtpRejects(c) ==
    /\ \/ SendStep(c, "submitting", "failed")
       \/ SendStep(c, "submitting", "late")
    /\ UNCHANGED <<claim, folders, accepted, sentCopies, mailbox, sendFaults>>

(* The transport of a timed-out call delivers after all.  timedOut is      *)
(* every call that ended in error after a timeout: the model lets any call *)
(* in "late" deliver, before or after its compensation.                    *)
SmtpDeliversLate(c) ==
    /\ sendPc[c] = "late"
    /\ c \notin accepted
    /\ accepted' = accepted \cup {c}
    /\ UNCHANGED <<sendPc, claim, folders, sentCopies, mailbox, sendFaults>>

(* The compensating delete, by item id and best effort.  A call in "late"  *)
(* keeps that place, so that its delivery can still happen afterwards.     *)
ReleaseClaim(c) ==
    /\ sendPc[c] \in {"failed", "late"}
    /\ claim = c
    /\ claim' = NoCall
    /\ sendPc' = [sendPc EXCEPT ![c] = IF @ = "failed" THEN "error" ELSE @]
    /\ UNCHANGED <<folders, accepted, sentCopies, mailbox, sendFaults>>

(* The compensating delete fails and the failure is swallowed.             *)
ReleaseClaimFails(c) ==
    /\ sendFaults < MaxSendFaults
    /\ SendStep(c, "failed", "dead")
    /\ sendFaults' = sendFaults + 1
    /\ UNCHANGED <<claim, folders, accepted, sentCopies, mailbox>>

(* The finalising transaction: the item's fields, its Drafts edges         *)
(* removed, its Sent edge created.                                         *)
FinalizeSent(c) ==
    /\ SendStep(c, "submitted", "done")
    /\ folders' = (folders \ {"drafts"}) \cup {"sent"}
    /\ UNCHANGED <<claim, accepted, sentCopies, mailbox, sendFaults>>

(* The process dies, or the finalising transaction fails, after the claim. *)
SendCrash(c) ==
    /\ sendFaults < MaxSendFaults
    /\ sendPc[c] \in {"claimed", "submitting", "submitted"}
    /\ sendPc' = [sendPc EXCEPT ![c] = "dead"]
    /\ accepted' \in {accepted, IF sendPc[c] = "submitting" THEN accepted \cup {c} ELSE accepted}
    /\ sendFaults' = sendFaults + 1
    /\ UNCHANGED <<claim, folders, sentCopies, mailbox>>

(* A reconcile pass meets message c in the provider's Sent folder and      *)
(* ingests it: onto the draft when the draft's row carries the Message-ID, *)
(* onto the item made earlier when there is one, onto a new item           *)
(* otherwise.                                                              *)
IngestSentCopy(c) ==
    /\ c \in accepted
    /\ IF claim = c
         THEN folders' = folders \cup {"sent"} /\ UNCHANGED sentCopies
         ELSE sentCopies' = sentCopies \cup {c} /\ UNCHANGED folders
    /\ UNCHANGED <<sendPc, claim, accepted, mailbox, sendFaults>>

(* The user removes the mailbox; a call that has passed the check goes on. *)
DeleteMailbox ==
    /\ mailbox # "deleted"
    /\ mailbox' = "deleted"
    /\ UNCHANGED <<sendPc, claim, folders, accepted, sentCopies, sendFaults>>

SendNext ==
    \/ \E c \in Calls :
          \/ AssertEmailSendAuthorized(c) \/ CheckDraftAndMailbox(c) \/ ClaimDraft(c)
          \/ CreateSmtpClient(c) \/ SmtpAccepts(c) \/ SmtpRejects(c)
          \/ SmtpDeliversLate(c) \/ ReleaseClaim(c) \/ ReleaseClaimFails(c)
          \/ FinalizeSent(c) \/ SendCrash(c) \/ IngestSentCopy(c)
    \/ DeleteMailbox

SendSpec == SendInit /\ [][SendNext]_sendVars

-----------------------------------------------------------------------------
(* sendDraftEmail's doc: two concurrent calls for the same draft cannot    *)
(* both win the claim.  At most one call is between its claim and its end, *)
(* and the row carries that call's message.                                *)
ClaimIsExclusive ==
    \A c \in Calls : sendPc[c] \in {"claimed", "submitting", "failed", "submitted"} =>
        /\ claim = c
        /\ \A d \in Calls \ {c} : sendPc[d] \notin {"claimed", "submitting", "failed", "submitted"}

(* A draft leaves Drafts only when some message of it was accepted by the  *)
(* SMTP server: nothing shows as sent that was not.                        *)
SentWasAccepted == "sent" \in folders \/ "drafts" \notin folders => accepted # {}

(* The draft is delivered twice only when the answer to the first delivery *)
(* was lost: of the accepted messages, at most one belongs to a call that  *)
(* was not told of a timeout.                                              *)
DuplicatesNeedLostAnswer == Cardinality({c \in accepted : sendPc[c] # "late"}) <= 1

(* Once a call has been told its message was accepted, no other call ever  *)
(* starts a submission, however the finalisation ends.                     *)
NoResubmission ==
    [][\A c \in Calls :
          (sendPc'[c] = "submitting" /\ sendPc[c] # "submitting") =>
              \A d \in Calls : sendPc[d] \notin {"submitted", "done"}]_sendVars

(* The synchronisation converges onto the draft: a message has an item of  *)
(* its own besides the draft only when its call reported a timeout and     *)
(* gave the claim back.                                                    *)
SentCopyConverges == \A c \in sentCopies : sendPc[c] = "late" /\ claim # c

(* A draft that stays claimed without having been accepted can never be    *)
(* sent again.  That takes a crash, a failed compensating delete, or an    *)
(* SMTP client that could not be made; an SMTP failure alone does not.     *)
StuckDraftHadFault ==
    claim # NoCall /\ claim \notin accepted =>
        sendPc[claim] \in Holding \cup {"dead", "no_client"}

=============================================================================
