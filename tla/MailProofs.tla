----------------------------- MODULE MailProofs -----------------------------
(***************************************************************************)
(* The claim of a draft, for any number of calls of sendDraftEmail, and    *)
(* the flags of a message, for any number of folders, copies, concurrent   *)
(* passes, edits, foreign changes, failures and overlaps.                  *)
(***************************************************************************)
EXTENDS MailSend, MailFlags, FiniteSetTheorems, TLAPS

-----------------------------------------------------------------------------
(* The claim rests on one fact that no single call can see: from its claim *)
(* on, a call that was not told of a timeout is the one the draft's row    *)
(* names, even after it has died.  The row is given up only by the call it *)
(* names, and only after a failed submission.                              *)

(* Past the claim and not timed out: these calls own the row for good, or  *)
(* until they give it back.                                                *)
Owning == {"claimed", "submitting", "failed", "submitted", "done", "no_client", "dead"}

ClaimInv ==
    /\ SendTypeOK
    /\ \A c \in Calls :
        /\ sendPc[c] \in Owning => claim = c
        /\ claim = c => sendPc[c] \in Owning \cup {"late"}
        /\ c \in accepted => sendPc[c] \in {"late", "submitted", "done", "dead"}
        /\ sendPc[c] \in {"submitted", "done"} => c \in accepted
        /\ c \in sentCopies => sendPc[c] = "late" /\ claim # c
    /\ SentWasAccepted

-----------------------------------------------------------------------------
(* sendDraftEmail, every step of every call: the invariant holds of a      *)
(* draft just created, and no step breaks it.                              *)
THEOREM SendInvariance == SendSpec => []ClaimInv
<1>1. SendInit => ClaimInv
  BY SendAssumption DEF SendInit, ClaimInv, SendTypeOK, SendPcs, Owning, SentWasAccepted
<1>2. ClaimInv /\ [SendNext]_sendVars => ClaimInv'
  <2> SUFFICES ASSUME ClaimInv, [SendNext]_sendVars PROVE ClaimInv'
    OBVIOUS
  <2> USE SendAssumption DEF ClaimInv, SendTypeOK, SendPcs, Owning, SentWasAccepted, SendStep
  <2>1. ASSUME NEW c \in Calls, AssertEmailSendAuthorized(c) PROVE ClaimInv'
    BY <2>1 DEF AssertEmailSendAuthorized
  <2>2. ASSUME NEW c \in Calls, CheckDraftAndMailbox(c) PROVE ClaimInv'
    BY <2>2 DEF CheckDraftAndMailbox
  <2>3. ASSUME NEW c \in Calls, ClaimDraft(c) PROVE ClaimInv'
    BY <2>3 DEF ClaimDraft
  <2>4. ASSUME NEW c \in Calls, CreateSmtpClient(c) PROVE ClaimInv'
    BY <2>4 DEF CreateSmtpClient
  <2>5. ASSUME NEW c \in Calls, SmtpAccepts(c) PROVE ClaimInv'
    BY <2>5 DEF SmtpAccepts
  <2>6. ASSUME NEW c \in Calls, SmtpRejects(c) PROVE ClaimInv'
    BY <2>6 DEF SmtpRejects
  <2>7. ASSUME NEW c \in Calls, SmtpDeliversLate(c) PROVE ClaimInv'
    BY <2>7 DEF SmtpDeliversLate
  <2>8. ASSUME NEW c \in Calls, ReleaseClaim(c) PROVE ClaimInv'
    BY <2>8 DEF ReleaseClaim
  <2>9. ASSUME NEW c \in Calls, ReleaseClaimFails(c) PROVE ClaimInv'
    BY <2>9 DEF ReleaseClaimFails
  <2>10. ASSUME NEW c \in Calls, FinalizeSent(c) PROVE ClaimInv'
    BY <2>10 DEF FinalizeSent
  <2>11. ASSUME NEW c \in Calls, SendCrash(c) PROVE ClaimInv'
    BY <2>11 DEF SendCrash
  <2>12. ASSUME NEW c \in Calls, IngestSentCopy(c) PROVE ClaimInv'
    BY <2>12 DEF IngestSentCopy
  <2>13. CASE DeleteMailbox
    BY <2>13 DEF DeleteMailbox
  <2>14. CASE UNCHANGED sendVars
    BY <2>14 DEF sendVars
  <2> QED
    BY <2>1, <2>2, <2>3, <2>4, <2>5, <2>6, <2>7, <2>8, <2>9, <2>10, <2>11,
       <2>12, <2>13, <2>14 DEF SendNext
<1> QED
  BY <1>1, <1>2, PTL DEF SendSpec

(* The insert into mail_message_meta arbitrates: of any number of          *)
(* concurrent calls for a draft, one is between its claim and its end.     *)
THEOREM ClaimExclusive == SendSpec => []ClaimIsExclusive
<1>1. ClaimInv => ClaimIsExclusive
  BY DEF ClaimInv, ClaimIsExclusive, Owning
<1> QED
  BY <1>1, SendInvariance, PTL

(* The finalising transaction and the ingest of the Sent copy: the draft   *)
(* shows as sent only when the SMTP server has accepted a message of it.   *)
THEOREM SentOnlyAccepted == SendSpec => []SentWasAccepted
<1>1. ClaimInv => SentWasAccepted
  BY DEF ClaimInv
<1> QED
  BY <1>1, SendInvariance, PTL

(* The compensating delete: of all messages delivered for a draft, at most *)
(* one belongs to a call that was not told of a timeout.                   *)
THEOREM DuplicatesAreTimeouts == SendSpec => []DuplicatesNeedLostAnswer
<1>1. ClaimInv => DuplicatesNeedLostAnswer
  <2> SUFFICES ASSUME ClaimInv PROVE DuplicatesNeedLostAnswer
    OBVIOUS
  <2> DEFINE Told == {c \in accepted : sendPc[c] # "late"}
  <2>1. Told \subseteq {claim}
    BY DEF ClaimInv, SendTypeOK, Owning
  <2>2. IsFiniteSet({claim}) /\ Cardinality({claim}) = 1
    BY FS_Singleton
  <2>3. Cardinality(Told) <= 1
    BY <2>1, <2>2, FS_Subset
  <2> QED
    BY <2>3 DEF DuplicatesNeedLostAnswer
<1> QED
  BY <1>1, SendInvariance, PTL

(* ingestMessage meeting the message in the provider's Sent folder: it     *)
(* makes an item of its own only for a message whose call reported a       *)
(* timeout and gave the claim back.                                        *)
THEOREM CopiesConverge == SendSpec => []SentCopyConverges
<1>1. ClaimInv => SentCopyConverges
  BY DEF ClaimInv, SendTypeOK, SentCopyConverges
<1> QED
  BY <1>1, SendInvariance, PTL

(* A claimed draft whose message was not accepted is in the hands of a     *)
(* call, or of one that died or had no SMTP client.                        *)
THEOREM StuckNeedsFault == SendSpec => []StuckDraftHadFault
<1>1. ClaimInv => StuckDraftHadFault
  BY DEF ClaimInv, SendTypeOK, StuckDraftHadFault, Owning, Holding
<1> QED
  BY <1>1, SendInvariance, PTL

(* sendDraftEmail submits no draft again once a call of it was told that   *)
(* its message is accepted, however the finalising transaction ends.       *)
THEOREM SubmittedOnce == SendSpec => NoResubmission
<1> DEFINE Resubmits == ~(\A c \in Calls :
              (sendPc'[c] = "submitting" /\ sendPc[c] # "submitting") =>
                  \A d \in Calls : sendPc[d] \notin {"submitted", "done"})
<1>1. ClaimInv /\ [SendNext]_sendVars => [~Resubmits]_sendVars
  <2> SUFFICES ASSUME ClaimInv, SendNext,
                      NEW c \in Calls, sendPc'[c] = "submitting", sendPc[c] # "submitting",
                      NEW d \in Calls, sendPc[d] \in {"submitted", "done"}
               PROVE FALSE
    BY DEF sendVars
  <2>1. sendPc[c] = "claimed"
    BY DEF ClaimInv, SendTypeOK, SendNext, SendStep, AssertEmailSendAuthorized,
           CheckDraftAndMailbox, ClaimDraft, CreateSmtpClient, SmtpAccepts, SmtpRejects,
           SmtpDeliversLate, ReleaseClaim, ReleaseClaimFails, FinalizeSent, SendCrash,
           IngestSentCopy, DeleteMailbox
  <2> QED
    BY <2>1 DEF ClaimInv, Owning
<1> QED
  BY <1>1, SendInvariance, PTL DEF SendSpec, NoResubmission

-----------------------------------------------------------------------------
(* The flags of a message. *)

LEMMA ViewType ==
  ASSUME TypeOK, NEW p \in Passes
  PROVE  View(p) \in Rows
BY DEF TypeOK, RowsType, PassesType, PassStates, View

LEMMA IdleType == Idle \in PassStates /\ Idle.own = NoRow /\ Idle.pc = "idle"
BY MailFlagsAssumption DEF Idle, PassStates, Pcs, Folders

\* What a step of a pass does to the passes.
LEMMA MoveType ==
  ASSUME PassesType, NEW p \in Passes, NEW pc \in Pcs, NEW u \in PassStates, Move(p, pc, u)
  PROVE  /\ PassesType'
         /\ pass'[p] = [u EXCEPT !.pc = pc]
         /\ pass'[p].pc = pc /\ pass'[p].own = u.own /\ pass'[p].value = u.value
         /\ \A q \in Passes \ {p} : pass'[q] = pass[q]
BY DEF PassesType, PassStates, Move

LEMMA ObservedType ==
  ASSUME NEW r \in Rows, NEW v \in BOOLEAN
  PROVE  RecordObserved(r, v) \in Rows
BY DEF Rows, RecordObserved

LEMMA ServerStep ==
  ASSUME ServerType, NEW f \in Folders, NEW v \in BOOLEAN, SetServer(f, v)
  PROVE  server' \in [Folders -> [flag : BOOLEAN, seq : Nat]]
BY DEF ServerType, SetServer

(* A pass's step either leaves the message's rows of that pass alone, or   *)
(* observes, or confirms; writing needs a pending row.                     *)
PassEffect(p) ==
  /\ PassesType'
  /\ \A q \in Passes \ {p} : pass'[q] = pass[q]
  /\ \/ pass'[p].own = NoRow /\ pass'[p].pc \in {"idle", "select"}
     \/ pass'[p].own = pass[p].own /\ pass'[p].pc \notin {"write", "confirm"}
     \/ /\ pass[p].seen \in BOOLEAN
        /\ pass'[p].own = RecordObserved(View(p), pass[p].seen)
        /\ pass'[p].pc \notin {"write", "confirm"}
     \/ /\ Pending(View(p))
        /\ pass'[p].own = pass[p].own
        /\ pass'[p].value = View(p).desired
     \/ /\ pass[p].pc = "write"
        /\ pass'[p].own = pass[p].own
        /\ pass'[p].value = pass[p].value
     \/ /\ pass[p].pc = "confirm"
        /\ pass'[p].own = [View(p) EXCEPT !.current = pass[p].value]
        /\ pass'[p].pc \notin {"write", "confirm"}

LEMMA StepEffect ==
  ASSUME TypeOK, NEW p \in Passes, Start(p) \/ PassStep(p) \/ Fail(p)
  PROVE  PassEffect(p)
<1> USE MailFlagsAssumption
<1>0. pass[p] \in PassStates /\ PassesType /\ View(p) \in Rows
  BY ViewType DEF TypeOK, PassesType
<1>1. CASE Start(p)
  <2>1. Move(p, "select", Idle) /\ pass[p].pc = "idle"
    BY <1>1 DEF Start
  <2>2. /\ PassesType' /\ (\A q \in Passes \ {p} : pass'[q] = pass[q])
        /\ pass'[p].own = NoRow /\ pass'[p].pc = "select"
    BY <1>0, <2>1, MoveType, IdleType DEF Pcs
  <2> QED
    BY <2>2 DEF PassEffect
<1>2. CASE SelectFolder(p)
  <2>1. [pass[p] EXCEPT !.sel = server[pass[p].f].seq] \in PassStates
    BY <1>0 DEF PassStates, TypeOK, ServerType
  <2> QED
    BY ZenonT(60), <1>0, <1>2, <2>1, MoveType DEF SelectFolder, PassEffect, Pcs, PassStates
<1>3. CASE EnsureMailFolderSyncState(p)
  <2> DEFINE u == [pass[p] EXCEPT !.since = IF condstore THEN stored[pass[p].f] ELSE Null]
  <2>1. u \in PassStates /\ u.own = pass[p].own
    BY <1>0 DEF PassStates, TypeOK, RowsType
  <2>2. Move(p, "fetch", u)
    BY <1>3 DEF EnsureMailFolderSyncState
  <2> HIDE DEF u
  <2> QED
    BY <1>0, <2>1, <2>2, MoveType DEF PassEffect, Pcs
<1>4. CASE FetchFlagsChangedSince(p)
  <2> DEFINE f == pass[p].f
             changed == f \in copies /\ (pass[p].since = Null \/ server[f].seq > pass[p].since)
             u == [pass[p] EXCEPT !.seen = IF changed THEN server[f].flag ELSE Null]
  <2>1. u \in PassStates /\ u.own = pass[p].own
    BY <1>0 DEF PassStates, TypeOK, ServerType
  <2>2. Move(p, "apply", u)
    BY <1>4 DEF FetchFlagsChangedSince
  <2> HIDE DEF u
  <2> QED
    BY <1>0, <2>1, <2>2, MoveType DEF PassEffect, Pcs
<1>5. CASE ApplyObservedMailMessageFlags(p)
  <2>1. CASE pass[p].seen = Null
    BY <1>0, <1>5, <2>1, MoveType DEF ApplyObservedMailMessageFlags, PassEffect, Pcs
  <2>2. CASE pass[p].seen # Null
    <3> DEFINE o == RecordObserved(View(p), pass[p].seen)
               u == [pass[p] EXCEPT !.own = o]
    <3>1. pass[p].seen \in BOOLEAN
      BY <1>0, <2>2 DEF PassStates
    <3>2. o \in Rows
      BY <1>0, <3>1, ObservedType
    <3>3. Move(p, "record", u)
      BY <1>5, <2>2 DEF ApplyObservedMailMessageFlags
    <3> HIDE DEF o
    <3>4. u \in PassStates /\ u.own = o
      BY <1>0, <3>2 DEF PassStates
    <3> HIDE DEF u
    <3>5. PassesType' /\ (\A q \in Passes \ {p} : pass'[q] = pass[q]) /\ pass'[p].own = o /\ pass'[p].pc = "record"
      BY <1>0, <3>3, <3>4, MoveType DEF Pcs
    <3> QED
      BY <3>1, <3>5 DEF PassEffect, o
  <2> QED
    BY <2>1, <2>2
<1>6. CASE RecordReconcile(p)
  <2> DEFINE done == [pass[p] EXCEPT !.recorded[pass[p].f] = pass[p].sel]
             next == [done EXCEPT !.f = @ + 1]
  <2>1. done \in PassStates /\ done.own = pass[p].own /\ done.f = pass[p].f
    BY <1>0 DEF PassStates
  <2>2. CASE pass[p].f = NumFolders
    <3>1. Move(p, "list", done)
      BY <1>6, <2>2 DEF RecordReconcile
    <3> QED
      BY <1>0, <2>1, <3>1, MoveType DEF PassEffect, Pcs
  <2>3. CASE pass[p].f # NumFolders
    <3>1. Move(p, "select", next)
      BY <1>6, <2>3 DEF RecordReconcile
    <3>2. pass[p].f + 1 \in Folders
      BY <1>0, <2>3 DEF PassStates, Folders
    <3> HIDE DEF done
    <3>3. next \in PassStates /\ next.own = pass[p].own
      BY <2>1, <3>2 DEF PassStates
    <3> QED
      BY <1>0, <3>1, <3>3, MoveType DEF PassEffect, Pcs
  <2> QED
    BY <2>2, <2>3
<1>7. CASE ListPendingImapFlagWrites(p)
  <2>1. CASE Pending(View(p))
    <3> DEFINE u == [pass[p] EXCEPT !.writes = copies, !.value = View(p).desired]
    <3>1. u \in PassStates /\ u.own = pass[p].own /\ u.value = View(p).desired
      BY <1>0 DEF PassStates, Rows, TypeOK, ServerType
    <3>2. Move(p, "write", u)
      BY <1>7, <2>1 DEF ListPendingImapFlagWrites
    <3> HIDE DEF u
    <3> QED
      BY <1>0, <2>1, <3>1, <3>2, MoveType DEF PassEffect, Pcs
  <2>2. CASE ~Pending(View(p))
    BY <1>0, <1>7, <2>2, MoveType DEF ListPendingImapFlagWrites, PassEffect, Pcs
  <2> QED
    BY <2>1, <2>2
<1>8. ASSUME NEW f \in Folders, SetMessageFlag(p, f) PROVE PassEffect(p)
  <2> DEFINE u == [pass[p] EXCEPT !.writes = @ \ {f}]
             pc == IF pass[p].writes = {f} THEN "confirm" ELSE "write"
  <2>1. u \in PassStates /\ u.own = pass[p].own /\ u.value = pass[p].value
    BY <1>0 DEF PassStates
  <2>2. Move(p, pc, u) /\ pc \in Pcs /\ pass[p].pc = "write"
    BY <1>8 DEF SetMessageFlag, Pcs
  <2> HIDE DEF u, pc
  <2>3. /\ PassesType' /\ (\A q \in Passes \ {p} : pass'[q] = pass[q])
        /\ pass'[p].own = pass[p].own /\ pass'[p].value = pass[p].value
    BY <1>0, <2>1, <2>2, MoveType
  <2> QED
    BY <2>2, <2>3 DEF PassEffect
<1>9. CASE RecordConfirmedMailMessageFlag(p)
  <2> DEFINE o == [View(p) EXCEPT !.current = pass[p].value]
             u == [pass[p] EXCEPT !.own = o]
  <2>1. o \in Rows
    BY <1>0 DEF Rows, PassStates
  <2>2. Move(p, "commit", u) /\ pass[p].pc = "confirm"
    BY <1>9 DEF RecordConfirmedMailMessageFlag
  <2> HIDE DEF o
  <2>3. u \in PassStates /\ u.own = o
    BY <1>0, <2>1 DEF PassStates
  <2> HIDE DEF u
  <2>4. PassesType' /\ (\A q \in Passes \ {p} : pass'[q] = pass[q]) /\ pass'[p].own = o /\ pass'[p].pc = "commit"
    BY <1>0, <2>2, <2>3, MoveType DEF Pcs
  <2> QED
    BY <2>2, <2>4 DEF PassEffect, o
<1>10. CASE Commit(p) \/ Fail(p) \/ Deadlock(p)
  <2>1. pass' = [pass EXCEPT ![p] = Idle]
    BY <1>10 DEF Commit, Fail, Deadlock
  <2> QED
    BY <1>0, <2>1, IdleType DEF PassEffect, PassesType
<1> QED
  BY <1>1, <1>2, <1>3, <1>4, <1>5, <1>6, <1>7, <1>8, <1>9, <1>10 DEF PassStep

\* A step of a pass changes the committed row only when it commits.
LEMMA CommittedRow ==
  ASSUME TypeOK, NEW p \in Passes, Start(p) \/ PassStep(p) \/ Fail(p)
  PROVE  /\ edits' = edits
         /\ row' = row \/ row' = View(p)
         /\ row' \in Rows
<1>1. edits' = edits
  BY DEF Start, PassStep, SelectFolder, EnsureMailFolderSyncState, FetchFlagsChangedSince,
    ApplyObservedMailMessageFlags, RecordReconcile, ListPendingImapFlagWrites, SetMessageFlag,
    RecordConfirmedMailMessageFlag, Commit, Deadlock, Fail, counters
<1>2. row' = row \/ row' = View(p)
  BY DEF Start, PassStep, SelectFolder, EnsureMailFolderSyncState, FetchFlagsChangedSince,
    ApplyObservedMailMessageFlags, RecordReconcile, ListPendingImapFlagWrites, SetMessageFlag,
    RecordConfirmedMailMessageFlag, Commit, Deadlock, Fail
<1> QED
  BY <1>1, <1>2, ViewType DEF TypeOK, RowsType

LEMMA StoredAndServer ==
  ASSUME TypeOK, DesireIsKnown, NEW p \in Passes, Start(p) \/ PassStep(p) \/ Fail(p)
  PROVE  stored' \in [Folders -> Nat] /\ ServerType' /\ CountersType'
<1> USE MailFlagsAssumption
<1>0. pass[p] \in PassStates
  BY DEF TypeOK, PassesType
<1>1. ASSUME NEW f \in Folders, SetMessageFlag(p, f)
      PROVE  stored' \in [Folders -> Nat] /\ ServerType' /\ CountersType'
  <2>1. pass[p].value \in BOOLEAN
    BY <1>0, <1>1 DEF DesireIsKnown, SetMessageFlag, PassStates
  <2>2. server' \in [Folders -> [flag : BOOLEAN, seq : Nat]]
    BY <1>1, <2>1, ServerStep DEF SetMessageFlag, TypeOK
  <2> QED
    BY <1>1, <2>2 DEF SetMessageFlag, TypeOK, RowsType, ServerType, CountersType, counters
<1>2. CASE Commit(p)
  <2>1. stored' \in [Folders -> Nat]
    BY <1>0, <1>2 DEF Commit, TypeOK, RowsType, PassStates
  <2> QED
    BY <1>2, <2>1 DEF Commit, TypeOK, ServerType, CountersType, counters
<1>3. CASE Start(p) \/ Fail(p)
  BY <1>3 DEF Start, Fail, TypeOK, RowsType, ServerType, CountersType
<1>4. CASE \/ SelectFolder(p) \/ EnsureMailFolderSyncState(p) \/ FetchFlagsChangedSince(p)
           \/ ApplyObservedMailMessageFlags(p) \/ RecordReconcile(p)
           \/ ListPendingImapFlagWrites(p) \/ RecordConfirmedMailMessageFlag(p) \/ Deadlock(p)
  BY <1>4 DEF SelectFolder, EnsureMailFolderSyncState, FetchFlagsChangedSince,
    ApplyObservedMailMessageFlags, RecordReconcile, ListPendingImapFlagWrites,
    RecordConfirmedMailMessageFlag, Deadlock, counters, TypeOK, RowsType, ServerType, CountersType
<1> QED
  BY <1>1, <1>2, <1>3, <1>4 DEF PassStep

LEMMA TypeInit == Init => TypeOK
<1> SUFFICES ASSUME Init PROVE TypeOK
  OBVIOUS
<1>1. RowsType
  <2>1. PICK known \in {FALSE, Null} : row = [item |-> FALSE, desired |-> known, current |-> known]
    BY DEF Init
  <2>2. known \in BOOLEAN \cup {Null}
    OBVIOUS
  <2>3. row \in Rows
    BY <2>1, <2>2 DEF Rows
  <2>4. stored \in [Folders -> Nat]
    BY DEF Init
  <2> QED
    BY <2>3, <2>4 DEF RowsType
<1>2. PassesType
  BY IdleType DEF Init, PassesType
<1>3. ServerType /\ CountersType
  BY MailFlagsAssumption DEF Init, ServerType, CountersType
<1> QED
  BY <1>1, <1>2, <1>3 DEF TypeOK

\* An edit in Semprec, and a change by another client.
LEMMA EditStep ==
  ASSUME TypeOK, UpdateItem
  PROVE  /\ TypeOK' /\ pass' = pass /\ edits' # 0
         /\ row'.desired = row'.item /\ row'.desired # Null
         /\ \A p \in Passes : pass[p].own = NoRow
<1>1. (~row.item) \in BOOLEAN /\ row \in Rows
  BY DEF TypeOK, RowsType
<1> DEFINE v == ~row.item
<1>2. row' = [row EXCEPT !.item = v, !.desired = v]
  BY DEF UpdateItem
<1>3. v \in BOOLEAN
  BY <1>1
<1> HIDE DEF v
<1>4. row' \in Rows /\ row'.item = v /\ row'.desired = v
  BY <1>1, <1>2, <1>3 DEF Rows
<1>5. /\ edits < MaxEdits /\ edits' = edits + 1 /\ pass' = pass
      /\ \A p \in Passes : pass[p].own = NoRow
      /\ UNCHANGED <<stored, server, copies, condstore, changes, failures, overlaps>>
  BY DEF UpdateItem
<1>6. CountersType' /\ edits' # 0
  BY <1>5, MailFlagsAssumption DEF TypeOK, CountersType
<1>7. RowsType' /\ ServerType' /\ PassesType'
  BY <1>4, <1>5 DEF TypeOK, RowsType, ServerType, PassesType
<1> QED
  BY <1>3, <1>4, <1>5, <1>6, <1>7, MailFlagsAssumption DEF TypeOK

LEMMA ChangeStep ==
  ASSUME TypeOK, NEW f \in Folders, OtherClient(f)
  PROVE  TypeOK' /\ pass' = pass /\ row' = row /\ edits' = edits /\ changes' # changes
<1> DEFINE v == ~server[f].flag
<1>1. v \in BOOLEAN
  OBVIOUS
<1>2. SetServer(f, v)
  BY DEF OtherClient
<1> HIDE DEF v
<1>3. server' \in [Folders -> [flag : BOOLEAN, seq : Nat]]
  BY <1>1, <1>2, ServerStep DEF TypeOK
<1>4. /\ changes < MaxChanges /\ changes' = changes + 1
      /\ UNCHANGED <<row, stored, copies, condstore, pass, edits, failures, overlaps>>
  BY DEF OtherClient
<1>5. CountersType' /\ changes' # changes
  BY <1>4, MailFlagsAssumption DEF TypeOK, CountersType
<1> QED
  BY <1>3, <1>4, <1>5 DEF TypeOK, RowsType, ServerType, PassesType

-----------------------------------------------------------------------------
\* What the invariant says of one pass.
PassInv(p) ==
  /\ pass[p].own # NoRow => pass[p].own.desired = pass[p].own.item /\ pass[p].own.desired # Null
  /\ pass[p].pc \in {"write", "confirm"} => pass[p].value # Null /\ View(p).desired # Null
  /\ edits = 0 => /\ pass[p].own # NoRow => ~Pending(pass[p].own)
                  /\ pass[p].pc \notin {"write", "confirm"}

RowInv ==
  /\ row.desired \in {row.item, Null}
  /\ row.desired = Null => row.current = Null
  /\ edits = 0 => ~Pending(row)

LEMMA Parts == IndInv <=> TypeOK /\ RowInv /\ (\A p \in Passes : PassInv(p))
BY DEF IndInv, ItemShowsDesired, DesireIsKnown, NothingToWrite, PassInv, RowInv

LEMMA PartsAfter == TypeOK' /\ RowInv' /\ (\A p \in Passes : PassInv(p)') => IndInv'
BY DEF IndInv, ItemShowsDesired, DesireIsKnown, NothingToWrite, PassInv, RowInv

\* What a pass sees of the row satisfies what the invariant says of the row.
LEMMA ViewInv ==
  ASSUME RowInv, NEW p \in Passes, PassInv(p)
  PROVE  /\ View(p).desired \in {View(p).item, Null}
         /\ View(p).desired = Null => View(p).current = Null
         /\ edits = 0 => ~Pending(View(p))
         /\ row.desired # Null => View(p).desired # Null
BY DEF RowInv, PassInv, View

LEMMA Observing ==
  ASSUME NEW r \in Rows, NEW v \in BOOLEAN,
         r.desired \in {r.item, Null}, r.desired = Null => r.current = Null
  PROVE  LET o == RecordObserved(r, v)
         IN  /\ o.desired = o.item /\ o.desired # Null
             /\ ~Pending(r) => ~Pending(o)
BY MailFlagsAssumption DEF Rows, RecordObserved, Pending

LEMMA RowStep ==
  ASSUME IndInv, NEW p \in Passes, Start(p) \/ PassStep(p) \/ Fail(p)
  PROVE  RowInv' /\ (row.desired # Null => row'.desired # Null)
<1>1. TypeOK /\ RowInv /\ PassInv(p)
  BY Parts
<1>2. edits' = edits /\ (row' = row \/ row' = View(p))
  BY <1>1, CommittedRow
<1> QED
  BY <1>1, <1>2, ViewInv DEF RowInv, Pending

\* A pass that does not move keeps its part of the invariant.
LEMMA OtherPasses ==
  ASSUME NEW q \in Passes, PassInv(q), pass'[q] = pass[q], edits' = edits,
         row.desired # Null => row'.desired # Null
  PROVE  PassInv(q)'
BY DEF PassInv, View, Pending

LEMMA MovingPass ==
  ASSUME IndInv, NEW p \in Passes, Start(p) \/ PassStep(p) \/ Fail(p)
  PROVE  PassInv(p)'
<1>1. TypeOK /\ RowInv /\ PassInv(p)
  BY Parts
<1>2. PassEffect(p)
  BY <1>1, StepEffect
<1>3. edits' = edits /\ (row.desired # Null => row'.desired # Null)
  BY <1>1, CommittedRow, RowStep
<1>4. View(p) \in Rows
  BY <1>1, ViewType
<1>5. View(p).desired # Null /\ pass'[p].own = pass[p].own => View(p)'.desired # Null
  BY <1>3 DEF View
<1>6. CASE pass'[p].own = NoRow /\ pass'[p].pc \in {"idle", "select"}
  BY <1>6 DEF PassInv
<1>7. CASE pass'[p].own = pass[p].own /\ pass'[p].pc \notin {"write", "confirm"}
  BY <1>1, <1>3, <1>7 DEF PassInv, Pending
<1>8. CASE /\ pass[p].seen \in BOOLEAN
           /\ pass'[p].own = RecordObserved(View(p), pass[p].seen)
           /\ pass'[p].pc \notin {"write", "confirm"}
  <2> DEFINE o == RecordObserved(View(p), pass[p].seen)
  <2>1. /\ o.desired = o.item /\ o.desired # Null
        /\ ~Pending(View(p)) => ~Pending(o)
    BY <1>1, <1>4, <1>8, ViewInv, Observing
  <2>2. edits = 0 => ~Pending(View(p))
    BY <1>1, ViewInv
  <2>3. pass'[p].own = o
    BY <1>8
  <2> HIDE DEF o
  <2> QED
    BY <1>3, <1>8, <2>1, <2>2, <2>3 DEF PassInv, Pending
<1>9. CASE /\ Pending(View(p))
           /\ pass'[p].own = pass[p].own
           /\ pass'[p].value = View(p).desired
  <2>1. edits # 0 /\ View(p).desired # Null
    BY <1>1, <1>9, ViewInv DEF Pending
  <2> QED
    BY <1>1, <1>3, <1>5, <1>9, <2>1 DEF PassInv, Pending
<1>10. CASE /\ pass[p].pc = "write"
            /\ pass'[p].own = pass[p].own
            /\ pass'[p].value = pass[p].value
  BY <1>1, <1>3, <1>5, <1>10 DEF PassInv, Pending
<1>11. CASE /\ pass[p].pc = "confirm"
            /\ pass'[p].own = [View(p) EXCEPT !.current = pass[p].value]
            /\ pass'[p].pc \notin {"write", "confirm"}
  <2>1. edits # 0 /\ View(p).desired # Null /\ View(p).desired = View(p).item
    BY <1>1, <1>11, ViewInv DEF PassInv
  <2>2. pass'[p].own.desired = View(p).desired /\ pass'[p].own.item = View(p).item
    BY <1>4, <1>11 DEF Rows
  <2> QED
    BY <1>3, <1>11, <2>1, <2>2 DEF PassInv
<1> QED
  BY <1>2, <1>6, <1>7, <1>8, <1>9, <1>10, <1>11 DEF PassEffect

LEMMA PassPreserves ==
  ASSUME IndInv, NEW p \in Passes, Start(p) \/ PassStep(p) \/ Fail(p)
  PROVE  IndInv'
<1>1. TypeOK /\ (\A q \in Passes : PassInv(q)) /\ DesireIsKnown
  BY Parts DEF IndInv
<1>2. PassEffect(p) /\ edits' = edits /\ row' \in Rows
  BY <1>1, StepEffect, CommittedRow
<1>3. TypeOK'
  BY <1>1, <1>2, StoredAndServer DEF TypeOK, RowsType, PassEffect
<1>4. RowInv' /\ (row.desired # Null => row'.desired # Null)
  BY RowStep
<1>5. ASSUME NEW q \in Passes PROVE PassInv(q)'
  <2>1. CASE q = p
    BY <2>1, MovingPass
  <2>2. CASE q # p
    <3>1. pass'[q] = pass[q]
      BY <1>2, <2>2 DEF PassEffect
    <3> QED
      BY <1>1, <1>2, <1>4, <3>1, OtherPasses
  <2> QED
    BY <2>1, <2>2
<1>6. \A q \in Passes : PassInv(q)'
  BY <1>5
<1> QED
  BY <1>3, <1>4, <1>6, PartsAfter

LEMMA StepInv ==
  ASSUME IndInv, [Next]_vars
  PROVE  IndInv'
<1>0. TypeOK /\ RowInv /\ (\A p \in Passes : PassInv(p))
  BY Parts
<1>1. CASE UpdateItem
  <2>1. /\ TypeOK' /\ pass' = pass /\ edits' # 0
        /\ row'.desired = row'.item /\ row'.desired # Null
        /\ \A p \in Passes : pass[p].own = NoRow
    BY <1>0, <1>1, EditStep
  <2>2. RowInv'
    BY <2>1 DEF RowInv
  <2>3. \A p \in Passes : PassInv(p)'
    BY <1>0, <2>1 DEF PassInv, View
  <2> QED
    BY <2>1, <2>2, <2>3, PartsAfter
<1>2. ASSUME NEW f \in Folders, OtherClient(f) PROVE IndInv'
  <2>1. TypeOK' /\ pass' = pass /\ row' = row /\ edits' = edits
    BY <1>0, <1>2, ChangeStep
  <2>2. RowInv' /\ (\A p \in Passes : PassInv(p)')
    BY <1>0, <2>1 DEF RowInv, PassInv, View, Pending
  <2> QED
    BY <2>1, <2>2, PartsAfter
<1>3. ASSUME NEW p \in Passes, Start(p) \/ PassStep(p) \/ Fail(p) PROVE IndInv'
  BY <1>3, PassPreserves
<1>4. CASE UNCHANGED vars
  <2>1. TypeOK'
    BY <1>0, <1>4 DEF vars, counters, TypeOK, RowsType, ServerType, PassesType, CountersType
  <2>2. RowInv' /\ (\A p \in Passes : PassInv(p)')
    BY <1>0, <1>4 DEF vars, counters, RowInv, PassInv, View, Pending
  <2> QED
    BY <2>1, <2>2, PartsAfter
<1> QED
  BY <1>1, <1>2, <1>3, <1>4 DEF Next

LEMMA InitInv == Init => IndInv
<1> SUFFICES ASSUME Init PROVE IndInv
  OBVIOUS
<1>1. TypeOK
  BY TypeInit
<1>2. RowInv
  <2>1. PICK known \in {FALSE, Null} : row = [item |-> FALSE, desired |-> known, current |-> known]
    BY DEF Init
  <2>2. row.item = FALSE /\ row.desired = known /\ row.current = known
    BY <2>1
  <2> QED
    BY <2>2 DEF RowInv, Pending
<1>3. \A p \in Passes : PassInv(p)
  BY IdleType DEF Init, PassInv
<1> QED
  BY <1>1, <1>2, <1>3, Parts

(* Types, and the invariant the results rest on. *)
THEOREM Invariance == Spec => []IndInv
<1>1. IndInv /\ [Next]_vars => IndInv'
  BY StepInv
<1> QED
  BY InitInv, <1>1, PTL DEF Spec

(* The item shows what its state row desires (updateItemWithClient's hook  *)
(* and applyObservedMailMessageFlags), for any number of folders, copies   *)
(* and overlapping passes.                                                 *)
THEOREM ItemShows == Spec => []ItemShowsDesired
<1>1. IndInv => ItemShowsDesired
  BY DEF IndInv
<1> QED
  BY Invariance, <1>1, PTL

(* Reconciling never writes to the provider what it observed there         *)
(* (drainImapFlagWriteback takes only pending rows).                       *)
THEOREM NoEchoes == Spec => NoEcho
<1>1. ASSUME IndInv, [Next]_vars
      PROVE  [edits = 0 /\ server' # server => changes' # changes]_vars
  <2> SUFFICES ASSUME Next, edits = 0, server' # server PROVE changes' # changes
    BY <1>1
  <2>0. TypeOK /\ (\A p \in Passes : PassInv(p))
    BY <1>1, Parts
  <2>1. CASE UpdateItem
    BY <2>1 DEF UpdateItem
  <2>2. ASSUME NEW f \in Folders, OtherClient(f) PROVE changes' # changes
    BY <2>0, <2>2, ChangeStep
  <2>3. ASSUME NEW p \in Passes, Start(p) \/ PassStep(p) \/ Fail(p) PROVE FALSE
    <3>1. pass[p].pc # "write"
      BY <2>0 DEF PassInv
    <3> QED
      BY <2>3, <3>1 DEF Start, PassStep, SelectFolder, EnsureMailFolderSyncState,
        FetchFlagsChangedSince, ApplyObservedMailMessageFlags, RecordReconcile,
        ListPendingImapFlagWrites, SetMessageFlag, RecordConfirmedMailMessageFlag,
        Commit, Deadlock, Fail
  <2> QED
    BY <2>1, <2>2, <2>3 DEF Next
<1> QED
  BY Invariance, <1>1, PTL DEF Spec, NoEcho

-----------------------------------------------------------------------------
(* One pass at a time: what the provider has follows the row. *)

LEMMA PcAfterMove ==
  ASSUME TypeOK, NEW p \in Passes, NEW pc \in Pcs, NEW u \in PassStates, Move(p, pc, u)
  PROVE  /\ pass'[p].pc = pc /\ pass'[p].own = u.own /\ pass'[p].value = u.value
         /\ pass'[p].seen = u.seen /\ pass'[p].writes = u.writes
         /\ \A q \in Passes \ {p} : pass'[q] = pass[q]
BY DEF TypeOK, PassesType, PassStates, Move

\* What a step of the one running pass must establish.
Follows(p) ==
  /\ pass'[p].pc # "idle" =>
       /\ \A f \in copies : server'[f].flag = OnProvider(p, f)'
       /\ pass'[p].pc = "apply" => pass'[p].seen \in {Known(View(p)'), Null}
  /\ pass'[p].pc = "idle" => \A f \in copies : server'[f].flag = Known(row')

\* The pass under way, alone, starts from what the provider has and ends with it.
LEMMA PassFollows ==
  ASSUME IndInv, NEW p \in Passes, CopiesAreKnown,
         \A q \in Passes \ {p} : pass[q].pc = "idle",
         Start(p) \/ PassStep(p)
  PROVE  Follows(p)
<1>0. /\ TypeOK /\ DesireIsKnown /\ pass[p] \in PassStates /\ View(p) \in Rows
      /\ copies \subseteq Folders /\ row \in Rows
  BY ViewType, MailFlagsAssumption DEF IndInv, TypeOK, PassesType, RowsType, ServerType
<1>a. pass[p].pc # "idle" =>
        /\ \A f \in copies : server[f].flag = OnProvider(p, f)
        /\ pass[p].pc = "apply" => pass[p].seen \in {Known(View(p)), Null}
  BY DEF CopiesAreKnown
<1>1. CASE Start(p)
  <2>1. /\ Move(p, "select", Idle) /\ UNCHANGED <<row, server, copies>>
        /\ Quiet
    BY <1>1 DEF Start, Quiet
  <2>2. pass'[p].pc = "select" /\ pass'[p].own = NoRow
    BY <1>0, <2>1, PcAfterMove, IdleType DEF Pcs
  <2>3. View(p)' = row
    BY <2>1, <2>2 DEF View
  <2>4. \A f \in copies : server[f].flag = Known(row)
    BY <2>1 DEF CopiesAreKnown
  <2> QED
    BY <2>1, <2>2, <2>3, <2>4 DEF Follows, OnProvider
<1>2. CASE \/ SelectFolder(p) \/ EnsureMailFolderSyncState(p) \/ FetchFlagsChangedSince(p)
           \/ RecordReconcile(p)
  <2>1. /\ pass[p].pc \in {"select", "state", "fetch", "record"}
        /\ UNCHANGED <<row, server, copies>>
    BY <1>2 DEF SelectFolder, EnsureMailFolderSyncState, FetchFlagsChangedSince, RecordReconcile
  <2>2. /\ pass'[p].pc \in {"select", "state", "fetch", "apply", "list"}
        /\ pass'[p].own = pass[p].own
        /\ pass'[p].pc = "apply" => pass'[p].seen \in {Null} \cup {server[f].flag : f \in copies}
    <3>1. CASE SelectFolder(p)
      <4> DEFINE u == [pass[p] EXCEPT !.sel = server[pass[p].f].seq]
      <4>1. u \in PassStates /\ u.own = pass[p].own
        BY <1>0 DEF PassStates, TypeOK, ServerType
      <4>2. Move(p, "state", u)
        BY <3>1 DEF SelectFolder
      <4> HIDE DEF u
      <4> QED
        BY <1>0, <4>1, <4>2, PcAfterMove DEF Pcs
    <3>2. CASE EnsureMailFolderSyncState(p)
      <4> DEFINE u == [pass[p] EXCEPT !.since = IF condstore THEN stored[pass[p].f] ELSE Null]
      <4>1. u \in PassStates /\ u.own = pass[p].own
        BY <1>0 DEF PassStates, TypeOK, RowsType
      <4>2. Move(p, "fetch", u)
        BY <3>2 DEF EnsureMailFolderSyncState
      <4> HIDE DEF u
      <4> QED
        BY <1>0, <4>1, <4>2, PcAfterMove DEF Pcs
    <3>3. CASE FetchFlagsChangedSince(p)
      <4>1. PICK v \in {Null} \cup {server[f].flag : f \in copies} :
              Move(p, "apply", [pass[p] EXCEPT !.seen = v])
        BY <3>3 DEF FetchFlagsChangedSince
      <4>2. v \in BOOLEAN \cup {Null}
        BY <1>0 DEF TypeOK, ServerType
      <4> DEFINE u == [pass[p] EXCEPT !.seen = v]
      <4>3. u \in PassStates /\ u.own = pass[p].own /\ u.seen = v
        BY <1>0, <4>2 DEF PassStates
      <4>4. Move(p, "apply", u)
        BY <4>1
      <4> HIDE DEF u
      <4> QED
        BY <1>0, <4>1, <4>3, <4>4, PcAfterMove DEF Pcs
    <3>4. CASE RecordReconcile(p)
      <4> DEFINE u == [pass[p] EXCEPT !.recorded[pass[p].f] = pass[p].sel]
                 w == [u EXCEPT !.f = @ + 1]
      <4>1. u \in PassStates /\ u.own = pass[p].own /\ u.f = pass[p].f
        BY <1>0 DEF PassStates
      <4>2. pass[p].f # NumFolders => w \in PassStates /\ w.own = u.own
        <5>1. pass[p].f \in Folders /\ NumFolders \in Nat
          BY <1>0, MailFlagsAssumption DEF PassStates
        <5>2. pass[p].f # NumFolders => pass[p].f + 1 \in Folders
          BY <5>1 DEF Folders
        <5> HIDE DEF u
        <5> QED
          BY <4>1, <5>2 DEF PassStates
      <4>3. IF pass[p].f = NumFolders THEN Move(p, "list", u) ELSE Move(p, "select", w)
        BY <3>4 DEF RecordReconcile
      <4> HIDE DEF u, w
      <4> QED
        BY <1>0, <4>1, <4>2, <4>3, PcAfterMove DEF Pcs
    <3> QED
      BY <1>2, <3>1, <3>2, <3>3, <3>4
  <2>3. View(p)' = View(p)
    BY <2>1, <2>2 DEF View
  <2>4. \A f \in copies : server[f].flag = Known(View(p))
    BY <1>a, <2>1 DEF OnProvider
  <2> QED
    BY <2>1, <2>2, <2>3, <2>4 DEF Follows, OnProvider
<1>3. CASE ApplyObservedMailMessageFlags(p)
  <2>1. pass[p].pc = "apply" /\ UNCHANGED <<row, server, copies>>
    BY <1>3 DEF ApplyObservedMailMessageFlags
  <2>2. \A f \in copies : server[f].flag = Known(View(p))
    BY <1>a, <2>1 DEF OnProvider
  <2>3. Known(View(p)') = Known(View(p)) /\ pass'[p].pc = "record"
    <3>1. CASE pass[p].seen = Null
      <4>1. Move(p, "record", pass[p])
        BY <1>3, <3>1 DEF ApplyObservedMailMessageFlags
      <4>2. pass'[p].pc = "record" /\ pass'[p].own = pass[p].own
        BY <1>0, <4>1, PcAfterMove DEF Pcs
      <4> QED
        BY <2>1, <4>2 DEF View
    <3>2. CASE pass[p].seen # Null
      <4> DEFINE o == RecordObserved(View(p), pass[p].seen)
                 u == [pass[p] EXCEPT !.own = o]
      <4>1. pass[p].seen \in BOOLEAN /\ pass[p].seen = Known(View(p))
        BY <1>0, <1>a, <2>1, <3>2 DEF PassStates
      <4>2. o \in Rows /\ o.current = pass[p].seen
        BY <1>0, <4>1, ObservedType DEF RecordObserved
      <4>3. Known(o) = Known(View(p))
        BY <4>1, <4>2, MailFlagsAssumption DEF Known
      <4>4. o # NoRow
        BY <4>2, MailFlagsAssumption
      <4>5. Move(p, "record", u)
        BY <1>3, <3>2 DEF ApplyObservedMailMessageFlags
      <4> HIDE DEF o
      <4>6. u \in PassStates /\ u.own = o
        BY <1>0, <4>2 DEF PassStates
      <4> HIDE DEF u
      <4>7. pass'[p].pc = "record" /\ pass'[p].own = o
        BY <1>0, <4>5, <4>6, PcAfterMove DEF Pcs
      <4> QED
        BY <4>3, <4>4, <4>7 DEF View
    <3> QED
      BY <3>1, <3>2
  <2> QED
    BY <2>1, <2>2, <2>3 DEF Follows, OnProvider
<1>4. CASE ListPendingImapFlagWrites(p)
  <2>1. pass[p].pc = "list" /\ UNCHANGED <<row, server, copies>>
    BY <1>4 DEF ListPendingImapFlagWrites
  <2>2. \A f \in copies : server[f].flag = Known(View(p))
    BY <1>a, <2>1 DEF OnProvider
  <2>3. /\ pass'[p].own = pass[p].own
        /\ pass'[p].pc = "commit" \/ (pass'[p].pc = "write" /\ pass'[p].writes = copies)
    <3>1. CASE Move(p, "commit", pass[p])
      BY <1>0, <3>1, PcAfterMove DEF Pcs
    <3>2. CASE Move(p, "write", [pass[p] EXCEPT !.writes = copies, !.value = View(p).desired])
      <4> DEFINE u == [pass[p] EXCEPT !.writes = copies, !.value = View(p).desired]
      <4>1. u \in PassStates /\ u.own = pass[p].own /\ u.writes = copies
        BY <1>0 DEF PassStates, Rows
      <4>2. Move(p, "write", u)
        BY <3>2
      <4> HIDE DEF u
      <4> QED
        BY <1>0, <4>1, <4>2, PcAfterMove DEF Pcs
    <3> QED
      BY <1>4, <3>1, <3>2 DEF ListPendingImapFlagWrites
  <2>4. View(p)' = View(p)
    BY <2>1, <2>3 DEF View
  <2> QED
    BY <2>1, <2>2, <2>3, <2>4 DEF Follows, OnProvider
<1>5. ASSUME NEW g \in Folders, SetMessageFlag(p, g) PROVE Follows(p)
  <2>1. /\ pass[p].pc = "write" /\ g \in pass[p].writes
        /\ SetServer(g, pass[p].value) /\ UNCHANGED <<row, copies>>
    BY <1>5 DEF SetMessageFlag
  <2>2. \A f \in copies : server'[f].flag = IF f = g THEN pass[p].value ELSE server[f].flag
    BY <1>0, <2>1 DEF SetServer, TypeOK, ServerType
  <2> DEFINE u == [pass[p] EXCEPT !.writes = @ \ {g}]
  <2>3. u \in PassStates /\ u.own = pass[p].own /\ u.value = pass[p].value /\ u.writes = pass[p].writes \ {g}
    BY <1>0 DEF PassStates
  <2>4. Move(p, IF pass[p].writes = {g} THEN "confirm" ELSE "write", u)
    BY <1>5 DEF SetMessageFlag
  <2> HIDE DEF u
  <2>5. /\ pass'[p].pc = IF pass[p].writes = {g} THEN "confirm" ELSE "write"
        /\ pass'[p].own = pass[p].own /\ pass'[p].value = pass[p].value
        /\ pass'[p].writes = pass[p].writes \ {g}
    BY <1>0, <2>3, <2>4, PcAfterMove DEF Pcs
  <2>6. View(p)' = View(p)
    BY <2>1, <2>5 DEF View
  <2>7. \A f \in copies : server[f].flag = IF f \in pass[p].writes THEN Known(View(p)) ELSE pass[p].value
    BY <1>a, <2>1 DEF OnProvider
  <2>8. \A f \in copies : server'[f].flag = OnProvider(p, f)'
    BY <2>1, <2>2, <2>5, <2>6, <2>7 DEF OnProvider
  <2> QED
    BY <2>1, <2>5, <2>8 DEF Follows
<1>6. CASE RecordConfirmedMailMessageFlag(p)
  <2>1. pass[p].pc = "confirm" /\ UNCHANGED <<row, server, copies>>
    BY <1>6 DEF RecordConfirmedMailMessageFlag
  <2>2. \A f \in copies : server[f].flag = pass[p].value
    BY <1>a, <2>1 DEF OnProvider
  <2> DEFINE o == [View(p) EXCEPT !.current = pass[p].value]
             u == [pass[p] EXCEPT !.own = o]
  <2>3. o \in Rows /\ o # NoRow /\ o.current = pass[p].value
    BY <1>0, MailFlagsAssumption DEF PassStates, Rows
  <2>4. Move(p, "commit", u)
    BY <1>6 DEF RecordConfirmedMailMessageFlag
  <2> HIDE DEF o
  <2>5. u \in PassStates /\ u.own = o
    BY <1>0, <2>3 DEF PassStates
  <2> HIDE DEF u
  <2>6. pass'[p].pc = "commit" /\ pass'[p].own = o
    BY <1>0, <2>4, <2>5, PcAfterMove DEF Pcs
  <2>7. pass[p].value # Null
    BY <2>1 DEF DesireIsKnown, IndInv
  <2>8. Known(View(p)') = pass[p].value
    BY <2>3, <2>6, <2>7 DEF View, Known
  <2> QED
    BY <2>1, <2>2, <2>6, <2>8 DEF Follows, OnProvider
<1>7. CASE Commit(p)
  <2>1. pass'[p] = Idle
    BY <1>0, <1>7 DEF Commit, TypeOK, PassesType
  <2>2. row' = View(p) /\ UNCHANGED <<server, copies>> /\ pass[p].pc = "commit"
    BY <1>7 DEF Commit
  <2> QED
    BY <1>a, <2>1, <2>2, IdleType DEF Follows, OnProvider
<1>8. ~Deadlock(p)
  BY DEF Deadlock, WaitsFor
<1> QED
  BY <1>1, <1>2, <1>3, <1>4, <1>5, <1>6, <1>7, <1>8 DEF PassStep
\* While one pass runs at a time and none fails, every step keeps the copies known.
LEMMA FollowsStep ==
  ASSUME IndInv, CopiesFollow, [Next]_vars
  PROVE  CopiesFollow'
<1> SUFFICES ASSUME failures' = 0, overlaps' = 0
             PROVE  OnePass' /\ (changes' = 0 => CopiesAreKnown')
  BY DEF CopiesFollow
<1>0. /\ TypeOK /\ PassesType /\ row \in Rows
      /\ failures \in Nat /\ overlaps \in Nat /\ changes \in Nat
  BY DEF IndInv, TypeOK, RowsType, CountersType
<1>1. CASE UpdateItem
  <2>1. /\ UNCHANGED <<server, copies, pass, changes, failures, overlaps>>
        /\ \A p \in Passes : pass[p].own = NoRow
        /\ row' = [row EXCEPT !.item = ~row.item, !.desired = ~row.item]
    BY <1>1 DEF UpdateItem
  <2>2. Known(row') = Known(row)
    BY <1>0, <2>1 DEF Rows, Known
  <2>3. \A p \in Passes : View(p)' = row' /\ View(p) = row
    BY <2>1 DEF View
  <2>4. OnePass /\ OnePass' /\ (changes = 0 => CopiesAreKnown)
    BY <2>1 DEF CopiesFollow, OnePass
  <2>5. ASSUME changes' = 0 PROVE CopiesAreKnown'
    BY <2>1, <2>2, <2>3, <2>4, <2>5 DEF CopiesAreKnown, OnProvider, Quiet
  <2> QED
    BY <2>4, <2>5
<1>2. ASSUME NEW f \in Folders, OtherClient(f)
      PROVE  OnePass' /\ (changes' = 0 => CopiesAreKnown')
  <2>1. UNCHANGED <<pass, failures, overlaps>> /\ changes' = changes + 1
    BY <1>2 DEF OtherClient
  <2> QED
    BY <1>0, <2>1 DEF CopiesFollow, OnePass
<1>3. ASSUME NEW p \in Passes, Start(p) \/ PassStep(p)
      PROVE  OnePass' /\ (changes' = 0 => CopiesAreKnown')
  <2>1. UNCHANGED <<failures, changes, copies>>
    BY <1>3 DEF Start, PassStep, SelectFolder, EnsureMailFolderSyncState, FetchFlagsChangedSince,
      ApplyObservedMailMessageFlags, RecordReconcile, ListPendingImapFlagWrites, SetMessageFlag,
      RecordConfirmedMailMessageFlag, Commit, Deadlock, counters
  <2>2. /\ overlaps = 0
        /\ pass[p].pc # "idle" \/ Quiet
    <3>1. CASE Start(p)
      BY <1>0, <3>1 DEF Start, Quiet
    <3>2. CASE PassStep(p)
      BY <3>2 DEF PassStep, SelectFolder, EnsureMailFolderSyncState, FetchFlagsChangedSince,
        ApplyObservedMailMessageFlags, RecordReconcile, ListPendingImapFlagWrites, SetMessageFlag,
        RecordConfirmedMailMessageFlag, Commit, Deadlock, WaitsFor, counters
    <3> QED
      BY <1>3, <3>1, <3>2
  <2>3. OnePass /\ (changes = 0 => CopiesAreKnown)
    BY <2>1, <2>2 DEF CopiesFollow
  <2>4. \A q \in Passes \ {p} : pass[q].pc = "idle" /\ pass'[q] = pass[q]
    BY <1>0, <1>3, <2>2, <2>3, StepEffect DEF PassEffect, OnePass, Quiet
  <2>5. OnePass'
    BY <2>4 DEF OnePass
  <2>6. ASSUME changes' = 0 PROVE CopiesAreKnown'
    <3>1. Follows(p)
      BY <1>3, <2>1, <2>3, <2>4, <2>6, PassFollows
    <3> QED
      BY <2>1, <2>4, <3>1 DEF Follows, CopiesAreKnown, Quiet
  <2> QED
    BY <2>5, <2>6
<1>4. ASSUME NEW p \in Passes, Fail(p) PROVE FALSE
  BY <1>0, <1>4 DEF Fail
<1>5. CASE UNCHANGED vars
  BY <1>5 DEF vars, counters, CopiesFollow, CopiesAreKnown, OnePass, OnProvider, Quiet, View
<1> QED
  BY <1>1, <1>2, <1>3, <1>4, <1>5 DEF Next

LEMMA FollowsInit == Init => CopiesFollow
<1> SUFFICES ASSUME Init PROVE OnePass /\ CopiesAreKnown
  BY DEF CopiesFollow
<1>1. Quiet
  BY IdleType DEF Init, Quiet
<1>2. row.current \in {FALSE, Null}
  <2>1. PICK known \in {FALSE, Null} : row = [item |-> FALSE, desired |-> known, current |-> known]
    BY DEF Init
  <2> QED
    BY <2>1
<1>3. \A f \in copies : server[f].flag = FALSE
  BY MailFlagsAssumption DEF Init
<1>4. Known(row) = FALSE
  BY <1>2 DEF Known
<1> QED
  BY <1>1, <1>3, <1>4 DEF OnePass, CopiesAreKnown, Quiet

(* While no pass fails and none starts beside another, a row that is no    *)
(* longer pending stands for what every copy at the provider has: an edit  *)
(* between any two steps of drainImapFlagWriteback is neither lost nor     *)
(* confirmed unwritten, for any number of folders and copies.              *)
THEOREM EditsReachCopies == Spec => []EditsReachEveryCopy
<1>1. IndInv /\ CopiesFollow /\ [Next]_vars => CopiesFollow'
  BY FollowsStep
<1>2. CopiesFollow => EditsReachEveryCopy
  <2> SUFFICES ASSUME CopiesFollow, failures = 0, overlaps = 0, Quiet, changes = 0,
                      row.desired # Null, ~Pending(row), NEW f \in copies
               PROVE  server[f].flag = row.desired
    BY DEF EditsReachEveryCopy, WrittenEverywhere
  <2> QED
    BY DEF CopiesFollow, CopiesAreKnown, Pending, Known
<1> QED
  BY Invariance, FollowsInit, <1>1, <1>2, PTL DEF Spec
=============================================================================
