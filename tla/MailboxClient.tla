--------------------------- MODULE MailboxClient ----------------------------
(***************************************************************************)
(* The mailbox in the web client: the message list with its optimistic     *)
(* actions, and composing a message.                                       *)
(***************************************************************************)
EXTENDS Naturals, FiniteSets

-----------------------------------------------------------------------------
(***************************************************************************)
(* The mailbox of the web client (web/src/views/mailbox): the list of one  *)
(* folder and the triage actions that move messages out of it, over a      *)
(* server that answers each call when it likes.                            *)
(*                                                                         *)
(* What is on screen is the last read of the folder, or an overlay that    *)
(* completed triage actions leave on top of it until the list is read      *)
(* again.  An action goes on in the folder it was started in, whatever the *)
(* user opens meanwhile, and two actions may overlap.                      *)
(*                                                                         *)
(* Out of the model: flags and unread counts (the same overlay), layout    *)
(* and focus.  The compose window is modelled below.                       *)
(***************************************************************************)

CONSTANTS
  ListedMails, Inbox, Archive, Trash,
  Actions,        \* triage actions that may overlap
  Nothing,
  MaxTriages,     \* bound: actions the user starts
  MaxOpened,      \* bound: folders the user opens, and refreshes
  MaxViewFaults   \* bound: calls that fail, or whose answer is lost

Folders == {Inbox, Archive, Trash}

ASSUME MailboxViewAssumption ==
  /\ Cardinality(Folders) = 3 /\ Nothing \notin ListedMails \cup Folders
  /\ {MaxTriages, MaxOpened, MaxViewFaults} \subseteq Nat

VARIABLES
  inFolder,  \* server: the folders each message is linked to
  folder,    \* the folder on screen
  list,      \* the read of it, and its answer
  overlay,   \* the list completed actions left on top of it, or Nothing
  selected,  \* the messages ticked
  triage,    \* the triage actions
  crossed,   \* messages two opposite moves worked on at once
  outdated,  \* an action that began over an older read has put its list on screen
  untold,    \* messages whose move the screen missed: a lost answer, or a read it overtook
  triages, opened, viewFaults

vVars == <<inFolder, folder, list, overlay, selected, triage, crossed, outdated, untold,
           triages, opened, viewFaults>>

Rest == [is |-> "rest", from |-> Inbox, to |-> Inbox, left |-> {}, at |-> Nothing,
         done |-> {}, failed |-> {}, loaded |-> {}, fresh |-> TRUE]

VInit ==
  /\ inFolder = [m \in ListedMails |-> {Inbox}] /\ folder = Inbox
  /\ list = [is |-> "ready", val |-> ListedMails] /\ overlay = Nothing
  /\ selected = {} /\ triage = [a \in Actions |-> Rest]
  /\ crossed = {} /\ outdated = FALSE /\ untold = {}
  /\ triages = 0 /\ opened = 0 /\ viewFaults = 0

FolderContents(f) == {m \in ListedMails : f \in inFolder[m]}
Shown == IF overlay = Nothing THEN list.val ELSE overlay
Running(a) == triage[a].is # "rest"
TriageHandles(a, m) == Running(a) /\ m \in triage[a].left \cup triage[a].done \cup triage[a].failed
Handled(m) == \E a \in Actions : TriageHandles(a, m)
ViewFault == viewFaults < MaxViewFaults /\ viewFaults' = viewFaults + 1

----------------------------------------------------------------------------
(* Reading a folder.                                                       *)

\* useAsyncResource starts over; an earlier read's answer is dropped, and with the
\* resource the overlay.
Reads ==
  /\ list' = [is |-> "loading", val |-> {}]
  /\ overlay' = Nothing
  /\ triage' = [a \in Actions |-> [triage[a] EXCEPT !.fresh = FALSE]]

SelectFolder(f) ==
  /\ f # folder /\ opened < MaxOpened
  /\ folder' = f /\ opened' = opened + 1
  /\ selected' = {} /\ outdated' = FALSE
  /\ Reads
  /\ UNCHANGED <<inFolder, crossed, untold, triages, viewFaults>>

ServerLists ==
  /\ list.is = "loading"
  /\ list' = [is |-> "answered", val |-> FolderContents(folder)]
  /\ UNCHANGED <<inFolder, folder, overlay, selected, triage, crossed, outdated, untold,
                 triages, opened, viewFaults>>

\* The answer may be older than an action that has finished since.
ListArrives ==
  /\ list.is = "answered"
  /\ list' = [list EXCEPT !.is = "ready"]
  /\ overlay' = Nothing
  /\ untold' = untold \cup {m \in list.val \ FolderContents(folder) : ~Handled(m)}
  /\ UNCHANGED <<inFolder, folder, selected, triage, crossed, outdated,
                 triages, opened, viewFaults>>

ListFails ==
  /\ list.is = "loading" /\ ViewFault
  /\ list' = [list EXCEPT !.is = "failed"]
  /\ UNCHANGED <<inFolder, folder, overlay, selected, triage, crossed, outdated, untold,
                 triages, opened>>

Retry ==
  /\ list.is = "failed"
  /\ Reads
  /\ UNCHANGED <<inFolder, folder, selected, crossed, outdated, untold, triages, opened, viewFaults>>

----------------------------------------------------------------------------
(* Triage.                                                                 *)

\* Bound: a message is ticked while an action may still begin.
ToggleSelected(m) ==
  /\ list.is = "ready" /\ m \in Shown /\ triages < MaxTriages
  /\ selected' = IF m \in selected THEN selected \ {m} ELSE selected \cup {m}
  /\ UNCHANGED <<inFolder, folder, list, overlay, triage, crossed, outdated, untold,
                 triages, opened, viewFaults>>

\* folderByPurpose: the archive and the trash, never the folder being read.
MoveTargets == {Archive, Trash} \ {folder}

Opposite(a, ms, to) ==
  {m \in ms : \E b \in Actions \ {a} : TriageHandles(b, m) /\ triage[b].to = folder /\ triage[b].from = to}

\* The actions are alike: the next one takes the first that is free.
FirstFree(a) == ~Running(a) /\ a = CHOOSE b \in Actions : ~Running(b)

Moves(a, ms, to) ==
  /\ FirstFree(a) /\ triages < MaxTriages
  /\ list.is = "ready" /\ ms # {} /\ to \in MoveTargets
  /\ triages' = triages + 1
  /\ triage' = [triage EXCEPT ![a] = [Rest EXCEPT !.is = "link", !.from = folder, !.to = to,
                                            !.left = ms, !.loaded = list.val]]
  /\ crossed' = crossed \cup Opposite(a, ms, to)
  /\ UNCHANGED <<inFolder, folder, list, overlay, selected, outdated, untold,
                 opened, viewFaults>>

ClickRow(a, m, to) == m \in Shown /\ Moves(a, {m}, to)
ClickToolbar(a, to) == Moves(a, selected, to)

\* perMessage: the messages one after the other; each is done or failed on its own.
Next1(a, m) == /\ triage[a].at \in {m, Nothing} /\ m \in triage[a].left
Advanced(a, m, ok) ==
  LET rest == triage[a].left \ {m} IN
  triage' = [triage EXCEPT ![a].left = rest, ![a].at = Nothing,
                     ![a].is = IF rest = {} THEN "over" ELSE "link",
                     ![a].done = IF ok THEN @ \cup {m} ELSE @,
                     ![a].failed = IF ok THEN @ ELSE @ \cup {m}]

\* The calls of one message as the server runs them, in this order.
LinkThenUnlink(a, m) ==
  \/ /\ triage[a].is = "link"
     /\ inFolder' = [inFolder EXCEPT ![m] = @ \cup {triage[a].to}]
     /\ triage' = [triage EXCEPT ![a].is = "unlink", ![a].at = m]
  \/ /\ triage[a].is = "unlink"
     /\ inFolder' = [inFolder EXCEPT ![m] = @ \ {triage[a].from}]
     /\ Advanced(a, m, TRUE)

MoveMessage(a, m) ==
  /\ Next1(a, m)
  /\ LinkThenUnlink(a, m)
  /\ UNCHANGED <<folder, list, overlay, selected, crossed, outdated, untold,
                 triages, opened, viewFaults>>

\* A refused call, or one whose answer is lost after the unlink took effect.
MoveFails(a, m) ==
  /\ Next1(a, m) /\ triage[a].is \in {"link", "unlink"} /\ ViewFault
  /\ Advanced(a, m, FALSE)
  /\ \/ UNCHANGED <<inFolder, untold>>
     \/ /\ triage[a].is = "unlink"
        /\ inFolder' = [inFolder EXCEPT ![m] = @ \ {triage[a].from}]
        /\ untold' = untold \cup {m}
  /\ UNCHANGED <<folder, list, overlay, selected, crossed, outdated, triages, opened>>

\* What succeeded leaves the list on screen, or, with no overlay yet, the list that was
\* on screen when the action began.
Applied(a) == (IF overlay = Nothing THEN triage[a].loaded ELSE overlay) \ triage[a].done

RunTriageEnds(a) ==
  /\ triage[a].is = "over"
  /\ overlay' = Applied(a)
  /\ outdated' = (outdated \/ (overlay = Nothing /\ ~triage[a].fresh))
  /\ selected' = selected \ triage[a].done
  /\ triage' = [triage EXCEPT ![a] = Rest]
  /\ UNCHANGED <<inFolder, folder, list, crossed, untold, triages, opened, viewFaults>>

(* A message that has been sent makes the client read again what is on screen. *)
RefreshAfterSend ==
  /\ opened < MaxOpened /\ opened' = opened + 1
  /\ Reads
  /\ UNCHANGED <<inFolder, folder, selected, crossed, outdated, untold, triages, viewFaults>>

----------------------------------------------------------------------------

ActionStep(a) ==
  \/ \E m \in ListedMails : MoveMessage(a, m)
  \/ RunTriageEnds(a)

VNext ==
  \/ \E f \in Folders : SelectFolder(f)
  \/ ServerLists \/ ListArrives \/ ListFails \/ Retry
  \/ \E m \in ListedMails : ToggleSelected(m)
  \/ \E a \in Actions : ActionStep(a)
  \/ \E a \in Actions, m \in ListedMails : MoveFails(a, m)
  \/ \E a \in Actions, to \in Folders :
       ClickToolbar(a, to) \/ \E m \in ListedMails : ClickRow(a, m, to)
  \/ RefreshAfterSend

VSpec == VInit /\ [][VNext]_vVars

----------------------------------------------------------------------------

VTypeOK ==
  /\ inFolder \in [ListedMails -> SUBSET Folders] /\ folder \in Folders
  /\ list \in [is : {"loading", "answered", "ready", "failed"}, val : SUBSET ListedMails]
  /\ overlay = Nothing \/ overlay \subseteq ListedMails
  /\ {selected, crossed, untold} \subseteq SUBSET ListedMails /\ outdated \in BOOLEAN
  /\ triage \in [Actions -> [is : {"rest", "link", "unlink", "over"}, from : Folders, to : Folders,
                          left : SUBSET ListedMails, at : ListedMails \cup {Nothing}, done : SUBSET ListedMails,
                          failed : SUBSET ListedMails, loaded : SUBSET ListedMails, fresh : BOOLEAN]]

\* A move that fails half-way leaves the message in both folders, never in none
\* (moveMessages), unless two opposite moves of it overlapped.
NeverInNoFolder == \A m \in ListedMails \ crossed : inFolder[m] # {}

\* A message an action moved away is gone from the screen once the action is over, however
\* many actions overlapped: each sees what the others already applied (runTriage).
MovedIsGone ==
  list.is = "ready" /\ ~outdated =>
    \A m \in Shown : folder \in inFolder[m] \/ Handled(m) \/ m \in untold

\* The toolbar only ever acts on messages that are on screen (selectFolder's comment).
SelectionIsShown ==
  list.is = "ready" /\ ~outdated =>
    \A m \in selected : m \in Shown \/ Handled(m) \/ m \in untold

-----------------------------------------------------------------------------
(***************************************************************************)
(* The replies of the web client's mailbox (web/src/views/mailbox:         *)
(* compose.ts, ComposeWindow.tsx and the compose state of MailboxClient):  *)
(* what is typed under each message, the draft it may have been saved as,  *)
(* and the two calls that save and send it, either of which may fail, or   *)
(* take effect and lose its answer, while the user reads another message.  *)
(* The floating window is one more surface of the same kind.               *)
(*                                                                         *)
(* Out of the model: addresses, the From default, minimizing, and the      *)
(* server's side of a send (MailSend).                                     *)
(***************************************************************************)

CONSTANTS
  Surfaces,          \* the compose surfaces: one per message being answered
  MaxComposeFaults,  \* bound: calls that fail, or whose answer is lost
  MaxTyping,         \* bound: versions of a text
  MaxDrafts          \* bound: drafts created

ASSUME MailComposeAssumption == {MaxComposeFaults, MaxTyping, MaxDrafts} \subseteq Nat

VARIABLES
  drafts,   \* server: how many drafts have been created; a draft is its number
  mail,     \* server: the drafts accepted for delivery
  compose,  \* what each surface holds
  sending,  \* the state each surface submitted: a call is in flight for it
  typed,    \* the text the user last put there, and how often this reply has gone out
  shown,    \* the message on screen
  composeFaults

composeVars == <<drafts, mail, compose, sending, typed, shown, composeFaults>>

Modes == {"reply", "replyAll"}
SurfaceIdle == [for |-> "nothing", text |-> 0, mode |-> "reply", id |-> 0]

ComposeInit ==
  /\ drafts = 0 /\ mail = {} /\ composeFaults = 0
  /\ compose = [s \in Surfaces |-> [is |-> "closed", text |-> 0, mode |-> "reply", id |-> 0]]
  /\ sending = [s \in Surfaces |-> SurfaceIdle]
  /\ typed = [s \in Surfaces |-> [text |-> 0, sent |-> 0]]
  /\ shown = CHOOSE s \in Surfaces : TRUE

ComposeFault == composeFaults < MaxComposeFaults /\ composeFaults' = composeFaults + 1
OpenSurface(s) == compose[s].is # "closed"

----------------------------------------------------------------------------
(* The user.                                                               *)

OpenMessage(s) ==
  /\ shown # s /\ shown' = s
  /\ UNCHANGED <<drafts, mail, compose, sending, typed, composeFaults>>

\* Reply, or Reply to all: a new reply, or a change of who the present one goes to.  The
\* buttons stay enabled while a call is in flight.
StartReply(s, mode) ==
  /\ shown = s /\ (OpenSurface(s) => compose[s].mode # mode)
  /\ compose' = [compose EXCEPT ![s] =
       IF OpenSurface(s) THEN [@ EXCEPT !.mode = mode] ELSE [is |-> "editing", text |-> 0, mode |-> mode, id |-> 0]]
  /\ typed' = IF OpenSurface(s) THEN typed ELSE [typed EXCEPT ![s] = [text |-> 0, sent |-> 0]]
  /\ UNCHANGED <<drafts, mail, sending, shown, composeFaults>>

\* The fields are disabled while a save or a send is in flight.
Type(s) ==
  /\ shown = s /\ compose[s].is = "editing" /\ typed[s].text < MaxTyping
  /\ compose' = [compose EXCEPT ![s].text = @ + 1]
  /\ typed' = [typed EXCEPT ![s].text = compose[s].text + 1]
  /\ UNCHANGED <<drafts, mail, sending, shown, composeFaults>>

Submits(s, what) ==
  /\ compose' = [compose EXCEPT ![s].is = what]
  /\ sending' = [sending EXCEPT ![s] = [for |-> what, text |-> compose[s].text,
                                        mode |-> compose[s].mode, id |-> compose[s].id]]
  /\ UNCHANGED <<drafts, mail, typed, shown, composeFaults>>

\* One draft per surface: a saved one is not saved again.
SaveDraft(s) == shown = s /\ compose[s].is = "editing" /\ compose[s].id = 0 /\ Submits(s, "saving")
SendMail(s) == shown = s /\ compose[s].is = "editing" /\ Submits(s, "sending")

Close(s) ==
  /\ shown = s /\ compose[s].is = "editing"
  /\ compose' = [compose EXCEPT ![s].is = "closed"]
  /\ UNCHANGED <<drafts, mail, sending, typed, shown, composeFaults>>

----------------------------------------------------------------------------
(* A call and its answer.                                                  *)

\* applyReply(messageId): the surface the call was made from.
ToItsOwn(s) == s

\* runCompose puts back the state that was submitted, with the draft it now knows; a reply
\* that is sent leaves its surface.
Result(s, is, id) ==
  /\ compose' = [compose EXCEPT ![ToItsOwn(s)] =
                   [is |-> is, text |-> sending[s].text, mode |-> sending[s].mode, id |-> id]]
  /\ sending' = [sending EXCEPT ![s] = SurfaceIdle]

\* email.draft.create, for a save or as the first half of a send.
CreateMailDraft(s) ==
  /\ sending[s].for # "nothing" /\ sending[s].id = 0 /\ drafts < MaxDrafts
  /\ drafts' = drafts + 1
  /\ \/ /\ sending[s].for = "saving" /\ Result(s, "editing", drafts + 1)
        /\ UNCHANGED composeFaults
     \/ /\ sending[s].for = "sending"
        /\ sending' = [sending EXCEPT ![s].id = drafts + 1]
        /\ UNCHANGED <<compose, composeFaults>>
     \/ ComposeFault /\ Result(s, "editing", 0)
  /\ UNCHANGED <<mail, typed, shown>>

DraftRefused(s) ==
  /\ sending[s].for # "nothing" /\ sending[s].id = 0 /\ ComposeFault
  /\ Result(s, "editing", 0)
  /\ UNCHANGED <<drafts, mail, typed, shown>>

\* The draft a failed send leaves in its surface.
KeptDraft(s) == sending[s].id

\* email.send: the server accepts a draft once (MailSend).
Accepted(id) == id \in mail

SendDraft(s) ==
  /\ sending[s].id # 0 /\ ~Accepted(sending[s].id)
  /\ mail' = mail \cup {sending[s].id}
  /\ typed' = [typed EXCEPT ![s].sent = @ + 1]
  /\ \/ Result(s, "closed", sending[s].id) /\ UNCHANGED composeFaults
     \/ ComposeFault /\ Result(s, "editing", KeptDraft(s))
  /\ UNCHANGED <<drafts, shown>>

\* Refused, for the draft has been sent already or for another reason.
SendRefused(s) ==
  /\ sending[s].id # 0
  /\ \/ Accepted(sending[s].id) /\ UNCHANGED composeFaults
     \/ ~Accepted(sending[s].id) /\ ComposeFault
  /\ Result(s, "editing", KeptDraft(s))
  /\ UNCHANGED <<drafts, mail, typed, shown>>

ComposeNext ==
  \E s \in Surfaces :
    \/ OpenMessage(s) \/ Type(s) \/ SaveDraft(s) \/ SendMail(s) \/ Close(s)
    \/ \E mode \in Modes : StartReply(s, mode)
    \/ CreateMailDraft(s) \/ DraftRefused(s) \/ SendDraft(s) \/ SendRefused(s)

ComposeSpec == ComposeInit /\ [][ComposeNext]_composeVars

----------------------------------------------------------------------------

ComposeTypeOK ==
  /\ drafts \in 0..MaxDrafts /\ mail \subseteq 1..drafts
  /\ compose \in [Surfaces -> [is : {"closed", "editing", "saving", "sending"}, text : 0..MaxTyping,
                               mode : Modes, id : 0..drafts]]
  /\ sending \in [Surfaces -> [for : {"nothing", "saving", "sending"}, text : 0..MaxTyping,
                               mode : Modes, id : 0..drafts]]
  /\ typed \in [Surfaces -> [text : 0..MaxTyping, sent : Nat]]
  /\ shown \in Surfaces

\* What a surface holds is what was last typed into it, through every save and send that
\* failed and every message read meanwhile (ComposeWindow's and MailboxPanes' comments).
TypedIsKept == \A s \in Surfaces : OpenSurface(s) => compose[s].text = typed[s].text

\* A reply goes out at most once, however often it is saved and sent: a retry after a lost
\* answer names the draft of the first try, which the server accepts once (sendCompose).
RepliesGoOutOnce == \A s \in Surfaces : typed[s].sent <= 1
=============================================================================
