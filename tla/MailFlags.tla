----------------------------- MODULE MailFlags ------------------------------
(***************************************************************************)
(* One flag (read or flagged) of one IMAP message: the user's edits, the   *)
(* mail_message_flag_sync_state row that holds what the user desires and   *)
(* what the provider is known to have, and the reconcile passes that       *)
(* observe the provider, write the difference back and confirm it.         *)
(*                                                                         *)
(* A pass is one database transaction around many provider calls: what it  *)
(* writes in the database shows when it commits and is undone when it      *)
(* fails, what it wrote to the provider stays.  Passes of one account can  *)
(* overlap: a keyed enqueue while the job runs adds a second job.          *)
(***************************************************************************)
EXTENDS Naturals, FiniteSets

CONSTANTS
  NumFolders,     \* folders of the account, reconciled in order
  Passes,         \* workers that may run mailAccountSync for the account
  CopySets,       \* the sets of folders that may hold a copy of the message
  Null,           \* NULL, and: nothing was fetched
  NoRow,          \* the transaction has not locked the message's rows
  MaxEdits,       \* bound: edits of the flag in Semprec
  MaxChanges,     \* bound: changes by other clients of the provider
  MaxFailures,    \* bound: passes that fail
  MaxOverlaps     \* bound: passes that start beside a running one

Folders == 1 .. NumFolders

Rows == [item : BOOLEAN, desired : BOOLEAN \cup {Null}, current : BOOLEAN \cup {Null}]

ASSUME MailFlagsAssumption ==
  /\ NumFolders \in Nat \ {0}
  /\ CopySets \subseteq SUBSET Folders
  /\ Null \notin BOOLEAN /\ Null \notin Nat
  /\ NoRow \notin Rows
  /\ MaxEdits \in Nat /\ MaxChanges \in Nat /\ MaxFailures \in Nat /\ MaxOverlaps \in Nat

VARIABLES
  row,        \* the item's property, desired_state, current_state: committed
  stored,     \* mail_folder_sync_state.highestmodseq: committed
  server,     \* per folder: the flag of its copy and the folder's HIGHESTMODSEQ
  copies,     \* the folders that hold a copy of the message
  condstore,  \* the server's capability
  pass,       \* the passes
  edits, changes, failures, overlaps

counters == <<edits, changes, failures, overlaps>>
vars == <<row, stored, server, copies, condstore, pass, counters>>

Pcs == {"idle", "select", "state", "fetch", "apply", "record", "list", "write", "confirm", "commit"}

(* f: the folder at hand; sel: its HIGHESTMODSEQ when it was selected;     *)
(* since: the stored one; seen: the flag fetched; own: the message's rows  *)
(* as this transaction has them, and it holds their locks; recorded: the   *)
(* folder rows it has updated; writes, value: the write-back under way.    *)
Idle == [pc |-> "idle", f |-> 1, sel |-> 0, since |-> Null, seen |-> Null, own |-> NoRow,
         recorded |-> [f \in Folders |-> Null], writes |-> {}, value |-> Null]

PassStates ==
  [pc : Pcs, f : Folders, sel : Nat, since : Nat \cup {Null}, seen : BOOLEAN \cup {Null},
   own : Rows \cup {NoRow}, recorded : [Folders -> Nat \cup {Null}],
   writes : SUBSET Folders, value : BOOLEAN \cup {Null}]

PassesType == pass \in [Passes -> PassStates]
RowsType == row \in Rows /\ stored \in [Folders -> Nat]
ServerType ==
  /\ server \in [Folders -> [flag : BOOLEAN, seq : Nat]]
  /\ copies \in CopySets /\ condstore \in BOOLEAN
CountersType ==
  /\ edits \in 0 .. MaxEdits /\ changes \in 0 .. MaxChanges
  /\ failures \in 0 .. MaxFailures /\ overlaps \in 0 .. MaxOverlaps

TypeOK == RowsType /\ ServerType /\ PassesType /\ CountersType

-----------------------------------------------------------------------------
\* No state row (the message is older than the table) is a row of NULLs.
Pending(r) == r.current # r.desired

View(p) == IF pass[p].own = NoRow THEN row ELSE pass[p].own

\* The row locks: on the message's rows, and on a folder's.
RowFree(p) == \A q \in Passes \ {p} : pass[q].own = NoRow
FolderFree(p, f) == \A q \in Passes \ {p} : pass[q].recorded[f] = Null

Init ==
  /\ \E known \in {FALSE, Null} : row = [item |-> FALSE, desired |-> known, current |-> known]
  /\ stored = [f \in Folders |-> 0]
  /\ server = [f \in Folders |-> [flag |-> FALSE, seq |-> 0]]
  /\ copies \in CopySets
  /\ condstore \in BOOLEAN
  /\ pass = [p \in Passes |-> Idle]
  /\ edits = 0 /\ changes = 0 /\ failures = 0 /\ overlaps = 0

-----------------------------------------------------------------------------
(* Users. *)

\* A PATCH of the item locks it, writes it, and the hook upserts desired_state.
UpdateItem ==
  /\ edits < MaxEdits
  /\ \A p \in Passes : pass[p].own = NoRow
  /\ row' = [row EXCEPT !.item = ~row.item, !.desired = ~row.item]
  /\ edits' = edits + 1
  /\ UNCHANGED <<stored, server, copies, condstore, pass, changes, failures, overlaps>>

SetServer(f, v) ==
  server' = [server EXCEPT ![f] = IF @.flag = v THEN @ ELSE [flag |-> v, seq |-> @.seq + 1]]

OtherClient(f) ==
  /\ changes < MaxChanges
  /\ f \in copies
  /\ SetServer(f, ~server[f].flag)
  /\ changes' = changes + 1
  /\ UNCHANGED <<row, stored, copies, condstore, pass, edits, failures, overlaps>>

-----------------------------------------------------------------------------
(* A reconcile pass. *)

Move(p, pc, update) ==
  pass' = [pass EXCEPT ![p] = [update EXCEPT !.pc = pc]]

Start(p) ==
  /\ pass[p].pc = "idle"
  /\ IF \A q \in Passes : pass[q].pc = "idle"
     THEN UNCHANGED overlaps
     ELSE overlaps < MaxOverlaps /\ overlaps' = overlaps + 1
  /\ Move(p, "select", Idle)
  /\ UNCHANGED <<row, stored, server, copies, condstore, edits, changes, failures>>

SelectFolder(p) ==
  /\ pass[p].pc = "select"
  /\ Move(p, "state", [pass[p] EXCEPT !.sel = server[pass[p].f].seq])
  /\ UNCHANGED <<row, stored, server, copies, condstore, counters>>

\* sinceModSeq: only a server with CONDSTORE can be asked for the changes.
EnsureMailFolderSyncState(p) ==
  /\ pass[p].pc = "state"
  /\ Move(p, "fetch", [pass[p] EXCEPT !.since = IF condstore THEN stored[pass[p].f] ELSE Null])
  /\ UNCHANGED <<row, stored, server, copies, condstore, counters>>

FetchFlagsChangedSince(p) ==
  /\ pass[p].pc = "fetch"
  /\ LET f == pass[p].f
         changed == f \in copies /\ (pass[p].since = Null \/ server[f].seq > pass[p].since)
     IN Move(p, "apply", [pass[p] EXCEPT !.seen = IF changed THEN server[f].flag ELSE Null])
  /\ UNCHANGED <<row, stored, server, copies, condstore, counters>>

(* Mutant: the observation never becomes the desired state *)
ObservedKeepsDesired(r, v) ==
  [item |-> IF Pending(r) THEN r.item ELSE v, desired |-> r.desired, current |-> v]

\* A converged row follows the provider, a pending one keeps what the user desires.
RecordObserved(r, v) ==
  [item |-> IF Pending(r) THEN r.item ELSE v,
   desired |-> IF Pending(r) THEN r.desired ELSE v,
   current |-> v]

ApplyObservedMailMessageFlags(p) ==
  /\ pass[p].pc = "apply"
  /\ IF pass[p].seen = Null
     THEN Move(p, "record", pass[p])
     ELSE /\ RowFree(p)
          /\ Move(p, "record", [pass[p] EXCEPT !.own = RecordObserved(View(p), pass[p].seen)])
  /\ UNCHANGED <<row, stored, server, copies, condstore, counters>>

RecordReconcile(p) ==
  /\ pass[p].pc = "record"
  /\ FolderFree(p, pass[p].f)
  /\ LET done == [pass[p] EXCEPT !.recorded[pass[p].f] = pass[p].sel]
     IN IF pass[p].f = NumFolders
        THEN Move(p, "list", done)
        ELSE Move(p, "select", [done EXCEPT !.f = @ + 1])
  /\ UNCHANGED <<row, stored, server, copies, condstore, counters>>

ListPendingImapFlagWrites(p) ==
  /\ pass[p].pc = "list"
  /\ IF Pending(View(p))
     THEN Move(p, "write", [pass[p] EXCEPT !.writes = copies, !.value = View(p).desired])
     ELSE Move(p, "commit", pass[p])
  /\ UNCHANGED <<row, stored, server, copies, condstore, counters>>

SetMessageFlag(p, f) ==
  /\ pass[p].pc = "write"
  /\ f \in pass[p].writes
  /\ SetServer(f, pass[p].value)
  /\ Move(p, IF pass[p].writes = {f} THEN "confirm" ELSE "write", [pass[p] EXCEPT !.writes = @ \ {f}])
  /\ UNCHANGED <<row, stored, copies, condstore, counters>>

(* Mutant: the confirmation takes the row's desired state for what was written *)
ConfirmDesired(p) ==
  /\ pass[p].pc = "confirm"
  /\ RowFree(p)
  /\ Move(p, "commit", [pass[p] EXCEPT !.own = [View(p) EXCEPT !.current = View(p).desired]])
  /\ UNCHANGED <<row, stored, server, copies, condstore, counters>>

RecordConfirmedMailMessageFlag(p) ==
  /\ pass[p].pc = "confirm"
  /\ RowFree(p)
  /\ Move(p, "commit", [pass[p] EXCEPT !.own = [View(p) EXCEPT !.current = pass[p].value]])
  /\ UNCHANGED <<row, stored, server, copies, condstore, counters>>

Commit(p) ==
  /\ pass[p].pc = "commit"
  /\ row' = View(p)
  /\ stored' = [f \in Folders |-> IF pass[p].recorded[f] = Null THEN stored[f] ELSE pass[p].recorded[f]]
  /\ pass' = [pass EXCEPT ![p] = Idle]
  /\ UNCHANGED <<server, copies, condstore, counters>>

\* The provider or the database fails, or the worker dies: the transaction is undone.
Fail(p) ==
  /\ pass[p].pc # "idle"
  /\ failures < MaxFailures
  /\ failures' = failures + 1
  /\ pass' = [pass EXCEPT ![p] = Idle]
  /\ UNCHANGED <<row, stored, server, copies, condstore, edits, changes, overlaps>>

WaitsFor(p, q) ==
  \/ /\ pass[p].pc = "confirm" \/ (pass[p].pc = "apply" /\ pass[p].seen # Null)
     /\ pass[q].own # NoRow
  \/ pass[p].pc = "record" /\ pass[q].recorded[pass[p].f] # Null

\* PostgreSQL aborts one of two transactions that wait for each other.
Deadlock(p) ==
  /\ \E q \in Passes \ {p} : WaitsFor(p, q) /\ WaitsFor(q, p)
  /\ pass' = [pass EXCEPT ![p] = Idle]
  /\ UNCHANGED <<row, stored, server, copies, condstore, counters>>

PassStep(p) ==
  \/ SelectFolder(p) \/ EnsureMailFolderSyncState(p) \/ FetchFlagsChangedSince(p)
  \/ ApplyObservedMailMessageFlags(p) \/ RecordReconcile(p)
  \/ ListPendingImapFlagWrites(p) \/ (\E f \in Folders : SetMessageFlag(p, f))
  \/ RecordConfirmedMailMessageFlag(p) \/ Commit(p) \/ Deadlock(p)

Next ==
  \/ UpdateItem
  \/ \E f \in Folders : OtherClient(f)
  \/ \E p \in Passes : Start(p) \/ PassStep(p) \/ Fail(p)

Spec == Init /\ [][Next]_vars

(* The sweep enqueues a pass whenever the account is due, and a pass that  *)
(* runs goes on: each provider call has a timeout.                         *)
FairSpec ==
  /\ Spec
  /\ \A p \in Passes : WF_vars(PassStep(p))
  /\ WF_vars(\E p \in Passes : Start(p))

-----------------------------------------------------------------------------
(* Properties. *)

(* The item shows what the state row desires, committed and within a pass: *)
(* the pending test of applyObservedMailMessageFlags and the CASE of       *)
(* recordObservedMailMessageFlags agree ("the two calls agree regardless   *)
(* of ordering").                                                          *)
ItemShowsDesired ==
  /\ row.desired \in {row.item, Null}
  /\ \A p \in Passes : pass[p].own # NoRow => pass[p].own.desired = pass[p].own.item

Quiet == \A p \in Passes : pass[p].pc = "idle"

WrittenEverywhere ==
  Quiet /\ changes = 0 /\ row.desired # Null /\ ~Pending(row)
    => \A f \in copies : server[f].flag = row.desired

(* A row that is not pending has been written to every copy, however the   *)
(* user's edits fall between a pass's steps, unless passes failed or       *)
(* overlapped.                                                             *)
EditsReachEveryCopy ==
  failures = 0 /\ overlaps = 0 => WrittenEverywhere

(* An observation is never echoed: nothing is written to the provider      *)
(* before the user edits the flag in Semprec.                              *)
NoEcho ==
  [][edits = 0 /\ server' # server => changes' # changes]_vars

(* In the end, and from then on, no write is pending and the item and the  *)
(* provider's only copy agree: no change on either side is overlooked for  *)
(* ever, through failed and overlapping passes.                            *)
FlagsAgree ==
  /\ ~Pending(row)
  /\ Cardinality(copies) = 1 => \A f \in copies : server[f].flag = row.item

-----------------------------------------------------------------------------
(* The inductive invariant behind ItemShowsDesired and NoEcho.             *)

\* A row that was never written is not pending, and what is written is a flag.
DesireIsKnown ==
  /\ row.desired = Null => row.current = Null
  /\ \A p \in Passes :
       /\ pass[p].own # NoRow => pass[p].own.desired # Null
       /\ pass[p].pc \in {"write", "confirm"} => pass[p].value # Null /\ View(p).desired # Null

\* Before the first edit no version of the row is pending and no pass writes.
NothingToWrite ==
  edits = 0 =>
    /\ ~Pending(row)
    /\ \A p \in Passes :
         /\ pass[p].own # NoRow => ~Pending(pass[p].own)
         /\ pass[p].pc \notin {"write", "confirm"}

IndInv == TypeOK /\ ItemShowsDesired /\ DesireIsKnown /\ NothingToWrite

-----------------------------------------------------------------------------
(* The inductive invariant behind EditsReachEveryCopy: while one pass at a *)
(* time runs and none fails, every copy has the flag that the one pass     *)
(* under way, or the committed row, takes the provider to have.            *)

Known(r) == IF r.current = Null THEN FALSE ELSE r.current

\* What pass p takes folder f's copy to have: a copy it has written has its value.
OnProvider(p, f) ==
  IF pass[p].pc = "confirm" \/ (pass[p].pc = "write" /\ f \notin pass[p].writes)
  THEN pass[p].value
  ELSE Known(View(p))

OnePass == \A p, q \in Passes : pass[p].pc # "idle" /\ pass[q].pc # "idle" => p = q

CopiesAreKnown ==
  /\ Quiet => \A f \in copies : server[f].flag = Known(row)
  /\ \A p \in Passes : pass[p].pc # "idle" =>
       /\ \A f \in copies : server[f].flag = OnProvider(p, f)
       /\ pass[p].pc = "apply" => pass[p].seen \in {Known(View(p)), Null}

CopiesFollow ==
  failures = 0 /\ overlaps = 0 => OnePass /\ (changes = 0 => CopiesAreKnown)
=============================================================================
