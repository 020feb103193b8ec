------------------------------- MODULE Tasks --------------------------------
(***************************************************************************)
(* Tasks: the writes that keep their derived times and instances, and the  *)
(* dates their recurrence rules yield.                                     *)
(***************************************************************************)
EXTENDS Integers, Sequences, FiniteSets, FiniteSetsExt

-----------------------------------------------------------------------------
(***************************************************************************)
(* Updates of tasks (itemWrites.ts, updateItemWithClient) with their two   *)
(* transactional side effects: the display time derived from timeFrom and  *)
(* timeTo, and the advance of a recurring task when it is written as done  *)
(* (advanceTaskRecurrenceWithClient.ts).  Tasks 1 .. MaxTasks are the      *)
(* instances of one series, each created by the completion of another.     *)
(* Writers run one transaction each at a time; the task's row is locked    *)
(* from the first read that uses it to the commit.                         *)
(***************************************************************************)

CONSTANTS TaskWriters,  \* transactions open at the same time
          NoWriter,     \* no transaction
          MaxTasks,     \* bound: instances of the series
          MaxUpdates,   \* bound: updates begun
          LinkedItems   \* items the first instance is linked to

ASSUME TaskAssumption ==
  NoWriter \notin TaskWriters /\ MaxTasks \in Nat \ {0} /\ MaxUpdates \in Nat

VARIABLES
  task,       \* instance -> "none" or its committed properties and version
  recurring,  \* instance -> "none", "active" or "inactive"
  rowLock,    \* instance -> the writer that holds its row
  recLock,    \* instance -> the writer that holds its recurrence rule
  utx,        \* writer -> its open transaction
  links,      \* committed edges <<instance, linked item>>
  trashedL,   \* linked items that are in the trash
  exclusive,  \* the relation allows a linked item one task only
  updates     \* updates begun (bounds the model)

taskVars == <<task, recurring, rowLock, recLock, utx, links, trashedL, exclusive, updates>>

Tasks     == 1 .. MaxTasks
TaskTimes     == {"none", "t1"}
NoneTask  == [status |-> "none", from |-> "none", to |-> "none", time |-> <<"none", "none">>, version |-> 0]
Patches   == {[field |-> f, value |-> v] : f \in {"from", "to"}, v \in TaskTimes}
               \cup {[field |-> "status", value |-> v] : v \in {"notDone", "done"}}
NoUtx     == [step |-> "idle", t |-> 0, patch |-> [field |-> "status", value |-> "done"],
              if |-> 0, time |-> <<"none", "none">>, next |-> 0]
Exists2(t) == task[t].status # "none"
LinksOf(t) == {l \in LinkedItems : <<t, l>> \in links}
Timed(p)   == p.field \in {"from", "to"}

\* deriveTaskTime: shows the two ends, whichever are set.
DeriveTaskTime(from, to) == <<from, to>>
Patched(t, p) == DeriveTaskTime(IF p.field = "from" THEN p.value ELSE task[t].from,
                                IF p.field = "to" THEN p.value ELSE task[t].to)

Step(w, s) == utx' = [utx EXCEPT ![w] = s]

\* A PATCH of one property, with the version its client holds or none.
BeginUpdate(w, t, p, v) ==
  /\ utx[w].step = "idle" /\ updates < MaxUpdates /\ Exists2(t)
  /\ v \in {0, task[t].version}
  /\ Step(w, [NoUtx EXCEPT !.step = IF Timed(p) THEN "derive" ELSE "write",
                           !.t = t, !.patch = p, !.if = v])
  /\ updates' = updates + 1
  /\ UNCHANGED <<task, recurring, rowLock, recLock, links, trashedL, exclusive>>

MayLock(w, t) == rowLock[t] \in {NoWriter, w}

\* A patch of timeFrom or timeTo locks the row and derives time from both.
Derive(w) ==
  LET t == utx[w].t IN
  /\ utx[w].step = "derive" /\ MayLock(w, t)
  /\ rowLock' = [rowLock EXCEPT ![t] = w]
  /\ Step(w, [utx[w] EXCEPT !.step = "write", !.time = Patched(t, utx[w].patch)])
  /\ UNCHANGED <<task, recurring, recLock, links, trashedL, exclusive, updates>>

Release(w) == /\ rowLock' = [t \in Tasks |-> IF rowLock[t] = w THEN NoWriter ELSE rowLock[t]]
              /\ recLock' = [t \in Tasks |-> IF recLock[t] = w THEN NoWriter ELSE recLock[t]]

Rollback(w) == /\ Step(w, NoUtx) /\ Release(w)
               /\ UNCHANGED <<task, recurring, links, trashedL, exclusive, updates>>

\* updateItemProperties: the row is locked and its version compared.
UpdateItemProperties(w) ==
  LET u == utx[w] IN
  /\ u.step = "write" /\ MayLock(w, u.t)
  /\ u.if \in {0, task[u.t].version}
  /\ rowLock' = [rowLock EXCEPT ![u.t] = w]
  /\ Step(w, [u EXCEPT !.step = IF u.patch.value = "done" THEN "recurrence" ELSE "commit"])
  /\ UNCHANGED <<task, recurring, recLock, links, trashedL, exclusive, updates>>

VersionConflict(w) ==
  LET u == utx[w] IN
  u.step = "write" /\ MayLock(w, u.t) /\ u.if \notin {0, task[u.t].version} /\ Rollback(w)

\* getTaskRecurrence, locked: only an active rule has a next instance.
GetTaskRecurrence(w) ==
  LET u == utx[w] IN
  /\ u.step = "recurrence" /\ recLock[u.t] = NoWriter
  /\ \/ /\ recurring[u.t] = "active"
        /\ \E n \in Tasks :
             /\ ~Exists2(n) /\ \A m \in Tasks : m < n => Exists2(m) \/ \E v \in TaskWriters : utx[v].next = m
             /\ \A v \in TaskWriters : utx[v].next # n
             /\ Step(w, [u EXCEPT !.step = "commit", !.next = n])
        /\ recLock' = [recLock EXCEPT ![u.t] = w]
     \/ /\ recurring[u.t] # "active"
        /\ Step(w, [u EXCEPT !.step = "commit"]) /\ UNCHANGED recLock
  /\ UNCHANGED <<task, recurring, rowLock, links, trashedL, exclusive, updates>>

\* copyRelationEdges: to the counterparts that are not in the trash; with an
\* exclusive relation the first of them rejects the whole transaction.
CopiedEdges(t) == LinksOf(t) \ trashedL
CopyRejected(w) == utx[w].next # 0 /\ exclusive /\ CopiedEdges(utx[w].t) # {}

Written(w) ==
  LET u == utx[w]
      old == task[u.t] IN
  [old EXCEPT !.version = @ + 1,
              !.status = IF u.patch.field = "status" THEN u.patch.value ELSE @,
              !.from = IF u.patch.field = "from" THEN u.patch.value ELSE @,
              !.to = IF u.patch.field = "to" THEN u.patch.value ELSE @,
              !.time = IF Timed(u.patch) THEN u.time ELSE @]

\* The done write, the next instance with its rule and edges, and the old
\* rule's end commit together.
CommitUpdate(w) ==
  LET u == utx[w] IN
  /\ u.step = "commit" /\ ~CopyRejected(w)
  /\ task' = [i \in Tasks |-> CASE i = u.t -> Written(w)
                                [] i = u.next -> [task[u.t] EXCEPT !.status = "notDone", !.version = 1]
                                [] OTHER -> task[i]]
  /\ recurring' = IF u.next = 0 THEN recurring
                  ELSE [recurring EXCEPT ![u.next] = "active", ![u.t] = "inactive"]
  /\ links' = links \cup {<<u.next, l>> : l \in IF u.next = 0 THEN {} ELSE CopiedEdges(u.t)}
  /\ Step(w, NoUtx) /\ Release(w)
  /\ UNCHANGED <<trashedL, exclusive, updates>>

CopyFails(w) == utx[w].step = "commit" /\ CopyRejected(w) /\ Rollback(w)

\* A hook rejects the write, or the connection is lost.
UpdateFails(w) == utx[w].step # "idle" /\ Rollback(w)

TrashLinked(l) ==
  /\ updates < MaxUpdates /\ updates' = updates + 1
  /\ trashedL' = IF l \in trashedL THEN trashedL \ {l} ELSE trashedL \cup {l}
  /\ UNCHANGED <<task, recurring, rowLock, recLock, utx, links, exclusive>>

TaskInit ==
  /\ task = [t \in Tasks |-> IF t = 1 THEN [NoneTask EXCEPT !.status = "notDone", !.version = 1] ELSE NoneTask]
  /\ recurring = [t \in Tasks |-> IF t = 1 THEN "active" ELSE "none"]
  /\ rowLock = [t \in Tasks |-> NoWriter] /\ recLock = [t \in Tasks |-> NoWriter]
  /\ utx = [w \in TaskWriters |-> NoUtx]
  /\ links = {<<1, l>> : l \in LinkedItems}
  /\ trashedL = {} /\ exclusive \in BOOLEAN /\ updates = 0

TaskNext ==
  \/ \E w \in TaskWriters :
       \/ \E t \in Tasks, p \in Patches, v \in 0 .. (MaxUpdates + 1) : BeginUpdate(w, t, p, v)
       \/ Derive(w) \/ UpdateItemProperties(w) \/ VersionConflict(w) \/ GetTaskRecurrence(w)
       \/ CommitUpdate(w) \/ CopyFails(w) \/ UpdateFails(w)
  \/ \E l \in LinkedItems : TrashLinked(l)

TaskSpec == TaskInit /\ [][TaskNext]_taskVars

----------------------------------------------------------------------------
TaskTypeOK ==
  /\ recurring \in [Tasks -> {"none", "active", "inactive"}]
  /\ rowLock \in [Tasks -> TaskWriters \cup {NoWriter}]
  /\ links \subseteq Tasks \X LinkedItems
  /\ \A w \in TaskWriters : utx[w].step \in {"idle", "derive", "write", "recurrence", "commit"}

\* Completions at the same time leave the series with exactly one instance
\* that can advance it: never two, and never none.
OneActiveInstance == Cardinality({t \in Tasks : recurring[t] = "active"}) = 1

\* The display time is the one of both ends, although a patch brings one.
TimeIsDerived == \A t \in Tasks : Exists2(t) => task[t].time = DeriveTaskTime(task[t].from, task[t].to)

\* A write that named a version was made on that version.
NoLostUpdate ==
  [][\A w \in TaskWriters : utx[w].step = "commit" /\ utx[w].if # 0 /\ task' # task =>
       \/ utx'[w] = utx[w] \/ task[utx[w].t].version = utx[w].if]_taskVars

-----------------------------------------------------------------------------
(***************************************************************************)
(* computeNextDueDate (tasks/nextDueDate.ts): the due date of a recurring  *)
(* task's next instance.  Dates are day numbers of a calendar with its own *)
(* week and months.  A behaviour is a series of instances, each completed  *)
(* some days after it came to be; its rule may be any the schema accepts   *)
(* (tasks/taskRecurrenceRule.ts), also one that no day satisfies.          *)
(***************************************************************************)

CONSTANTS WeekDays,     \* days of a week
          MonthLengths, \* days of each month of the calendar
          YearMonths,   \* months of a year (12)
          SweepDays,    \* days the monthDates sweep looks at (366)
          SweepMonths,  \* months the nthWeekday sweep looks at beyond the first (12)
          Ordinals,     \* bound: ordinals of a weekday a rule asks for (any but 0)
          LastCompletion, \* bound: the day of the latest completion
          NoDate        \* the error thrown after a sweep

ASSUME DueAssumption ==
  /\ {WeekDays, YearMonths} \subseteq Nat \ {0} /\ {SweepDays, SweepMonths} \subseteq Nat
  /\ Ordinals \subseteq Nat \ {0}
  /\ MonthLengths \in Seq(Nat \ {0}) /\ NoDate \notin Int

VARIABLES dueRule, \* the series' rule
          day,     \* the day the last instance was completed
          due      \* the due date computed then

dueVars == <<dueRule, day, due>>

----------------------------------------------------------------------------
(* The calendar. *)

Months == DOMAIN MonthLengths
MonthStart[m \in Months] == IF m = 1 THEN 0 ELSE MonthStart[m - 1] + MonthLengths[m - 1]
MonthEnd(m) == MonthStart[m] + MonthLengths[m] - 1
MonthOf(d) == CHOOSE m \in Months : MonthStart[m] <= d /\ d <= MonthEnd(m)
MonthNumber(m) == (m - 1) % YearMonths
DateOf(d) == d - MonthStart[MonthOf(d)] + 1
WeekdayOf(d) == d % WeekDays
Longest == Max({MonthLengths[m] : m \in Months})

DueRules ==
  [kind : {"weekdays"}, days : SUBSET (0 .. WeekDays - 1) \ {{}}]
  \cup [kind : {"monthDates"}, dates : {{a, b} : a, b \in 1 .. Longest}]
  \cup [kind : {"nthWeekday"}, n : Ordinals \cup {-n : n \in Ordinals}, weekday : 0 .. WeekDays - 1]
  \cup [kind : {"floating"}, unit : {"days", "weeks", "months"}, n : {1, 2}]

----------------------------------------------------------------------------
\* The n-th weekday of a month, from its first day or back from its last.
NthWeekdayOfMonth(m, weekday, n) ==
  IF n > 0 THEN MonthStart[m] + ((weekday - WeekdayOf(MonthStart[m])) % WeekDays) + WeekDays * (n - 1)
           ELSE MonthEnd(m) - ((WeekdayOf(MonthEnd(m)) - weekday) % WeekDays) + WeekDays * (n + 1)

Earliest(candidates) == IF candidates = {} THEN NoDate ELSE Min(candidates)

\* A candidate must fall in a month of the same number, of whichever year:
\* an ordinal of more weeks than a year has passes with the wrong year.
NthWeekday(rule, reference) ==
  LET Candidate(m) == NthWeekdayOfMonth(m, rule.weekday, rule.n)
      swept == Months \cap MonthOf(reference) .. MonthOf(reference) + SweepMonths
  IN  Earliest({Candidate(m) : m \in {m \in swept :
                  /\ Candidate(m) > reference
                  /\ MonthNumber(MonthOf(Candidate(m))) = MonthNumber(m)}})

Weekdays(rule, reference) ==
  Earliest({d \in reference + 1 .. reference + WeekDays : WeekdayOf(d) \in rule.days})

MonthDates(rule, reference) ==
  Earliest({d \in reference + 1 .. reference + SweepDays : DateOf(d) \in rule.dates})

\* DateTime.plus: a month that is too short ends the date on its last day.
PlusMonths(reference, n) ==
  LET m == MonthOf(reference) + n IN
  MonthStart[m] + Min({DateOf(reference), MonthLengths[m]}) - 1

NextFloatingDate(rule, reference) ==
  CASE rule.unit = "days"   -> reference + rule.n
    [] rule.unit = "weeks"  -> reference + WeekDays * rule.n
    [] rule.unit = "months" -> PlusMonths(reference, rule.n)

ComputeNextDueDate(rule, reference) ==
  CASE rule.kind = "weekdays"   -> Weekdays(rule, reference)
    [] rule.kind = "monthDates" -> MonthDates(rule, reference)
    [] rule.kind = "nthWeekday" -> NthWeekday(rule, reference)
    [] rule.kind = "floating"   -> NextFloatingDate(rule, reference)

----------------------------------------------------------------------------
DueInit == /\ dueRule \in DueRules /\ day \in 0 .. MonthLengths[1] - 1
           /\ due = ComputeNextDueDate(dueRule, day)

\* The instance is completed on a later day, before or after it was due; a
\* rule without a next date fails the completion.
CompleteOn(d) == /\ due # NoDate /\ d > day /\ d <= LastCompletion
                 /\ day' = d /\ due' = ComputeNextDueDate(dueRule, d) /\ UNCHANGED dueRule

DueNext == \E d \in 1 .. LastCompletion : CompleteOn(d)
DueSpec == DueInit /\ [][DueNext]_dueVars

----------------------------------------------------------------------------
DueTypeOK == dueRule \in DueRules /\ due \in Int \cup {NoDate}

\* What a rule asks of a day, said of the day alone.
Same(d) == {e \in MonthStart[MonthOf(d)] .. MonthEnd(MonthOf(d)) : WeekdayOf(e) = WeekdayOf(d)}
Satisfies(d, rule) ==
  CASE rule.kind = "weekdays"   -> WeekdayOf(d) \in rule.days
    [] rule.kind = "monthDates" -> DateOf(d) \in rule.dates
    [] rule.kind = "nthWeekday" ->
         /\ WeekdayOf(d) = rule.weekday
         /\ IF rule.n > 0 THEN Cardinality({e \in Same(d) : e <= d}) = rule.n
                          ELSE Cardinality({e \in Same(d) : e >= d}) = -rule.n
    [] OTHER -> FALSE

\* Some month may have so many of a weekday; the schema accepts any ordinal.
OrdinalOfAMonth(n) == Longest >= WeekDays * ((IF n > 0 THEN n ELSE -n) - 1) + 1

\* A fixed rule's due date is a later day, and the first after the completion
\* that satisfies the rule: none is skipped, none is given twice. An ordinal
\* that no month has is excepted: it may be given the date of another year.
DueIsFirst ==
  dueRule.kind # "floating" /\ due # NoDate =>
    /\ due > day
    /\ dueRule.kind # "nthWeekday" \/ OrdinalOfAMonth(dueRule.n) =>
         /\ Satisfies(due, dueRule)
         /\ \A d \in day + 1 .. due - 1 : ~Satisfies(d, dueRule)

\* Only an ordinal of a weekday that no month has leaves a task without a
\* next date (the schema accepts it, and the task cannot be completed).
NoDateMeansNone ==
  due = NoDate => /\ dueRule.kind = "nthWeekday"
                  /\ \A d \in day + 1 .. MonthEnd(Len(MonthLengths)) : ~Satisfies(d, dueRule)
=============================================================================
