----------------------------- MODULE Timetables -----------------------------
(***************************************************************************)
(* The weekly grids of one attendance group and the class sessions         *)
(* published from them (admin/timetables/timetables.service.ts,            *)
(* admin/sessions/session-seeder.service.ts).                              *)
(*                                                                         *)
(* A template has periods in an order, some of them breaks, and cells that *)
(* hold a class for a run of periods.  Publishing wipes the group's        *)
(* scheduled sessions of the chosen days and seeds them anew; it is one    *)
(* transaction of several statements.  Placing a class reads the periods   *)
(* before its transaction.  The days are those of one week, so a weekday   *)
(* is a date, and the days of the semester are a constant.  A class stands *)
(* for subject and teacher, a row for what it seeds: one per cohort of an  *)
(* elective, none for a course of the timetable's own.                     *)
(*                                                                         *)
(* What teachers do to sessions is one step each here: AttendanceMarking   *)
(* has the detail.                                                         *)
(***************************************************************************)
EXTENDS Integers, Sequences, FiniteSets, Functions, SequencesExt

CONSTANTS Templates, Days, Semester, Classes, Rows,
          Periods,     \* the rows of timetable_periods a template ever has
          FirstPeriods, FirstGrids, \* the cells of a template at the start
          RowsOf,      \* what a class seeds
          Electives,   \* the rows that are cohorts of an elective
          Handlers,    \* requests at a time
          MaxCalls,    \* bound: requests in all
          MaxNoise     \* bound: how many kinds of disturbance in one behaviour

Cell == [class : Classes, span : 1 .. Cardinality(Periods)]

\* A class seeds one row, or one for each cohort of an elective (expandEntry).
ASSUME TimetableAssumption ==
  /\ Semester \subseteq Days /\ IsFiniteSet(Periods)
  /\ FirstPeriods \in Seq(Periods) /\ IsInjective(FirstPeriods)
  /\ \A cells \in FirstGrids : /\ cells \in [DOMAIN cells -> Cell]
                               /\ DOMAIN cells \subseteq Days \X ToSet(FirstPeriods)
  /\ Electives \subseteq Rows /\ RowsOf \in [Classes -> SUBSET Rows]
  /\ \A class \in Classes : \A r, s \in RowsOf[class] : r # s => {r, s} \subseteq Electives
  /\ MaxCalls \in Nat /\ MaxNoise \in Nat

VARIABLES grid,      \* timetables with their periods and entries
          sessions,  \* class_sessions of the group, by their unique key
          holidays,
          pc, job, calls,
          noise      \* history: what has happened that may double-book the week

timetableVars == <<grid, sessions, holidays, pc, job, calls, noise>>

\* Numbers of deleted rows never come back: `used' are a template's periods so far.
NoTemplate == [state |-> "none", periods |-> <<>>, used |-> {}, breaks |-> {}, days |-> {}, cells |-> <<>>]
Removed == [NoTemplate EXCEPT !.state = "removed"]
Fresh(periods, breaks, days, cells) ==
  [state |-> "live", periods |-> periods, used |-> ToSet(periods), breaks |-> breaks, days |-> days,
   cells |-> cells]
LiveTemplate(t) == grid[t].state = "live"
NoEntry == <<>>
NoJob == [op |-> "none"]

\* A key is a day, a template's period and a row; an entry a template's day and
\* period.
Keys == Days \X Templates \X Periods \X Rows
DayOf(k) == k[1]
SlotOf(k) == <<k[1], k[2], k[3]>>
RowOf(k) == k[4]
EntryOf(t, d, p) == <<t, d, p>>

Statuses == {"scheduled", "completed", "cancelled"}
Noises == {"orphaned", "switched", "adHoc", "moved", "reopened", "reshaped", "overlap"}

PartialFunctions(S, T) == UNION {[R -> T] : R \in SUBSET S}

Week == [state : {"none", "live", "removed"}, periods : Seq(Periods), used : SUBSET Periods,
         breaks : SUBSET Periods, days : SUBSET Days, cells : PartialFunctions(Days \X Periods, Cell)]
Session == [entry : {NoEntry} \cup (Templates \X Days \X Periods), status : Statuses,
            span : 1 .. Cardinality(Periods)]
Placing == [op : {"place"}, template : Templates, day : Days, period : Periods,
            periods : Seq(Periods), cell : Cell]
Publishing == [op : {"publish"}, template : Templates, asked : SUBSET Days, days : SUBSET Days,
               excluded : SUBSET Keys, wiped : SUBSET Keys, waits : SUBSET Keys]

GridTypeOK ==
  /\ grid \in [Templates -> Week]
  /\ \A t \in Templates : /\ IsInjective(grid[t].periods)
                         /\ DOMAIN grid[t].cells \subseteq Days \X ToSet(grid[t].periods)

\* A session lies in a period its template has; its entry, if any, is a cell.
SessionTypeOK ==
  /\ sessions \in [DOMAIN sessions -> Session] /\ DOMAIN sessions \subseteq Keys
  /\ \A k \in DOMAIN sessions :
       LET e == sessions[k].entry IN
       /\ k[3] \in ToSet(grid[k[2]].periods)
       /\ e # NoEntry => <<e[2], e[3]>> \in DOMAIN grid[e[1]].cells

HandlerTypeOK ==
  /\ pc \in [Handlers -> {"idle", "place", "wipe", "seed"}] /\ DOMAIN job = Handlers
  /\ \A h \in Handlers :
       /\ pc[h] = "idle" => job[h] = NoJob
       /\ pc[h] = "place" => /\ job[h] \in Placing /\ IsInjective(job[h].periods)
                             /\ job[h].period \in ToSet(job[h].periods)
       /\ pc[h] \in {"wipe", "seed"} => job[h] \in Publishing

TimetableTypeOK ==
  /\ GridTypeOK /\ SessionTypeOK /\ HandlerTypeOK
  /\ holidays \subseteq Days /\ calls \in 0 .. MaxCalls /\ noise \subseteq Noises

-----------------------------------------------------------------------------
(* Runs of periods *)

At(periods, p) == CHOOSE i \in DOMAIN periods : periods[i] = p
Run(periods, p, span) == At(periods, p) .. At(periods, p) + span - 1

\* A class neither runs past the last period nor over a break.
Fits(periods, breaks, p, span) ==
  \A i \in Run(periods, p, span) : i \in DOMAIN periods /\ periods[i] \notin breaks

\* Mutant: only the class that starts in the same period.
SameStart(periods, p, span, q, other) == q = p
Overlap(periods, p, span, q, other) ==
  Run(periods, p, span) \cap Run(periods, q, other) # {}

WellFormed(g) ==
  /\ DOMAIN g.cells \subseteq g.days \X (ToSet(g.periods) \ g.breaks)
  /\ \A c \in DOMAIN g.cells :
       /\ Fits(g.periods, g.breaks, c[2], g.cells[c].span)
       /\ \A o \in DOMAIN g.cells \ {c} :
            o[1] = c[1] => Run(g.periods, c[2], g.cells[c].span)
                             \cap Run(g.periods, o[2], g.cells[o].span) = {}

Without(f, S) == Restrict(f, DOMAIN f \ S)

Live == {k \in DOMAIN sessions : sessions[k].status # "cancelled"}

Under(t, gone) ==
  {k \in DOMAIN sessions : sessions[k].entry \in {EntryOf(t, c[1], c[2]) : c \in gone}}

\* Deleting entries sets timetable_entry_id of their sessions to NULL.
Orphan(t, gone) ==
  [k \in DOMAIN sessions |-> IF k \in Under(t, gone) THEN [sessions[k] EXCEPT !.entry = NoEntry]
                             ELSE sessions[k]]

Note(tags) == noise' = noise \cup tags /\ Cardinality(noise') <= MaxNoise

Tag(condition, tag) == IF condition THEN {tag} ELSE {}

Busy == \E h \in Handlers : pc[h] # "idle"
Raced == Tag(Busy, "overlap")

\* A request that is one transaction, or whose reads nothing depends on.
Call == calls < MaxCalls /\ calls' = calls + 1

Begin(h, j, label) ==
  /\ pc[h] = "idle" /\ Call
  /\ pc' = [pc EXCEPT ![h] = label] /\ job' = [job EXCEPT ![h] = j]

Continue(h, j, label) ==
  /\ pc' = [pc EXCEPT ![h] = label] /\ job' = [job EXCEPT ![h] = j]

End(h) == Continue(h, NoJob, "idle")

\* Rows a publish has deleted stay locked until it commits.
Wiped(k) == \E h \in Handlers : pc[h] \in {"wipe", "seed"} /\ k \in job[h].wiped

\* Every entry in gone disappears from t, whose new form is g.
Replace(t, g, gone, tags) ==
  /\ \A k \in Under(t, gone) : ~Wiped(k)
  /\ grid' = [grid EXCEPT ![t] = g]
  /\ sessions' = Orphan(t, gone)
  /\ Note(tags \cup Tag(Under(t, gone) \cap Live # {}, "orphaned"))

-----------------------------------------------------------------------------
(* Templates *)

Create(t, breaks, days) ==
  /\ Call /\ grid[t] = NoTemplate
  /\ grid' = [grid EXCEPT ![t] = Fresh(FirstPeriods, breaks, days, <<>>)]
  /\ UNCHANGED <<sessions, holidays, pc, job, noise>>

Clone(t, source) ==
  /\ Call /\ grid[t] = NoTemplate /\ LiveTemplate(source)
  /\ grid' = [grid EXCEPT ![t] = LET g == grid[source] IN Fresh(g.periods, g.breaks, g.days, g.cells)]
  /\ UNCHANGED <<sessions, holidays, pc, job, noise>>

\* Cells on a day that is no longer worked are pruned.
UpdateDays(t, days) ==
  LET gone == {c \in DOMAIN grid[t].cells : c[1] \notin days} IN
  /\ Call /\ LiveTemplate(t)
  /\ Replace(t, [grid[t] EXCEPT !.days = days, !.cells = Without(@, gone)], gone, Raced)
  /\ UNCHANGED <<holidays, pc, job>>

RemoveCourse(t, class) ==
  LET gone == {c \in DOMAIN grid[t].cells : grid[t].cells[c].class = class} IN
  /\ Call /\ RowsOf[class] = {} /\ gone # {}
  /\ Replace(t, [grid[t] EXCEPT !.cells = Without(@, gone)], gone, Raced)
  /\ UNCHANGED <<holidays, pc, job>>

OfTemplate(t) == {k \in DOMAIN sessions : k[2] = t}

\* Scheduled sessions from today on go; any other session of a period of the
\* template keeps the period, and with it the template, from being deleted.
RemoveTemplate(t, today) ==
  LET cells == DOMAIN grid[t].cells
      future == {k \in Under(t, cells) : sessions[k].status = "scheduled" /\ DayOf(k) >= today}
  IN
  /\ Call /\ LiveTemplate(t) /\ OfTemplate(t) \subseteq future
  /\ \A k \in Under(t, cells) : ~Wiped(k)
  /\ grid' = [grid EXCEPT ![t] = Removed]
  /\ sessions' = Without(Orphan(t, cells), future)
  /\ Note(Tag((Under(t, cells) \ future) \cap Live # {}, "orphaned"))
  /\ UNCHANGED <<holidays, pc, job>>

\* The longest prefix of a run that still fits.
Clamped(periods, breaks, p, span) ==
  CHOOSE n \in 1 .. span :
    /\ Fits(periods, breaks, p, n)
    /\ n < span => ~Fits(periods, breaks, p, n + 1)

\* savePeriods: rows absent from the list are deleted, unless a session has one.
SavePeriods(t, periods, breaks) ==
  LET g == grid[t]
      kept == {c \in DOMAIN g.cells : c[2] \in ToSet(periods) \ breaks}
  IN
  /\ Call /\ LiveTemplate(t) /\ <<periods, breaks>> # <<g.periods, g.breaks>>
  /\ (ToSet(periods) \ ToSet(g.periods)) \cap g.used = {}
  /\ \A k \in OfTemplate(t) : k[3] \in ToSet(periods)
  /\ Replace(t, [g EXCEPT !.periods = periods, !.breaks = breaks, !.used = @ \cup ToSet(periods),
                   !.cells = [c \in kept |->
                      [g.cells[c] EXCEPT !.span = Clamped(periods, breaks, c[2], @)]]],
             DOMAIN g.cells \ kept,
             Raced \cup Tag(periods # g.periods \/ \E c \in kept :
                   Clamped(periods, breaks, c[2], g.cells[c].span) # g.cells[c].span, "reshaped"))
  /\ UNCHANGED <<holidays, pc, job>>

-----------------------------------------------------------------------------
(* Cells *)

\* upsertEntry checks against the periods it reads first ...
StartPlace(h, t, d, p, class, span) ==
  LET g == grid[t] IN
  /\ d \in g.days /\ p \in ToSet(g.periods) /\ Fits(g.periods, g.breaks, p, span)
  /\ Begin(h, [op |-> "place", template |-> t, day |-> d, period |-> p, periods |-> g.periods,
               cell |-> [class |-> class, span |-> span]], "place")
  /\ Note(Raced)
  /\ UNCHANGED <<grid, sessions, holidays>>

\* ... and in its transaction replaces whatever the new run overlaps.
Place(h) ==
  LET j == job[h]
      g == grid[j.template]
      gone == {c \in DOMAIN g.cells :
                 /\ c[1] = j.day /\ c[2] \in ToSet(j.periods)
                 /\ Overlap(j.periods, j.period, j.cell.span, c[2], g.cells[c].span)}
      spot == <<j.day, j.period>>
  IN
  /\ pc[h] = "place"
  /\ IF j.period \in ToSet(g.periods) /\ spot \notin DOMAIN g.cells \ gone
     THEN Replace(j.template,
                  [g EXCEPT !.cells = [c \in (DOMAIN @ \ gone) \cup {spot} |->
                                         IF c = spot THEN j.cell ELSE @[c]]], gone, {})
     ELSE UNCHANGED <<grid, sessions, noise>>
  /\ End(h)
  /\ UNCHANGED <<holidays, calls>>

Clear(t, d, p) ==
  /\ Call /\ <<d, p>> \in DOMAIN grid[t].cells
  /\ Replace(t, [grid[t] EXCEPT !.cells = Without(@, {<<d, p>>})], {<<d, p>>}, Raced)
  /\ UNCHANGED <<holidays, pc, job>>

-----------------------------------------------------------------------------
(* Publishing *)

Window(days) == days \cap Semester

Replaceable(k) == sessions[k].status = "scheduled"

\* Mutants: ad-hoc sessions too; the sessions of the template only.
Everything(k, t) == TRUE
OwnOnly(k, t) == sessions[k].entry # NoEntry /\ k[2] = t
Derived(k, t) == sessions[k].entry # NoEntry

\* The wipe's DELETE sees what is committed when it begins ...
StartPublish(h, t, days, excluded) ==
  LET found == {k \in DOMAIN sessions :
                  DayOf(k) \in Window(days) /\ Replaceable(k) /\ Derived(k, t)}
  IN
  /\ LiveTemplate(t) /\ days \cap Semester # {}
  /\ Begin(h, [op |-> "publish", template |-> t, asked |-> days, days |-> Window(days),
               excluded |-> excluded, wiped |-> {k \in found : ~Wiped(k)},
               waits |-> {k \in found : Wiped(k)}], "wipe")
  /\ Note(Raced)
  /\ UNCHANGED <<grid, sessions, holidays>>

\* ... and waits for the rows another publish has deleted, to look at those that
\* are still there again.
Wipe(h) ==
  LET j == job[h]
      still == {k \in j.waits \cap DOMAIN sessions : Replaceable(k) /\ Derived(k, j.template)}
  IN
  /\ pc[h] = "wipe" /\ \A k \in j.waits : ~Wiped(k)
  /\ Continue(h, [j EXCEPT !.wiped = @ \cup still, !.waits = {}], "seed")
  /\ UNCHANGED <<grid, sessions, holidays, calls, noise>>

\* expandEntry for every cell of the day, unless the day is a holiday.
Seeds(t, days) ==
  {k \in Keys :
     /\ k[2] = t /\ DayOf(k) \in days \ holidays
     /\ <<DayOf(k), k[3]>> \in DOMAIN grid[t].cells
     /\ RowOf(k) \in RowsOf[grid[t].cells[<<DayOf(k), k[3]>>].class]}

Cohort(k) == IF RowOf(k) \in Electives THEN RowOf(k) ELSE "none"

\* loadOccupiedSlots
Occupied(k, left) ==
  \E o \in left : /\ sessions[o].status = "completed"
                  /\ SlotOf(o) = SlotOf(k) /\ Cohort(o) = Cohort(k)

\* Seeded rows whose key is taken are dropped by ON CONFLICT DO NOTHING.
Publish(h) ==
  LET j == job[h]
      left == DOMAIN sessions \ j.wiped
      new == {k \in Seeds(j.template, j.days) \ (left \cup j.excluded) : ~Occupied(k, left)}
      Seed(k) == [entry |-> EntryOf(j.template, DayOf(k), k[3]), status |-> "scheduled",
                  span |-> grid[j.template].cells[<<DayOf(k), k[3]>>].span]
  IN
  /\ pc[h] = "seed"
  /\ sessions' = [k \in left \cup new |-> IF k \in new THEN Seed(k) ELSE sessions[k]]
  /\ End(h)
  /\ Note(Tag(\E o \in left : /\ sessions[o].status = "completed" /\ DayOf(o) \in j.days
                              /\ o[2] # j.template, "switched"))
  /\ UNCHANGED <<grid, holidays, calls>>

\* An error or a lost connection rolls the transaction back.
Fail(h) == pc[h] # "idle" /\ End(h) /\ UNCHANGED <<grid, sessions, holidays, calls, noise>>

-----------------------------------------------------------------------------
(* Sessions and holidays *)

SetStatus(k, from, to, tags) ==
  /\ Call /\ sessions[k].status = from /\ ~Wiped(k)
  /\ sessions' = [sessions EXCEPT ![k].status = to]
  /\ Note(tags)
  /\ UNCHANGED <<grid, holidays, pc, job>>

\* Another period, or another day; allow_conflict admits an occupied cell.
Move(k, to) ==
  /\ Call /\ sessions[k].status = "scheduled" /\ ~Wiped(k)
  /\ to \notin DOMAIN sessions /\ RowOf(to) = RowOf(k)
  /\ to[3] \in ToSet(grid[to[2]].periods) \ grid[to[2]].breaks
  /\ to[2] # k[2] \/ to[3] # k[3] \/ DayOf(to) # DayOf(k)
  /\ sessions' = [o \in (DOMAIN sessions \ {k}) \cup {to} |->
                    IF o = to THEN sessions[k] ELSE sessions[o]]
  /\ Note({"moved"})
  /\ UNCHANGED <<grid, holidays, pc, job>>

CreateAdHoc(k) ==
  /\ Call /\ k \notin DOMAIN sessions
  /\ k[3] \in ToSet(grid[k[2]].periods) \ grid[k[2]].breaks
  /\ sessions' = [o \in DOMAIN sessions \cup {k} |->
       IF o = k THEN [entry |-> NoEntry, status |-> "scheduled", span |-> 1] ELSE sessions[o]]
  /\ Note({"adHoc"})
  /\ UNCHANGED <<grid, holidays, pc, job>>

\* The scheduled sessions of the range are cancelled with it, once no publish holds
\* them.
DeclareHoliday(from, to) ==
  LET range == {d \in Days : from <= d /\ d <= to}
      caught == {k \in DOMAIN sessions : DayOf(k) \in range /\ sessions[k].status = "scheduled"}
  IN
  /\ Call /\ from <= to /\ \A k \in caught : ~Wiped(k)
  /\ holidays' = holidays \cup range
  /\ sessions' = [k \in DOMAIN sessions |->
                    IF k \in caught THEN [sessions[k] EXCEPT !.status = "cancelled"] ELSE sessions[k]]
  /\ UNCHANGED <<grid, pc, job, noise>>

\* What it cancelled stays so.
RemoveHoliday(from, to) ==
  /\ Call /\ holidays' = {d \in holidays : d < from \/ to < d} /\ holidays' # holidays
  /\ UNCHANGED <<grid, sessions, pc, job, noise>>

TimetableInit ==
  /\ grid \in [Templates -> {NoTemplate} \cup
                  {Fresh(FirstPeriods, {}, Days, cells) : cells \in FirstGrids}]
  /\ \A t \in Templates : WellFormed(grid[t])
  /\ sessions = <<>> /\ holidays = {}
  /\ pc = [h \in Handlers |-> "idle"] /\ job = [h \in Handlers |-> NoJob]
  /\ calls = 0 /\ noise = {}

Orders == {s \in UNION {[1 .. n -> Periods] : n \in 1 .. Cardinality(Periods)} : IsInjective(s)}

\* What people ask for that is one step.
TemplateRequest(t) ==
  \/ \E periods \in Orders, breaks \in SUBSET Periods :
       breaks \subseteq ToSet(periods) /\ SavePeriods(t, periods, breaks)
  \/ \E breaks \in SUBSET ToSet(FirstPeriods) : Create(t, breaks, Days)
  \/ \E source \in Templates : Clone(t, source)
  \/ \E days \in SUBSET Days : UpdateDays(t, days)
  \/ \E class \in Classes : RemoveCourse(t, class)
  \/ \E today \in Days : RemoveTemplate(t, today)
  \/ \E d \in Days, p \in Periods : Clear(t, d, p)

SessionRequest ==
  \/ \E k \in DOMAIN sessions :
       \/ SetStatus(k, "scheduled", "completed", {})
       \/ SetStatus(k, "scheduled", "cancelled", {})
       \/ SetStatus(k, "cancelled", "scheduled", {"reopened"})
       \/ \E to \in Keys : Move(k, to)
  \/ \E k \in Keys : CreateAdHoc(k)
  \/ \E from, to \in Days : DeclareHoliday(from, to) \/ RemoveHoliday(from, to)

Start(h) ==
  /\ pc[h] = "idle"
  /\ \E t \in Templates :
       \/ \E d \in Days, p \in Periods, cell \in Cell : StartPlace(h, t, d, p, cell.class, cell.span)
       \/ \E days \in SUBSET Days :
            \/ StartPublish(h, t, days, {})
            \/ \E k \in Seeds(t, days) : StartPublish(h, t, days, {k})

TimetableNext ==
  \/ /\ calls < MaxCalls
     /\ (\E t \in Templates : TemplateRequest(t)) \/ SessionRequest \/ (\E h \in Handlers : Start(h))
  \/ \E h \in Handlers : Place(h) \/ Wipe(h) \/ Publish(h) \/ Fail(h)

TimetableSpec == TimetableInit /\ [][TimetableNext]_timetableVars

-----------------------------------------------------------------------------
(* Properties *)

\* One request at a time, every class of the grid lies within the day and off
\* the breaks, whatever was placed, merged, re-ordered or turned into a break
\* (upsertEntry, step 5 of savePeriods).
SpansFit ==
  "overlap" \notin noise => \A t \in Templates : \A c \in DOMAIN grid[t].cells :
    Fits(grid[t].periods, grid[t].breaks, c[2], grid[t].cells[c].span)

\* One request at a time, and as long as no list of periods changes and no merged
\* class is cut short by a break, no two classes of a day share a period, however
\* merged classes replace one another.
CellsDisjoint ==
  noise \cap {"overlap", "reshaped"} = {} => \A t \in Templates : WellFormed(grid[t])

\* The invariant of the grid: well formed, every class within its day, no two
\* classes of a template at a time.
GridInv == TimetableTypeOK /\ SpansFit /\ CellsDisjoint

Together(a, b) ==
  /\ a # b /\ DayOf(a) = DayOf(b)
  /\ \/ a[2] # b[2]
     \/ Run(grid[a[2]].periods, a[3], sessions[a].span)
          \cap Run(grid[b[2]].periods, b[3], sessions[b].span) # {}

\* The published week has one class at a time (cohorts of one elective share
\* theirs), over any sequence of publishes, templates, markings and
\* cancellations, as long as requests do not overlap and nobody edits a cell under
\* its sessions, changes the periods or cuts a class (reshaped), switches template
\* on a day with marked classes, moves, adds or re-opens a class.
OneClassAtATime ==
  noise = {} => \A a, b \in Live :
    Together(a, b) => SlotOf(a) = SlotOf(b) /\ {RowOf(a), RowOf(b)} \subseteq Electives

\* Publishing and editing templates leave what happened alone: a marked, a
\* cancelled or an ad-hoc session stays as it is, whatever the marking does while
\* a publish runs (publishWindow); only an edit makes it one of no cell.
Settled(k) == sessions[k].status # "scheduled" \/ sessions[k].entry = NoEntry
HistoryStands ==
  [][grid' # grid \/ (\E h \in Handlers : pc[h] = "seed" /\ pc'[h] = "idle") =>
       \A k \in DOMAIN sessions : Settled(k) =>
         /\ k \in DOMAIN sessions'
         /\ \/ sessions'[k] = sessions[k]
            \/ grid' # grid /\ sessions'[k] = [sessions[k] EXCEPT !.entry = NoEntry]]_timetableVars

\* A publish of chosen days leaves the sessions of every other day alone, and so
\* those outside the semester (clampWindow: a partial-week publish is not a
\* full-week one).
OtherDaysStand ==
  [][\A h \in Handlers : pc[h] = "seed" /\ pc'[h] = "idle" =>
       \A k \in Keys : DayOf(k) \notin job[h].asked \cap Semester =>
         /\ (k \in DOMAIN sessions) <=> (k \in DOMAIN sessions')
         /\ k \in DOMAIN sessions => sessions'[k] = sessions[k]]_timetableVars

\* A publish touches what it is for and nothing else.
PublishSparesTheRest == HistoryStands /\ OtherDaysStand
=============================================================================
