------------------------- MODULE Timetables_proofs -------------------------
(***************************************************************************)
(* Theorems about timetables, for every finite set of periods and any      *)
(* number of templates, days, classes, cohorts and requests under way: the *)
(* grid of each template, the published week, and what a publish leaves    *)
(* alone.                                                                  *)
(***************************************************************************)
EXTENDS Timetables, FiniteSetTheorems, TLAPS

-----------------------------------------------------------------------------
(* Periods and runs *)

LEMMA SpanBound == Cardinality(Periods) \in Nat
BY TimetableAssumption, FS_CardinalityType

LEMMA AtFits ==
  ASSUME NEW periods \in Seq(Periods), NEW p \in ToSet(periods)
  PROVE  /\ At(periods, p) \in DOMAIN periods /\ periods[At(periods, p)] = p
         /\ At(periods, p) \in Nat \ {0}
<1>1. PICK i \in DOMAIN periods : periods[i] = p
  BY DEF ToSet
<1>2. At(periods, p) \in DOMAIN periods /\ periods[At(periods, p)] = p
  BY <1>1 DEF At
<1>3. DOMAIN periods = 1 .. Len(periods) /\ Len(periods) \in Nat
  OBVIOUS
<1> QED BY <1>2, <1>3

LEMMA FitsOne ==
  ASSUME NEW periods \in Seq(Periods), NEW breaks, NEW p \in ToSet(periods) \ breaks
  PROVE  Fits(periods, breaks, p, 1)
<1> DEFINE a == At(periods, p)
<1>1. a \in DOMAIN periods /\ periods[a] = p /\ a \in Nat
  BY AtFits
<1>2. a .. a + 1 - 1 = {a}
  BY <1>1
<1> QED BY <1>1, <1>2 DEF Fits, Run

LEMMA FitsStart ==
  ASSUME NEW periods \in Seq(Periods), NEW breaks, NEW p \in ToSet(periods),
         NEW span \in Nat \ {0}, Fits(periods, breaks, p, span)
  PROVE  p \notin breaks
<1> DEFINE a == At(periods, p)
<1>1. periods[a] = p /\ a \in Nat
  BY AtFits
<1>2. a \in Run(periods, p, span)
  BY <1>1 DEF Run
<1> QED BY <1>1, <1>2 DEF Fits

\* No span could be the longest that fits only if the spans up to the asked
\* one were mapped into a proper subset of theirs, one to one.
LEMMA LongestFits ==
  ASSUME NEW periods \in Seq(Periods), NEW breaks, NEW p \in ToSet(periods) \ breaks,
         NEW span \in Nat \ {0}
  PROVE  \E n \in 1 .. span : /\ Fits(periods, breaks, p, n)
                              /\ n < span => ~Fits(periods, breaks, p, n + 1)
<1> SUFFICES ASSUME \A n \in 1 .. span : Fits(periods, breaks, p, n) =>
                      n < span /\ Fits(periods, breaks, p, n + 1)
             PROVE  FALSE
  OBVIOUS
<1> DEFINE N == {n \in 1 .. span : Fits(periods, breaks, p, n)}
           next == [n \in N |-> n + 1]
<1>1. 1 \in N
  BY FitsOne
<1>2. next \in [N -> N \ {1}]
  <2>1. ASSUME NEW n \in N PROVE n + 1 \in N \ {1}
    <3>1. n \in 1 .. span /\ n < span /\ Fits(periods, breaks, p, n + 1)
      OBVIOUS
    <3>2. n + 1 \in 1 .. span /\ n + 1 # 1
      BY <3>1
    <3> QED BY <3>1, <3>2
  <2> HIDE DEF N
  <2> QED BY <2>1
<1>3. IsFiniteSet(N)
  <2>1. IsFiniteSet(1 .. span) /\ N \subseteq 1 .. span
    BY FS_Interval
  <2> HIDE DEF N
  <2> QED BY <2>1, FS_Subset
<1>4. IsFiniteSet(N \ {1}) /\ Cardinality(N \ {1}) = Cardinality(N) - 1 /\ Cardinality(N) \in Nat
  BY <1>1, <1>3, FS_RemoveElement, FS_CardinalityType
<1>5. \E x, y \in N : x # y /\ next[x] = next[y]
  <2> HIDE DEF N, next
  <2> QED BY <1>2, <1>3, <1>4, FS_PigeonHole
<1> QED BY <1>5

LEMMA ClampedFits ==
  ASSUME NEW periods \in Seq(Periods), NEW breaks, NEW p \in ToSet(periods) \ breaks,
         NEW span \in Nat \ {0}
  PROVE  /\ Clamped(periods, breaks, p, span) \in 1 .. span
         /\ Fits(periods, breaks, p, Clamped(periods, breaks, p, span))
BY LongestFits DEF Clamped

-----------------------------------------------------------------------------
(* Grids *)

LEMMA InPartial ==
  ASSUME NEW S, NEW T, NEW R, R \subseteq S, NEW f \in [R -> T]
  PROVE  f \in PartialFunctions(S, T)
BY DEF PartialFunctions

LEMMA OfPartial ==
  ASSUME NEW S, NEW T, NEW f \in PartialFunctions(S, T)
  PROVE  f \in [DOMAIN f -> T] /\ DOMAIN f \subseteq S
BY DEF PartialFunctions

LEMMA CellsFit ==
  ASSUME NEW g \in Week
  PROVE  /\ g.cells \in [DOMAIN g.cells -> Cell] /\ DOMAIN g.cells \subseteq Days \X Periods
         /\ g.periods \in Seq(Periods) /\ ToSet(g.periods) \subseteq Periods
<1>1. g.cells \in PartialFunctions(Days \X Periods, Cell)
  BY DEF Week
<1>2. g.periods \in Seq(Periods)
  BY DEF Week
<1>3. ToSet(g.periods) \subseteq Periods
  BY <1>2 DEF ToSet
<1> QED BY <1>1, <1>2, <1>3, OfPartial

LEMMA CellSpan ==
  ASSUME NEW cell \in Cell
  PROVE  /\ cell.class \in Classes /\ cell.span \in Nat \ {0}
         /\ cell.span \in 1 .. Cardinality(Periods)
BY SpanBound DEF Cell

LEMMA WithoutFits ==
  ASSUME NEW f \in PartialFunctions(Days \X Periods, Cell), NEW gone
  PROVE  /\ Without(f, gone) \in PartialFunctions(Days \X Periods, Cell)
         /\ DOMAIN Without(f, gone) = DOMAIN f \ gone
         /\ \A x \in DOMAIN f \ gone : Without(f, gone)[x] = f[x]
<1>1. f \in [DOMAIN f -> Cell] /\ DOMAIN f \subseteq Days \X Periods
  BY OfPartial
<1>2. /\ Without(f, gone) \in [DOMAIN f \ gone -> Cell] /\ DOMAIN f \ gone \subseteq Days \X Periods
      /\ \A x \in DOMAIN f \ gone : Without(f, gone)[x] = f[x]
  BY <1>1 DEF Without, Restrict
<1> QED BY <1>2, InPartial

LEMMA NoCells == <<>> \in PartialFunctions(Days \X Periods, Cell) /\ DOMAIN <<>> = {}
<1>1. <<>> = [x \in {} |-> x]
  OBVIOUS
<1>2. <<>> \in [{} -> Cell]
  BY <1>1
<1> QED BY <1>1, <1>2, InPartial

LEMMA EmptyWeeks ==
  /\ NoTemplate \in Week /\ Removed \in Week
  /\ NoTemplate.cells = <<>> /\ Removed.cells = <<>>
  /\ NoTemplate.periods = <<>> /\ Removed.periods = <<>>
  /\ ToSet(<<>>) = {} /\ IsInjective(<<>>)
  /\ NoTemplate.state = "none" /\ Removed.state = "removed"
<1>1. <<>> \in Seq(Periods)
  OBVIOUS
<1>2. NoTemplate \in Week
  BY <1>1, NoCells DEF NoTemplate, Week
<1>3. Removed \in Week /\ Removed.state = "removed"
  BY <1>2 DEF Week, Removed
<1>4. Removed.cells = NoTemplate.cells /\ Removed.periods = NoTemplate.periods
  BY <1>2 DEF Week, Removed
<1>5. ToSet(<<>>) = {} /\ IsInjective(<<>>)
  BY NoCells DEF ToSet, IsInjective
<1> QED BY <1>2, <1>3, <1>4, <1>5 DEF NoTemplate

LEMMA FreshFits ==
  ASSUME NEW periods \in Seq(Periods), NEW breaks \in SUBSET Periods, NEW days \in SUBSET Days,
         NEW cells \in PartialFunctions(Days \X Periods, Cell)
  PROVE  Fresh(periods, breaks, days, cells) \in Week
<1>1. ToSet(periods) \subseteq Periods
  BY DEF ToSet
<1> QED BY <1>1 DEF Fresh, Week

LEMMA OrdersFit ==
  ASSUME NEW periods \in Orders
  PROVE  periods \in Seq(Periods) /\ IsInjective(periods) /\ ToSet(periods) \subseteq Periods
<1>1. PICK n \in 1 .. Cardinality(Periods) : periods \in [1 .. n -> Periods]
  BY DEF Orders
<1>2. n \in Nat /\ periods \in Seq(Periods)
  BY <1>1, SpanBound
<1> QED BY <1>1, <1>2 DEF Orders, ToSet

-----------------------------------------------------------------------------
(* What an edit of a template leaves of the sessions *)

LEMMA EntryFacts ==
  /\ \A t, d, p : EntryOf(t, d, p) # NoEntry
  /\ \A e \in Templates \X Days \X Periods :
       /\ e = EntryOf(e[1], e[2], e[3]) /\ e # NoEntry
       /\ e[1] \in Templates /\ e[2] \in Days /\ e[3] \in Periods
BY DEF EntryOf, NoEntry

LEMMA SessionFits ==
  ASSUME SessionTypeOK, NEW k \in DOMAIN sessions
  PROVE  /\ sessions[k] \in Session /\ k \in Keys
         /\ k[1] \in Days /\ k[2] \in Templates /\ k[3] \in Periods /\ k[4] \in Rows
         /\ k = <<k[1], k[2], k[3], k[4]>>
         /\ k[3] \in ToSet(grid[k[2]].periods)
         /\ sessions[k].entry # NoEntry =>
              /\ sessions[k].entry \in Templates \X Days \X Periods
              /\ <<sessions[k].entry[2], sessions[k].entry[3]>>
                   \in DOMAIN grid[sessions[k].entry[1]].cells
<1>1. sessions[k] \in Session /\ k \in Keys
  BY DEF SessionTypeOK
<1>2. sessions[k].entry # NoEntry => sessions[k].entry \in Templates \X Days \X Periods
  BY <1>1 DEF Session
<1>3. /\ k[1] \in Days /\ k[2] \in Templates /\ k[3] \in Periods /\ k[4] \in Rows
      /\ k = <<k[1], k[2], k[3], k[4]>>
  BY <1>1 DEF Keys
<1> QED BY <1>1, <1>2, <1>3 DEF SessionTypeOK

LEMMA UnderEntry ==
  ASSUME SessionTypeOK, NEW t \in Templates, NEW gone, gone \subseteq Days \X Periods,
         NEW k \in DOMAIN sessions
  PROVE  k \in Under(t, gone) <=>
           /\ sessions[k].entry # NoEntry /\ sessions[k].entry[1] = t
           /\ <<sessions[k].entry[2], sessions[k].entry[3]>> \in gone
<1> DEFINE e == sessions[k].entry
<1>1. e # NoEntry => e \in Templates \X Days \X Periods
  BY SessionFits
<1>2. k \in Under(t, gone) <=> \E c \in gone : e = EntryOf(t, c[1], c[2])
  BY DEF Under
<1>3. ASSUME NEW c \in gone, e = EntryOf(t, c[1], c[2])
      PROVE  e # NoEntry /\ e[1] = t /\ <<e[2], e[3]>> \in gone
  <2>1. c = <<c[1], c[2]>>
    OBVIOUS
  <2> QED BY <1>3, <2>1, EntryFacts DEF EntryOf
<1>4. ASSUME e # NoEntry, e[1] = t, <<e[2], e[3]>> \in gone
      PROVE  \E c \in gone : e = EntryOf(t, c[1], c[2])
  <2>1. e = EntryOf(t, e[2], e[3])
    BY <1>1, <1>4, EntryFacts
  <2>2. <<e[2], e[3]>>[1] = e[2] /\ <<e[2], e[3]>>[2] = e[3]
    OBVIOUS
  <2> QED BY <1>4, <2>1, <2>2
<1> QED BY <1>2, <1>3, <1>4

LEMMA OrphanEffect ==
  ASSUME SessionTypeOK, NEW t, NEW gone
  PROVE  /\ DOMAIN Orphan(t, gone) = DOMAIN sessions
         /\ Orphan(t, gone) \in [DOMAIN sessions -> Session]
         /\ \A k \in DOMAIN sessions :
              /\ Orphan(t, gone)[k].status = sessions[k].status
              /\ Orphan(t, gone)[k].span = sessions[k].span
              /\ Orphan(t, gone)[k].entry =
                   IF k \in Under(t, gone) THEN NoEntry ELSE sessions[k].entry
              /\ k \notin Under(t, gone) => Orphan(t, gone)[k] = sessions[k]
<1>1. ASSUME NEW k \in DOMAIN sessions
      PROVE  LET s == IF k \in Under(t, gone) THEN [sessions[k] EXCEPT !.entry = NoEntry]
                                              ELSE sessions[k] IN
             /\ s \in Session /\ s.status = sessions[k].status /\ s.span = sessions[k].span
             /\ s.entry = IF k \in Under(t, gone) THEN NoEntry ELSE sessions[k].entry
  <2>1. sessions[k] \in Session
    BY SessionFits
  <2> QED BY <2>1 DEF Session
<1>2. DOMAIN Orphan(t, gone) = DOMAIN sessions
  BY DEF Orphan
<1>3. ASSUME NEW k \in DOMAIN sessions
      PROVE  Orphan(t, gone)[k] = IF k \in Under(t, gone)
                                    THEN [sessions[k] EXCEPT !.entry = NoEntry] ELSE sessions[k]
  BY DEF Orphan
<1>4. Orphan(t, gone) \in [DOMAIN sessions -> Session]
  BY <1>1 DEF Orphan
<1> QED BY <1>1, <1>2, <1>3, <1>4

LEMMA TagFits == ASSUME NEW c, NEW tag \in Noises PROVE Tag(c, tag) \subseteq Noises
BY DEF Tag

LEMMA ReplaceTyped ==
  ASSUME GridTypeOK, SessionTypeOK, NEW t \in Templates, NEW g \in Week,
         NEW gone, gone \subseteq Days \X Periods, NEW tags,
         IsInjective(g.periods), DOMAIN g.cells \subseteq Days \X ToSet(g.periods),
         DOMAIN grid[t].cells \ gone \subseteq DOMAIN g.cells,
         \A k \in OfTemplate(t) : k[3] \in ToSet(g.periods),
         Replace(t, g, gone, tags)
  PROVE  GridTypeOK' /\ SessionTypeOK'
<1>1. grid' = [grid EXCEPT ![t] = g] /\ sessions' = Orphan(t, gone)
  BY DEF Replace
<1>2. grid \in [Templates -> Week]
  BY DEF GridTypeOK
<1>3. GridTypeOK'
  BY <1>1, <1>2 DEF GridTypeOK
<1>4. ASSUME NEW k \in DOMAIN sessions'
      PROVE  LET e == sessions'[k].entry IN
             /\ k[3] \in ToSet(grid'[k[2]].periods)
             /\ e # NoEntry => <<e[2], e[3]>> \in DOMAIN grid'[e[1]].cells
  <2>1. k \in DOMAIN sessions
    BY <1>1, OrphanEffect
  <2>2. k[3] \in ToSet(grid'[k[2]].periods)
    <3>1. k[2] = t => k \in OfTemplate(t)
      BY <2>1 DEF OfTemplate
    <3>2. k[2] \in Templates /\ k[3] \in ToSet(grid[k[2]].periods)
      BY <2>1, SessionFits
    <3> QED BY <1>1, <1>2, <3>1, <3>2
  <2>3. ASSUME sessions'[k].entry # NoEntry
        PROVE  <<sessions'[k].entry[2], sessions'[k].entry[3]>>
                 \in DOMAIN grid'[sessions'[k].entry[1]].cells
    <3> DEFINE e == sessions[k].entry
    <3>1. sessions'[k].entry = e /\ k \notin Under(t, gone) /\ e # NoEntry
      BY <1>1, <2>1, <2>3, OrphanEffect
    <3>2. e \in Templates \X Days \X Periods /\ <<e[2], e[3]>> \in DOMAIN grid[e[1]].cells
      BY <2>1, <3>1, SessionFits
    <3>3. e[1] = t => <<e[2], e[3]>> \notin gone
      BY <2>1, <3>1, UnderEntry
    <3>4. e[1] \in Templates
      BY <3>2
    <3> HIDE DEF e
    <3>5. CASE e[1] = t
      BY <1>1, <1>2, <3>1, <3>2, <3>3, <3>4, <3>5
    <3>6. CASE e[1] # t
      BY <1>1, <1>2, <3>1, <3>2, <3>4, <3>6
    <3> QED BY <3>5, <3>6
  <2> QED BY <2>2, <2>3
<1>5. sessions' \in [DOMAIN sessions' -> Session] /\ DOMAIN sessions' \subseteq Keys
  BY <1>1, OrphanEffect DEF SessionTypeOK
<1> QED BY <1>3, <1>4, <1>5 DEF SessionTypeOK

LEMMA NoteFits ==
  ASSUME noise \subseteq Noises, NEW tags, tags \subseteq Noises, Note(tags)
  PROVE  noise' \subseteq Noises
BY DEF Note

LEMMA ReplaceNoise ==
  ASSUME noise \subseteq Noises, NEW t, NEW g, NEW gone, NEW tags, tags \subseteq Noises,
         Replace(t, g, gone, tags)
  PROVE  noise' \subseteq Noises
<1>1. tags \cup Tag(Under(t, gone) \cap Live # {}, "orphaned") \subseteq Noises
  BY DEF Tag, Noises
<1> QED BY <1>1, NoteFits DEF Replace

LEMMA RacedFits == Raced \subseteq Noises
BY DEF Raced, Tag, Noises

LEMMA CallFits == ASSUME calls \in 0 .. MaxCalls, Call PROVE calls' \in 0 .. MaxCalls
BY TimetableAssumption DEF Call

LEMMA SameHandlers == ASSUME HandlerTypeOK, UNCHANGED <<pc, job>> PROVE HandlerTypeOK'
BY DEF HandlerTypeOK

-----------------------------------------------------------------------------
(* Types: the requests on templates *)

LEMMA TemplateFits ==
  ASSUME GridTypeOK, NEW t \in Templates
  PROVE  /\ grid[t] \in Week /\ IsInjective(grid[t].periods)
         /\ DOMAIN grid[t].cells \subseteq Days \X ToSet(grid[t].periods)
         /\ DOMAIN grid[t].cells \subseteq Days \X Periods
         /\ grid[t].cells \in PartialFunctions(Days \X Periods, Cell)
         /\ grid[t].cells \in [DOMAIN grid[t].cells -> Cell]
         /\ grid[t].periods \in Seq(Periods) /\ ToSet(grid[t].periods) \subseteq Periods
<1>1. grid[t] \in Week
  BY DEF GridTypeOK
<1>2. grid[t].cells \in PartialFunctions(Days \X Periods, Cell)
  BY <1>1 DEF Week
<1> QED BY <1>1, <1>2, CellsFit DEF GridTypeOK

LEMMA OfTemplateFits ==
  ASSUME SessionTypeOK, NEW t, NEW k \in OfTemplate(t)
  PROVE  k[3] \in ToSet(grid[t].periods)
BY SessionFits DEF OfTemplate

LEMMA PruneTyped ==
  ASSUME TimetableTypeOK, NEW t \in Templates, NEW days \in SUBSET Days,
         NEW gone, gone \subseteq DOMAIN grid[t].cells, NEW g,
         \/ g = [grid[t] EXCEPT !.days = days, !.cells = Without(@, gone)]
         \/ g = [grid[t] EXCEPT !.cells = Without(@, gone)],
         Call, Replace(t, g, gone, Raced), UNCHANGED <<holidays, pc, job>>
  PROVE  TimetableTypeOK'
<1>1. GridTypeOK /\ SessionTypeOK /\ HandlerTypeOK /\ noise \subseteq Noises
  BY DEF TimetableTypeOK
<1>2. /\ grid[t] \in Week /\ IsInjective(grid[t].periods)
      /\ DOMAIN grid[t].cells \subseteq Days \X ToSet(grid[t].periods)
      /\ grid[t].cells \in PartialFunctions(Days \X Periods, Cell)
      /\ gone \subseteq Days \X Periods
  BY <1>1, TemplateFits
<1>3. /\ Without(grid[t].cells, gone) \in PartialFunctions(Days \X Periods, Cell)
      /\ DOMAIN Without(grid[t].cells, gone) = DOMAIN grid[t].cells \ gone
  BY <1>2, WithoutFits
<1>4. g \in Week /\ g.periods = grid[t].periods /\ g.cells = Without(grid[t].cells, gone)
  <2> DEFINE cells == Without(grid[t].cells, gone)
  <2> HIDE DEF cells
  <2>1. \/ g = [grid[t] EXCEPT !.days = days, !.cells = cells]
        \/ g = [grid[t] EXCEPT !.cells = cells]
    BY <1>2 DEF cells, Week
  <2>2. cells \in PartialFunctions(Days \X Periods, Cell)
    BY <1>3 DEF cells
  <2>3. CASE g = [grid[t] EXCEPT !.days = days, !.cells = cells]
    BY <1>2, <2>2, <2>3 DEF Week, cells
  <2>4. CASE g = [grid[t] EXCEPT !.cells = cells]
    BY <1>2, <2>2, <2>4 DEF Week, cells
  <2> QED BY <2>1, <2>3, <2>4
<1>5. \A k \in OfTemplate(t) : k[3] \in ToSet(g.periods)
  BY <1>1, <1>4, OfTemplateFits
<1>6. GridTypeOK' /\ SessionTypeOK'
  BY <1>1, <1>2, <1>3, <1>4, <1>5, ReplaceTyped
<1>7. noise' \subseteq Noises
  BY <1>1, RacedFits, ReplaceNoise
<1> QED BY <1>1, <1>6, <1>7, CallFits, SameHandlers DEF TimetableTypeOK

LEMMA UpdateDaysTyped ==
  ASSUME TimetableTypeOK, NEW t \in Templates, NEW days \in SUBSET Days, UpdateDays(t, days)
  PROVE  TimetableTypeOK'
BY PruneTyped DEF UpdateDays

LEMMA RemoveCourseTyped ==
  ASSUME TimetableTypeOK, NEW t \in Templates, NEW class, RemoveCourse(t, class)
  PROVE  TimetableTypeOK'
BY PruneTyped DEF RemoveCourse

LEMMA ClearTyped ==
  ASSUME TimetableTypeOK, NEW t \in Templates, NEW d, NEW p, Clear(t, d, p)
  PROVE  TimetableTypeOK'
<1>1. {<<d, p>>} \subseteq DOMAIN grid[t].cells
  BY DEF Clear
<1> QED BY <1>1, PruneTyped DEF Clear

LEMMA FirstCells ==
  ASSUME NEW cells \in FirstGrids
  PROVE  /\ cells \in PartialFunctions(Days \X Periods, Cell)
         /\ DOMAIN cells \subseteq Days \X ToSet(FirstPeriods)
<1>1. ToSet(FirstPeriods) \subseteq Periods
  BY TimetableAssumption DEF ToSet
<1>2. cells \in [DOMAIN cells -> Cell] /\ DOMAIN cells \subseteq Days \X ToSet(FirstPeriods)
  BY TimetableAssumption
<1> QED BY <1>1, <1>2, InPartial

\* A new template takes the place of one that has neither cells nor sessions.
LEMMA NewTyped ==
  ASSUME TimetableTypeOK, NEW t \in Templates, grid[t] = NoTemplate, NEW g \in Week,
         IsInjective(g.periods), DOMAIN g.cells \subseteq Days \X ToSet(g.periods),
         grid' = [grid EXCEPT ![t] = g], Call, UNCHANGED <<sessions, holidays, pc, job, noise>>
  PROVE  TimetableTypeOK'
<1>1. GridTypeOK /\ SessionTypeOK /\ HandlerTypeOK /\ noise \subseteq Noises
  BY DEF TimetableTypeOK
<1>2. grid \in [Templates -> Week]
  BY <1>1 DEF GridTypeOK
<1>3. GridTypeOK'
  BY <1>1, <1>2 DEF GridTypeOK
<1>4. ASSUME NEW k \in DOMAIN sessions
      PROVE  LET e == sessions[k].entry IN
             /\ k[3] \in ToSet(grid'[k[2]].periods)
             /\ e # NoEntry => <<e[2], e[3]>> \in DOMAIN grid'[e[1]].cells
  <2> DEFINE e == sessions[k].entry
  <2>1. k[2] \in Templates /\ k[2] # t /\ k[3] \in ToSet(grid[k[2]].periods)
    BY <1>1, SessionFits, EmptyWeeks
  <2>2. e # NoEntry => e[1] \in Templates /\ <<e[2], e[3]>> \in DOMAIN grid[e[1]].cells
    BY <1>1, SessionFits
  <2>3. e # NoEntry => e[1] # t
    BY <2>2, EmptyWeeks, NoCells
  <2> HIDE DEF e
  <2>4. k[3] \in ToSet(grid'[k[2]].periods)
    BY <1>2, <2>1
  <2>5. e # NoEntry => <<e[2], e[3]>> \in DOMAIN grid'[e[1]].cells
    BY <1>2, <2>2, <2>3
  <2> QED BY <2>4, <2>5 DEF e
<1>5. SessionTypeOK'
  BY <1>1, <1>4 DEF SessionTypeOK
<1> QED BY <1>1, <1>3, <1>5, CallFits, SameHandlers DEF TimetableTypeOK

LEMMA FreshPart ==
  ASSUME NEW periods, NEW breaks, NEW days, NEW cells
  PROVE  LET g == Fresh(periods, breaks, days, cells) IN
         /\ g.state = "live" /\ g.periods = periods /\ g.breaks = breaks /\ g.days = days
         /\ g.cells = cells
BY DEF Fresh

LEMMA CreateTyped ==
  ASSUME TimetableTypeOK, NEW t \in Templates, NEW breaks \in SUBSET ToSet(FirstPeriods),
         NEW days \in SUBSET Days, Create(t, breaks, days)
  PROVE  TimetableTypeOK'
<1> DEFINE g == Fresh(FirstPeriods, breaks, days, <<>>)
<1>1. FirstPeriods \in Seq(Periods) /\ IsInjective(FirstPeriods) /\ breaks \in SUBSET Periods
  BY TimetableAssumption DEF ToSet
<1>2. g \in Week
  BY <1>1, NoCells, FreshFits
<1>3. IsInjective(g.periods) /\ DOMAIN g.cells \subseteq Days \X ToSet(g.periods)
  BY <1>1, NoCells, FreshPart
<1>4. /\ grid[t] = NoTemplate /\ grid' = [grid EXCEPT ![t] = g]
      /\ Call /\ UNCHANGED <<sessions, holidays, pc, job, noise>>
  BY DEF Create
<1> HIDE DEF g
<1> QED BY <1>2, <1>3, <1>4, NewTyped

LEMMA CloneTyped ==
  ASSUME TimetableTypeOK, NEW t \in Templates, NEW source \in Templates, Clone(t, source)
  PROVE  TimetableTypeOK'
<1> DEFINE s == grid[source]
           g == Fresh(s.periods, s.breaks, s.days, s.cells)
<1>1. /\ s \in Week /\ IsInjective(s.periods) /\ s.periods \in Seq(Periods)
      /\ DOMAIN s.cells \subseteq Days \X ToSet(s.periods)
      /\ s.cells \in PartialFunctions(Days \X Periods, Cell)
  BY TemplateFits DEF TimetableTypeOK
<1>2. s.breaks \in SUBSET Periods /\ s.days \in SUBSET Days
  BY <1>1 DEF Week
<1>3. g \in Week
  BY <1>1, <1>2, FreshFits
<1>4. IsInjective(g.periods) /\ DOMAIN g.cells \subseteq Days \X ToSet(g.periods)
  BY <1>1, FreshPart
<1>5. /\ grid[t] = NoTemplate /\ grid' = [grid EXCEPT ![t] = g]
      /\ Call /\ UNCHANGED <<sessions, holidays, pc, job, noise>>
  BY DEF Clone
<1> HIDE DEF g
<1> QED BY <1>3, <1>4, <1>5, NewTyped

LEMMA RemoveTemplateTyped ==
  ASSUME TimetableTypeOK, NEW t \in Templates, NEW today, RemoveTemplate(t, today)
  PROVE  TimetableTypeOK'
<1> DEFINE cells == DOMAIN grid[t].cells
           future == {k \in Under(t, cells) : sessions[k].status = "scheduled" /\ DayOf(k) >= today}
<1>1. GridTypeOK /\ SessionTypeOK /\ HandlerTypeOK /\ noise \subseteq Noises
  BY DEF TimetableTypeOK
<1>2. /\ OfTemplate(t) \subseteq future /\ grid' = [grid EXCEPT ![t] = Removed]
      /\ sessions' = Without(Orphan(t, cells), future) /\ Call /\ UNCHANGED <<holidays, pc, job>>
      /\ Note(Tag((Under(t, cells) \ future) \cap Live # {}, "orphaned"))
  BY DEF RemoveTemplate
<1>3. grid \in [Templates -> Week] /\ cells \subseteq Days \X Periods
  BY <1>1, TemplateFits DEF GridTypeOK
<1>4. GridTypeOK'
  BY <1>1, <1>2, <1>3, EmptyWeeks, NoCells DEF GridTypeOK
<1> HIDE DEF future
<1>5. /\ DOMAIN sessions' = DOMAIN sessions \ future
      /\ \A k \in DOMAIN sessions' : sessions'[k] = Orphan(t, cells)[k]
      /\ sessions' \in [DOMAIN sessions' -> Session]
  <2>1. /\ Orphan(t, cells) \in [DOMAIN sessions -> Session]
        /\ DOMAIN Orphan(t, cells) = DOMAIN sessions
    BY <1>1, OrphanEffect
  <2> HIDE DEF cells
  <2> QED BY <1>2, <2>1 DEF Without, Restrict
<1>6. ASSUME NEW k \in DOMAIN sessions'
      PROVE  LET e == sessions'[k].entry IN
             /\ k[3] \in ToSet(grid'[k[2]].periods)
             /\ e # NoEntry => <<e[2], e[3]>> \in DOMAIN grid'[e[1]].cells
  <2>1. k \in DOMAIN sessions /\ k[2] # t
    BY <1>2, <1>5 DEF OfTemplate
  <2>2. k[2] \in Templates /\ k[3] \in ToSet(grid[k[2]].periods)
    BY <1>1, <2>1, SessionFits
  <2>3. k[3] \in ToSet(grid'[k[2]].periods)
    BY <1>2, <1>3, <2>1, <2>2
  <2>4. ASSUME sessions'[k].entry # NoEntry
        PROVE  <<sessions'[k].entry[2], sessions'[k].entry[3]>>
                 \in DOMAIN grid'[sessions'[k].entry[1]].cells
    <3> DEFINE e == sessions[k].entry
    <3>1. sessions'[k].entry = e /\ k \notin Under(t, cells) /\ e # NoEntry
      BY <1>1, <1>5, <2>1, <2>4, OrphanEffect
    <3>2. e[1] \in Templates /\ <<e[2], e[3]>> \in DOMAIN grid[e[1]].cells
      BY <1>1, <2>1, <3>1, SessionFits
    <3>3. e[1] # t
      BY <1>1, <1>3, <2>1, <3>1, <3>2, UnderEntry
    <3> HIDE DEF e
    <3> QED BY <1>2, <1>3, <3>1, <3>2, <3>3
  <2> QED BY <2>3, <2>4
<1>7. SessionTypeOK'
  BY <1>1, <1>5, <1>6 DEF SessionTypeOK
<1>8. noise' \subseteq Noises
  <2>1. "orphaned" \in Noises
    BY DEF Noises
  <2> QED BY <1>1, <1>2, <2>1, TagFits, NoteFits
<1> QED BY <1>1, <1>2, <1>4, <1>7, <1>8, CallFits, SameHandlers DEF TimetableTypeOK

\* What savePeriods makes of a template.
Kept(t, periods, breaks) == {c \in DOMAIN grid[t].cells : c[2] \in ToSet(periods) \ breaks}
Merged(t, periods, breaks) ==
  [c \in Kept(t, periods, breaks) |->
     [grid[t].cells[c] EXCEPT !.span = Clamped(periods, breaks, c[2], @)]]
Saved(t, periods, breaks) ==
  [grid[t] EXCEPT !.periods = periods, !.breaks = breaks, !.used = @ \cup ToSet(periods),
                  !.cells = Merged(t, periods, breaks)]

LEMMA SavedFits ==
  ASSUME GridTypeOK, NEW t \in Templates, NEW periods \in Orders, NEW breaks \in SUBSET Periods
  PROVE  LET g == Saved(t, periods, breaks) IN
         /\ g \in Week /\ g.periods = periods /\ g.breaks = breaks
         /\ g.days = grid[t].days /\ g.state = grid[t].state
         /\ g.cells = Merged(t, periods, breaks)
         /\ DOMAIN g.cells = Kept(t, periods, breaks)
         /\ \A c \in Kept(t, periods, breaks) :
              /\ g.cells[c].class = grid[t].cells[c].class
              /\ g.cells[c].span = Clamped(periods, breaks, c[2], grid[t].cells[c].span)
              /\ c[2] \in ToSet(periods) \ breaks
              /\ grid[t].cells[c].span \in Nat \ {0}
<1> DEFINE kept == Kept(t, periods, breaks)
           cells == Merged(t, periods, breaks)
<1>1. periods \in Seq(Periods) /\ ToSet(periods) \subseteq Periods
  BY OrdersFit
<1>2. /\ grid[t] \in Week /\ grid[t].cells \in [DOMAIN grid[t].cells -> Cell]
      /\ DOMAIN grid[t].cells \subseteq Days \X Periods
  BY TemplateFits
<1>3. ASSUME NEW c \in kept
      PROVE  LET cell == [grid[t].cells[c] EXCEPT !.span = Clamped(periods, breaks, c[2], @)] IN
             /\ cell \in Cell /\ cell.class = grid[t].cells[c].class
             /\ cell.span = Clamped(periods, breaks, c[2], grid[t].cells[c].span)
             /\ c[2] \in ToSet(periods) \ breaks
             /\ grid[t].cells[c].span \in Nat \ {0}
  <2>1. c[2] \in ToSet(periods) \ breaks /\ grid[t].cells[c] \in Cell
    BY <1>2 DEF Kept
  <2>2. grid[t].cells[c].span \in Nat \ {0} /\ grid[t].cells[c].span <= Cardinality(Periods)
    BY <2>1, CellSpan, SpanBound
  <2>3. Clamped(periods, breaks, c[2], grid[t].cells[c].span) \in 1 .. grid[t].cells[c].span
    BY <1>1, <2>1, <2>2, ClampedFits
  <2>4. Clamped(periods, breaks, c[2], grid[t].cells[c].span) \in 1 .. Cardinality(Periods)
    BY <2>2, <2>3, SpanBound
  <2> QED BY <2>1, <2>2, <2>4 DEF Cell
<1>4. cells \in [kept -> Cell] /\ DOMAIN cells = kept /\ kept \subseteq Days \X Periods
  BY <1>2, <1>3 DEF Merged, Kept
<1>5. cells \in PartialFunctions(Days \X Periods, Cell)
  <2> HIDE DEF cells, kept
  <2> QED BY <1>4, InPartial
<1>6. \A c \in kept : cells[c] = [grid[t].cells[c] EXCEPT !.span = Clamped(periods, breaks, c[2], @)]
  BY DEF Merged
<1>7. LET g == Saved(t, periods, breaks) IN
         /\ g \in Week /\ g.periods = periods /\ g.breaks = breaks
         /\ g.days = grid[t].days /\ g.state = grid[t].state
         /\ g.cells = Merged(t, periods, breaks)
  <2> HIDE DEF cells, kept
  <2>1. Saved(t, periods, breaks) =
          [grid[t] EXCEPT !.periods = periods, !.breaks = breaks, !.used = @ \cup ToSet(periods),
                          !.cells = cells]
    BY DEF Saved, cells
  <2> QED BY <1>1, <1>2, <1>5, <2>1 DEF Week, cells
<1> QED BY <1>3, <1>4, <1>6, <1>7

LEMMA SaveReplaces ==
  ASSUME NEW t, NEW periods, NEW breaks, SavePeriods(t, periods, breaks)
  PROVE  LET kept == Kept(t, periods, breaks) IN
         /\ Call /\ LiveTemplate(t) /\ UNCHANGED <<holidays, pc, job>>
         /\ \A k \in OfTemplate(t) : k[3] \in ToSet(periods)
         /\ Replace(t, Saved(t, periods, breaks), DOMAIN grid[t].cells \ kept,
              Raced \cup Tag(periods # grid[t].periods \/ \E c \in kept :
                    Clamped(periods, breaks, c[2], grid[t].cells[c].span)
                      # grid[t].cells[c].span, "reshaped"))
BY DEF SavePeriods, Kept, Merged, Saved

LEMMA SavePeriodsTyped ==
  ASSUME TimetableTypeOK, NEW t \in Templates, NEW periods \in Orders, NEW breaks \in SUBSET Periods,
         SavePeriods(t, periods, breaks)
  PROVE  TimetableTypeOK'
<1> DEFINE g == Saved(t, periods, breaks)
           gone == DOMAIN grid[t].cells \ Kept(t, periods, breaks)
           tags == Raced \cup Tag(periods # grid[t].periods \/ \E c \in Kept(t, periods, breaks) :
                         Clamped(periods, breaks, c[2], grid[t].cells[c].span)
                           # grid[t].cells[c].span, "reshaped")
<1>1. GridTypeOK /\ SessionTypeOK /\ HandlerTypeOK /\ noise \subseteq Noises
  BY DEF TimetableTypeOK
<1>2. /\ Call /\ UNCHANGED <<holidays, pc, job>> /\ Replace(t, g, gone, tags)
      /\ \A k \in OfTemplate(t) : k[3] \in ToSet(periods)
  BY SaveReplaces
<1>3. g \in Week /\ g.periods = periods /\ DOMAIN g.cells = Kept(t, periods, breaks)
  BY <1>1, SavedFits
<1>4. IsInjective(periods)
  BY OrdersFit
<1>5. DOMAIN grid[t].cells \subseteq Days \X Periods
  BY <1>1, TemplateFits
<1>6. Kept(t, periods, breaks) \subseteq Days \X ToSet(periods)
  BY <1>5 DEF Kept
<1>7. gone \subseteq Days \X Periods /\ DOMAIN grid[t].cells \ gone \subseteq DOMAIN g.cells
  BY <1>3, <1>5
<1>8. tags \subseteq Noises
  <2>1. "reshaped" \in Noises
    BY DEF Noises
  <2> QED BY <2>1, RacedFits, TagFits
<1> HIDE DEF g, gone, tags
<1>9. GridTypeOK' /\ SessionTypeOK'
  BY <1>1, <1>2, <1>3, <1>4, <1>6, <1>7, ReplaceTyped
<1>10. noise' \subseteq Noises
  BY <1>1, <1>2, <1>8, ReplaceNoise
<1> QED BY <1>1, <1>2, <1>9, <1>10, CallFits, SameHandlers DEF TimetableTypeOK

-----------------------------------------------------------------------------
(* Types: the handlers *)

LEMMA JobFits ==
  ASSUME HandlerTypeOK, NEW h \in Handlers
  PROVE  /\ pc[h] = "place" =>
              /\ job[h] \in Placing /\ IsInjective(job[h].periods)
              /\ job[h].period \in ToSet(job[h].periods)
              /\ job[h].template \in Templates /\ job[h].day \in Days /\ job[h].period \in Periods
              /\ job[h].periods \in Seq(Periods) /\ job[h].cell \in Cell
         /\ pc[h] \in {"wipe", "seed"} =>
              /\ job[h] \in Publishing /\ job[h].template \in Templates
              /\ job[h].asked \subseteq Days /\ job[h].days \subseteq Days
              /\ job[h].wiped \subseteq Keys /\ job[h].waits \subseteq Keys
         /\ pc[h] = "idle" => job[h] = NoJob
         /\ pc[h] \in {"idle", "place", "wipe", "seed"}
<1>1. pc[h] = "place" => job[h] \in Placing
  BY DEF HandlerTypeOK
<1>2. pc[h] \in {"wipe", "seed"} => job[h] \in Publishing
  BY DEF HandlerTypeOK
<1>3. pc[h] = "place" =>
         /\ job[h].template \in Templates /\ job[h].day \in Days /\ job[h].period \in Periods
         /\ job[h].periods \in Seq(Periods) /\ job[h].cell \in Cell
  BY <1>1 DEF Placing
<1>4. pc[h] \in {"wipe", "seed"} =>
         /\ job[h].template \in Templates
         /\ job[h].asked \subseteq Days /\ job[h].days \subseteq Days
         /\ job[h].wiped \subseteq Keys /\ job[h].waits \subseteq Keys
  BY <1>2 DEF Publishing
<1> QED BY <1>1, <1>2, <1>3, <1>4 DEF HandlerTypeOK

LEMMA ContinueFits ==
  ASSUME HandlerTypeOK, NEW h \in Handlers, NEW j,
         NEW label \in {"idle", "place", "wipe", "seed"}, Continue(h, j, label),
         label = "idle" => j = NoJob,
         label = "place" => /\ j \in Placing /\ IsInjective(j.periods) /\ j.period \in ToSet(j.periods),
         label \in {"wipe", "seed"} => j \in Publishing
  PROVE  HandlerTypeOK'
<1>1. pc' = [pc EXCEPT ![h] = label] /\ job' = [job EXCEPT ![h] = j]
  BY DEF Continue
<1>2. pc \in [Handlers -> {"idle", "place", "wipe", "seed"}] /\ DOMAIN job = Handlers
  BY DEF HandlerTypeOK
<1>3. pc' \in [Handlers -> {"idle", "place", "wipe", "seed"}] /\ DOMAIN job' = Handlers
  BY <1>1, <1>2
<1>4. pc'[h] = label /\ job'[h] = j
  BY <1>1, <1>2
<1>5. \A i \in Handlers \ {h} : pc'[i] = pc[i] /\ job'[i] = job[i]
  BY <1>1, <1>2
<1>6. ASSUME NEW i \in Handlers
      PROVE  /\ pc'[i] = "idle" => job'[i] = NoJob
             /\ pc'[i] = "place" => /\ job'[i] \in Placing /\ IsInjective(job'[i].periods)
                                    /\ job'[i].period \in ToSet(job'[i].periods)
             /\ pc'[i] \in {"wipe", "seed"} => job'[i] \in Publishing
  BY <1>4, <1>5 DEF HandlerTypeOK
<1> QED BY <1>3, <1>6 DEF HandlerTypeOK

LEMMA BeginContinues ==
  ASSUME NEW h, NEW j, NEW label, Begin(h, j, label)
  PROVE  Continue(h, j, label) /\ Call /\ pc[h] = "idle"
BY DEF Begin, Continue

LEMMA EndFits == ASSUME HandlerTypeOK, NEW h \in Handlers, End(h) PROVE HandlerTypeOK'
BY ContinueFits DEF End

LEMMA SameSessions ==
  ASSUME GridTypeOK, SessionTypeOK, UNCHANGED <<grid, sessions>>
  PROVE  GridTypeOK' /\ SessionTypeOK'
<1>1. GridTypeOK'
  BY DEF GridTypeOK
<1>2. SessionTypeOK'
  BY DEF SessionTypeOK
<1> QED BY <1>1, <1>2

LEMMA StartPlaceTyped ==
  ASSUME TimetableTypeOK, NEW h \in Handlers, NEW t \in Templates, NEW d \in Days,
         NEW p \in Periods, NEW cell \in Cell, StartPlace(h, t, d, p, cell.class, cell.span)
  PROVE  TimetableTypeOK'
<1> DEFINE j == [op |-> "place", template |-> t, day |-> d, period |-> p,
                 periods |-> grid[t].periods, cell |-> [class |-> cell.class, span |-> cell.span]]
<1>1. GridTypeOK /\ SessionTypeOK /\ HandlerTypeOK /\ noise \subseteq Noises
  BY DEF TimetableTypeOK
<1>2. /\ Begin(h, j, "place") /\ Note(Raced) /\ UNCHANGED <<grid, sessions, holidays>>
      /\ p \in ToSet(grid[t].periods)
  BY DEF StartPlace
<1>3. grid[t].periods \in Seq(Periods) /\ IsInjective(grid[t].periods)
  BY <1>1, TemplateFits
<1>4. [class |-> cell.class, span |-> cell.span] \in Cell
  BY DEF Cell
<1>5. j \in Placing /\ IsInjective(j.periods) /\ j.period \in ToSet(j.periods)
  BY <1>2, <1>3, <1>4 DEF Placing
<1> HIDE DEF j
<1>6. HandlerTypeOK'
  BY <1>1, <1>2, <1>5, BeginContinues, ContinueFits
<1>7. GridTypeOK' /\ SessionTypeOK'
  BY <1>1, <1>2, SameSessions
<1> QED BY <1>1, <1>2, <1>6, <1>7, NoteFits, RacedFits, CallFits, BeginContinues DEF TimetableTypeOK

LEMMA StartPublishTyped ==
  ASSUME TimetableTypeOK, NEW h \in Handlers, NEW t \in Templates, NEW days \in SUBSET Days,
         NEW excluded \in SUBSET Keys, StartPublish(h, t, days, excluded)
  PROVE  TimetableTypeOK'
<1> DEFINE found == {k \in DOMAIN sessions :
                       DayOf(k) \in Window(days) /\ Replaceable(k) /\ Derived(k, t)}
           j == [op |-> "publish", template |-> t, asked |-> days, days |-> Window(days),
                 excluded |-> excluded, wiped |-> {k \in found : ~Wiped(k)},
                 waits |-> {k \in found : Wiped(k)}]
<1>1. GridTypeOK /\ SessionTypeOK /\ HandlerTypeOK /\ noise \subseteq Noises
  BY DEF TimetableTypeOK
<1>2. Begin(h, j, "wipe") /\ Note(Raced) /\ UNCHANGED <<grid, sessions, holidays>>
  BY DEF StartPublish
<1>3. Window(days) \in SUBSET Days
  BY DEF Window
<1>4. {k \in found : ~Wiped(k)} \in SUBSET Keys /\ {k \in found : Wiped(k)} \in SUBSET Keys
  BY <1>1 DEF SessionTypeOK
<1>5. j \in Publishing
  <2> HIDE DEF found
  <2> QED BY <1>3, <1>4 DEF Publishing
<1> HIDE DEF j
<1>6. HandlerTypeOK'
  BY <1>1, <1>2, <1>5, BeginContinues, ContinueFits
<1>7. GridTypeOK' /\ SessionTypeOK'
  BY <1>1, <1>2, SameSessions
<1> QED BY <1>1, <1>2, <1>6, <1>7, NoteFits, RacedFits, CallFits, BeginContinues DEF TimetableTypeOK

LEMMA WipeTyped ==
  ASSUME TimetableTypeOK, NEW h \in Handlers, Wipe(h)
  PROVE  TimetableTypeOK'
<1> DEFINE still == {k \in job[h].waits \cap DOMAIN sessions :
                       Replaceable(k) /\ Derived(k, job[h].template)}
           j == [job[h] EXCEPT !.wiped = @ \cup still, !.waits = {}]
<1>1. GridTypeOK /\ SessionTypeOK /\ HandlerTypeOK /\ noise \subseteq Noises
  BY DEF TimetableTypeOK
<1>2. Continue(h, j, "seed") /\ pc[h] = "wipe" /\ UNCHANGED <<grid, sessions, holidays, calls, noise>>
  BY DEF Wipe
<1>3. job[h] \in Publishing /\ still \subseteq Keys /\ job[h].wiped \subseteq Keys
  BY <1>1, <1>2, JobFits
<1>4. j \in Publishing
  <2> HIDE DEF still
  <2> QED BY <1>3 DEF Publishing
<1> HIDE DEF j
<1>5. HandlerTypeOK'
  BY <1>1, <1>2, <1>4, ContinueFits
<1>6. GridTypeOK' /\ SessionTypeOK'
  BY <1>1, <1>2, SameSessions
<1> QED BY <1>1, <1>2, <1>5, <1>6 DEF TimetableTypeOK

\* What a placed class replaces, and the template with it in place.
Gone(j) ==
  {c \in DOMAIN grid[j.template].cells :
     /\ c[1] = j.day /\ c[2] \in ToSet(j.periods)
     /\ Overlap(j.periods, j.period, j.cell.span, c[2], grid[j.template].cells[c].span)}
Spot(j) == <<j.day, j.period>>
Laid(j) ==
  [c \in (DOMAIN grid[j.template].cells \ Gone(j)) \cup {Spot(j)} |->
     IF c = Spot(j) THEN j.cell ELSE grid[j.template].cells[c]]
Placed(j) == [grid[j.template] EXCEPT !.cells = Laid(j)]
Placeable(j) ==
  /\ j.period \in ToSet(grid[j.template].periods)
  /\ Spot(j) \notin DOMAIN grid[j.template].cells \ Gone(j)

LEMMA PlaceReplaces ==
  ASSUME TimetableTypeOK, NEW h \in Handlers, Place(h)
  PROVE  /\ pc[h] = "place" /\ End(h) /\ UNCHANGED <<holidays, calls>>
         /\ IF Placeable(job[h]) THEN Replace(job[h].template, Placed(job[h]), Gone(job[h]), {})
                                 ELSE UNCHANGED <<grid, sessions, noise>>
<1> DEFINE j == job[h]
<1>1. pc[h] = "place" /\ End(h) /\ UNCHANGED <<holidays, calls>>
  BY DEF Place
<1>2. grid[j.template] \in Week
  BY <1>1, JobFits, TemplateFits DEF TimetableTypeOK
<1>3. Placed(j) = [grid[j.template] EXCEPT !.cells =
         [c \in (DOMAIN @ \ Gone(j)) \cup {Spot(j)} |-> IF c = Spot(j) THEN j.cell ELSE @[c]]]
  BY DEF Placed, Laid
<1>4. IF Placeable(j)
        THEN Replace(j.template, [grid[j.template] EXCEPT !.cells =
           [c \in (DOMAIN @ \ Gone(j)) \cup {Spot(j)} |-> IF c = Spot(j) THEN j.cell ELSE @[c]]],
           Gone(j), {})
        ELSE UNCHANGED <<grid, sessions, noise>>
  BY DEF Place, Placeable, Gone, Spot
<1> QED BY <1>1, <1>3, <1>4

LEMMA PlacedFits ==
  ASSUME TimetableTypeOK, NEW h \in Handlers, pc[h] = "place", Placeable(job[h])
  PROVE  LET j == job[h]
             g == grid[j.template] IN
         /\ Placed(j) \in Week /\ Placed(j).periods = g.periods /\ Placed(j).breaks = g.breaks
         /\ Placed(j).days = g.days /\ Placed(j).state = g.state /\ Placed(j).cells = Laid(j)
         /\ DOMAIN Laid(j) = (DOMAIN g.cells \ Gone(j)) \cup {Spot(j)}
         /\ Laid(j)[Spot(j)] = j.cell
         /\ \A c \in DOMAIN g.cells \ Gone(j) : c # Spot(j) /\ Laid(j)[c] = g.cells[c]
         /\ Spot(j) \in Days \X ToSet(g.periods) /\ Gone(j) \subseteq DOMAIN g.cells
<1> DEFINE j == job[h]
           g == grid[j.template]
<1>1. j.template \in Templates /\ j.day \in Days /\ j.period \in Periods /\ j.cell \in Cell
  BY JobFits DEF TimetableTypeOK
<1>2. /\ g \in Week /\ g.cells \in [DOMAIN g.cells -> Cell] /\ DOMAIN g.cells \subseteq Days \X Periods
  BY <1>1, TemplateFits DEF TimetableTypeOK
<1>3. Spot(j) \in Days \X ToSet(g.periods) /\ Spot(j) \in Days \X Periods
  BY <1>1 DEF Placeable, Spot
<1>4. Gone(j) \subseteq DOMAIN g.cells
  BY DEF Gone
<1>5. \A c \in DOMAIN g.cells \ Gone(j) : c # Spot(j)
  BY DEF Placeable
<1>6. /\ DOMAIN Laid(j) = (DOMAIN g.cells \ Gone(j)) \cup {Spot(j)}
      /\ Laid(j)[Spot(j)] = j.cell
      /\ \A c \in DOMAIN g.cells \ Gone(j) : Laid(j)[c] = g.cells[c]
  BY <1>5 DEF Laid
<1>7. Laid(j) \in [DOMAIN Laid(j) -> Cell] /\ DOMAIN Laid(j) \subseteq Days \X Periods
  <2>1. \A c \in DOMAIN Laid(j) : Laid(j)[c] \in Cell
    BY <1>1, <1>2, <1>6
  <2>2. Laid(j) = [c \in DOMAIN Laid(j) |-> Laid(j)[c]]
    BY DEF Laid
  <2> QED BY <1>2, <1>3, <1>6, <2>1, <2>2
<1>8. Laid(j) \in PartialFunctions(Days \X Periods, Cell)
  BY <1>7, InPartial
<1>9. /\ Placed(j) \in Week /\ Placed(j).periods = g.periods /\ Placed(j).breaks = g.breaks
      /\ Placed(j).days = g.days /\ Placed(j).state = g.state /\ Placed(j).cells = Laid(j)
  BY <1>2, <1>8 DEF Placed, Week
<1> QED BY <1>3, <1>4, <1>5, <1>6, <1>9

LEMMA PlaceTyped ==
  ASSUME TimetableTypeOK, NEW h \in Handlers, Place(h)
  PROVE  TimetableTypeOK'
<1> DEFINE j == job[h]
           t == j.template
<1>1. GridTypeOK /\ SessionTypeOK /\ HandlerTypeOK /\ noise \subseteq Noises
  BY DEF TimetableTypeOK
<1>2. pc[h] = "place" /\ End(h) /\ UNCHANGED <<holidays, calls>>
  BY PlaceReplaces
<1>3. HandlerTypeOK'
  BY <1>1, <1>2, EndFits
<1>4. GridTypeOK' /\ SessionTypeOK' /\ noise' \subseteq Noises
  <2>1. CASE Placeable(j)
    <3>1. t \in Templates
      BY <1>1, <1>2, JobFits
    <3>2. Replace(t, Placed(j), Gone(j), {})
      BY <2>1, PlaceReplaces
    <3>3. /\ IsInjective(grid[t].periods) /\ DOMAIN grid[t].cells \subseteq Days \X ToSet(grid[t].periods)
          /\ DOMAIN grid[t].cells \subseteq Days \X Periods
      BY <1>1, <3>1, TemplateFits
    <3>4. /\ Placed(j) \in Week /\ Placed(j).periods = grid[t].periods
          /\ DOMAIN Placed(j).cells = (DOMAIN grid[t].cells \ Gone(j)) \cup {Spot(j)}
          /\ Spot(j) \in Days \X ToSet(grid[t].periods) /\ Gone(j) \subseteq DOMAIN grid[t].cells
      BY <1>2, <2>1, PlacedFits
    <3>5. \A k \in OfTemplate(t) : k[3] \in ToSet(Placed(j).periods)
      BY <1>1, <3>4, OfTemplateFits
    <3> HIDE DEF j, t
    <3>6. GridTypeOK' /\ SessionTypeOK'
      BY <1>1, <3>1, <3>2, <3>3, <3>4, <3>5, ReplaceTyped
    <3>7. noise' \subseteq Noises
      BY <1>1, <3>2, ReplaceNoise
    <3> QED BY <3>6, <3>7
  <2>2. CASE ~Placeable(j)
    <3>1. UNCHANGED <<grid, sessions, noise>>
      BY <2>2, PlaceReplaces
    <3> QED BY <1>1, <3>1, SameSessions
  <2> QED BY <2>1, <2>2
<1> QED BY <1>2, <1>3, <1>4 DEF TimetableTypeOK

-----------------------------------------------------------------------------
(* Types: publishes and the requests on sessions *)

Left(h) == DOMAIN sessions \ job[h].wiped
New(h) == {k \in Seeds(job[h].template, job[h].days) \ (Left(h) \cup job[h].excluded) :
             ~Occupied(k, Left(h))}

LEMMA SeedFits ==
  ASSUME GridTypeOK, NEW t \in Templates, NEW days, NEW k \in Seeds(t, days)
  PROVE  /\ k \in Keys /\ k[2] = t /\ k[1] \in days /\ k[1] \in Days /\ k[3] \in Periods
         /\ <<k[1], k[3]>> \in DOMAIN grid[t].cells
         /\ k[3] \in ToSet(grid[t].periods)
         /\ grid[t].cells[<<k[1], k[3]>>] \in Cell
         /\ RowOf(k) \in RowsOf[grid[t].cells[<<k[1], k[3]>>].class]
<1>1. /\ k \in Keys /\ k[2] = t /\ k[1] \in days /\ <<k[1], k[3]>> \in DOMAIN grid[t].cells
      /\ RowOf(k) \in RowsOf[grid[t].cells[<<k[1], k[3]>>].class]
  BY DEF Seeds, DayOf
<1>2. /\ grid[t].cells \in [DOMAIN grid[t].cells -> Cell]
      /\ DOMAIN grid[t].cells \subseteq Days \X ToSet(grid[t].periods)
  BY TemplateFits
<1>3. k[1] \in Days /\ k[3] \in Periods
  BY <1>1 DEF Keys
<1> QED BY <1>1, <1>2, <1>3

LEMMA PublishEffect ==
  ASSUME TimetableTypeOK, NEW h \in Handlers, Publish(h)
  PROVE  /\ pc[h] = "seed" /\ job[h] \in Publishing /\ job[h].template \in Templates
         /\ End(h) /\ UNCHANGED <<grid, holidays, calls>>
         /\ Note(Tag(\E o \in Left(h) : /\ sessions[o].status = "completed" /\ DayOf(o) \in job[h].days
                                        /\ o[2] # job[h].template, "switched"))
         /\ DOMAIN sessions' = Left(h) \cup New(h) /\ New(h) \cap Left(h) = {}
         /\ sessions' \in [DOMAIN sessions' -> Session]
         /\ \A k \in Left(h) : sessions'[k] = sessions[k]
         /\ New(h) \subseteq Seeds(job[h].template, job[h].days)
         /\ \A k \in New(h) :
              /\ sessions'[k].entry = EntryOf(job[h].template, k[1], k[3])
              /\ sessions'[k].status = "scheduled"
              /\ sessions'[k].span = grid[job[h].template].cells[<<k[1], k[3]>>].span
<1> DEFINE t == job[h].template
           Seed(k) == [entry |-> EntryOf(t, k[1], k[3]), status |-> "scheduled",
                       span |-> grid[t].cells[<<k[1], k[3]>>].span]
<1>1. GridTypeOK /\ SessionTypeOK /\ HandlerTypeOK /\ noise \subseteq Noises
  BY DEF TimetableTypeOK
<1>2. /\ pc[h] = "seed" /\ End(h) /\ UNCHANGED <<grid, holidays, calls>>
      /\ sessions' = [k \in Left(h) \cup New(h) |-> IF k \in New(h) THEN Seed(k) ELSE sessions[k]]
      /\ Note(Tag(\E o \in Left(h) : /\ sessions[o].status = "completed" /\ DayOf(o) \in job[h].days
                                     /\ o[2] # job[h].template, "switched"))
  BY DEF Publish, Left, New, DayOf
<1>3. job[h] \in Publishing /\ t \in Templates
  BY <1>1, <1>2, JobFits
<1>4. New(h) \subseteq Seeds(t, job[h].days) /\ New(h) \cap Left(h) = {}
  BY DEF New
<1>5. ASSUME NEW k \in New(h) PROVE Seed(k) \in Session
  <2>1. k \in Seeds(t, job[h].days)
    BY <1>4
  <2>2. grid[t].cells[<<k[1], k[3]>>] \in Cell /\ k[1] \in Days /\ k[3] \in Periods
    BY <1>1, <1>3, <2>1, SeedFits
  <2>3. grid[t].cells[<<k[1], k[3]>>].span \in 1 .. Cardinality(Periods)
    BY <2>2, CellSpan
  <2>4. EntryOf(t, k[1], k[3]) \in Templates \X Days \X Periods
    BY <1>3, <2>2 DEF EntryOf
  <2> QED BY <2>3, <2>4 DEF Session, Statuses
<1>6. \A k \in Left(h) : sessions[k] \in Session
  BY <1>1, SessionFits DEF Left
<1> HIDE DEF Seed
<1>7. DOMAIN sessions' = Left(h) \cup New(h)
  BY <1>2
<1>8. \A k \in Left(h) \cup New(h) : sessions'[k] = IF k \in New(h) THEN Seed(k) ELSE sessions[k]
  BY <1>2
<1>9. sessions' \in [DOMAIN sessions' -> Session]
  BY <1>2, <1>5, <1>6
<1>10. /\ \A k \in Left(h) : sessions'[k] = sessions[k]
       /\ \A k \in New(h) : sessions'[k] = Seed(k)
  BY <1>4, <1>8
<1> QED BY <1>2, <1>3, <1>4, <1>7, <1>9, <1>10 DEF Seed

LEMMA PublishTyped ==
  ASSUME TimetableTypeOK, NEW h \in Handlers, Publish(h)
  PROVE  TimetableTypeOK'
<1> DEFINE t == job[h].template
<1>1. GridTypeOK /\ SessionTypeOK /\ HandlerTypeOK /\ noise \subseteq Noises
  BY DEF TimetableTypeOK
<1>2. t \in Templates /\ End(h) /\ UNCHANGED <<grid, holidays, calls>>
  BY PublishEffect
<1>3. /\ DOMAIN sessions' = Left(h) \cup New(h)
      /\ sessions' \in [DOMAIN sessions' -> Session]
      /\ \A k \in Left(h) : sessions'[k] = sessions[k]
      /\ New(h) \subseteq Seeds(t, job[h].days)
      /\ \A k \in New(h) : sessions'[k].entry = EntryOf(t, k[1], k[3])
  BY PublishEffect
<1>4. HandlerTypeOK'
  BY <1>1, <1>2, EndFits
<1>5. GridTypeOK'
  BY <1>1, <1>2 DEF GridTypeOK
<1>6. ASSUME NEW k \in DOMAIN sessions'
      PROVE  LET e == sessions'[k].entry IN
             /\ k \in Keys /\ k[3] \in ToSet(grid[k[2]].periods)
             /\ e # NoEntry => <<e[2], e[3]>> \in DOMAIN grid[e[1]].cells
  <2>1. CASE k \in Left(h)
    BY <1>1, <1>3, <2>1, SessionFits DEF Left
  <2>2. CASE k \in New(h)
    <3>1. k \in Seeds(t, job[h].days) /\ sessions'[k].entry = EntryOf(t, k[1], k[3])
      BY <1>3, <2>2
    <3>2. /\ k \in Keys /\ k[2] = t /\ k[3] \in ToSet(grid[t].periods)
          /\ <<k[1], k[3]>> \in DOMAIN grid[t].cells
      BY <1>1, <1>2, <3>1, SeedFits
    <3>3. /\ EntryOf(t, k[1], k[3])[1] = t /\ EntryOf(t, k[1], k[3])[2] = k[1]
          /\ EntryOf(t, k[1], k[3])[3] = k[3]
      BY DEF EntryOf
    <3> HIDE DEF t
    <3> QED BY <3>1, <3>2, <3>3
  <2> QED BY <1>3, <2>1, <2>2
<1>7. SessionTypeOK'
  BY <1>2, <1>3, <1>6 DEF SessionTypeOK
<1>8. noise' \subseteq Noises
  <2>1. "switched" \in Noises
    BY DEF Noises
  <2> QED BY <1>1, <2>1, PublishEffect, TagFits, NoteFits
<1> QED BY <1>1, <1>2, <1>4, <1>5, <1>7, <1>8 DEF TimetableTypeOK

LEMMA FailTyped ==
  ASSUME TimetableTypeOK, NEW h \in Handlers, Fail(h)
  PROVE  TimetableTypeOK'
<1>1. GridTypeOK /\ SessionTypeOK /\ HandlerTypeOK
  BY DEF TimetableTypeOK
<1>2. End(h) /\ UNCHANGED <<grid, sessions, holidays, calls, noise>>
  BY DEF Fail
<1> QED BY <1>1, <1>2, EndFits, SameSessions DEF TimetableTypeOK

LEMMA SetStatusTyped ==
  ASSUME TimetableTypeOK, NEW k \in DOMAIN sessions, NEW from, NEW to \in Statuses,
         NEW tags, tags \subseteq Noises, SetStatus(k, from, to, tags)
  PROVE  TimetableTypeOK'
<1>1. GridTypeOK /\ SessionTypeOK /\ HandlerTypeOK /\ noise \subseteq Noises
  BY DEF TimetableTypeOK
<1>2. /\ sessions' = [sessions EXCEPT ![k].status = to] /\ Call /\ Note(tags)
      /\ UNCHANGED <<grid, holidays, pc, job>>
  BY DEF SetStatus
<1>3. sessions \in [DOMAIN sessions -> Session]
  BY <1>1 DEF SessionTypeOK
<1>4. [sessions[k] EXCEPT !.status = to] \in Session
      /\ [sessions[k] EXCEPT !.status = to].entry = sessions[k].entry
  BY <1>3 DEF Session
<1>5. /\ sessions' \in [DOMAIN sessions -> Session] /\ DOMAIN sessions' = DOMAIN sessions
      /\ \A o \in DOMAIN sessions : sessions'[o].entry = sessions[o].entry
  BY <1>2, <1>3, <1>4
<1>6. SessionTypeOK'
  BY <1>1, <1>2, <1>5 DEF SessionTypeOK
<1>7. GridTypeOK'
  BY <1>1, <1>2 DEF GridTypeOK
<1> QED BY <1>1, <1>2, <1>6, <1>7, NoteFits, CallFits, SameHandlers DEF TimetableTypeOK

LEMMA KeyFits ==
  ASSUME NEW k \in Keys
  PROVE  /\ k[1] \in Days /\ k[2] \in Templates /\ k[3] \in Periods /\ k[4] \in Rows
         /\ k = <<k[1], k[2], k[3], k[4]>>
BY DEF Keys

LEMMA AddedTyped ==
  ASSUME TimetableTypeOK, NEW gone, NEW to \in Keys, to[3] \in ToSet(grid[to[2]].periods),
         NEW s \in Session,
         s.entry # NoEntry => <<s.entry[2], s.entry[3]>> \in DOMAIN grid[s.entry[1]].cells,
         sessions' = [o \in DOMAIN sessions' |-> sessions'[o]],
         DOMAIN sessions' = (DOMAIN sessions \ gone) \cup {to}, sessions'[to] = s,
         \A o \in DOMAIN sessions' \ {to} : sessions'[o] = sessions[o],
         NEW tag \in Noises, Note({tag}), Call, UNCHANGED <<grid, holidays, pc, job>>
  PROVE  TimetableTypeOK'
<1>1. GridTypeOK /\ SessionTypeOK /\ HandlerTypeOK /\ noise \subseteq Noises
  BY DEF TimetableTypeOK
<1>2. \A o \in DOMAIN sessions : sessions[o] \in Session
  BY <1>1, SessionFits
<1>3. /\ DOMAIN sessions' = (DOMAIN sessions \ gone) \cup {to}
      /\ sessions' \in [DOMAIN sessions' -> Session]
      /\ \A o \in DOMAIN sessions' : sessions'[o] = IF o = to THEN s ELSE sessions[o]
  BY <1>2
<1>4. ASSUME NEW k \in DOMAIN sessions'
      PROVE  LET e == sessions'[k].entry IN
             /\ k \in Keys /\ k[3] \in ToSet(grid[k[2]].periods)
             /\ e # NoEntry => <<e[2], e[3]>> \in DOMAIN grid[e[1]].cells
  <2>1. CASE k = to
    BY <1>3, <2>1
  <2>2. CASE k # to
    BY <1>1, <1>3, <2>2, SessionFits
  <2> QED BY <2>1, <2>2
<1>5. SessionTypeOK'
  BY <1>3, <1>4 DEF SessionTypeOK
<1>6. GridTypeOK'
  BY <1>1 DEF GridTypeOK
<1> QED BY <1>1, <1>5, <1>6, NoteFits, CallFits, SameHandlers DEF TimetableTypeOK

LEMMA MoveTyped ==
  ASSUME TimetableTypeOK, NEW k \in DOMAIN sessions, NEW to \in Keys, Move(k, to)
  PROVE  TimetableTypeOK'
<1>1. /\ to[3] \in ToSet(grid[to[2]].periods) /\ Note({"moved"}) /\ Call
      /\ sessions' = [o \in (DOMAIN sessions \ {k}) \cup {to} |->
                        IF o = to THEN sessions[k] ELSE sessions[o]]
      /\ UNCHANGED <<grid, holidays, pc, job>>
  BY DEF Move
<1>2. /\ sessions[k] \in Session
      /\ sessions[k].entry # NoEntry =>
           <<sessions[k].entry[2], sessions[k].entry[3]>> \in DOMAIN grid[sessions[k].entry[1]].cells
  BY SessionFits DEF TimetableTypeOK
<1>3. "moved" \in Noises
  BY DEF Noises
<1>4. /\ sessions' = [o \in DOMAIN sessions' |-> sessions'[o]]
      /\ DOMAIN sessions' = (DOMAIN sessions \ {k}) \cup {to} /\ sessions'[to] = sessions[k]
      /\ \A o \in DOMAIN sessions' \ {to} : sessions'[o] = sessions[o]
  BY <1>1
<1> QED BY <1>1, <1>2, <1>3, <1>4, AddedTyped

LEMMA CreateAdHocTyped ==
  ASSUME TimetableTypeOK, NEW k \in Keys, CreateAdHoc(k)
  PROVE  TimetableTypeOK'
<1> DEFINE s == [entry |-> NoEntry, status |-> "scheduled", span |-> 1]
<1>1. /\ k[3] \in ToSet(grid[k[2]].periods) /\ Note({"adHoc"}) /\ Call
      /\ sessions' = [o \in DOMAIN sessions \cup {k} |-> IF o = k THEN s ELSE sessions[o]]
      /\ UNCHANGED <<grid, holidays, pc, job>>
  BY DEF CreateAdHoc
<1>2. 1 \in 1 .. Cardinality(Periods)
  <2>1. Cardinality(Periods) \in Nat /\ IsFiniteSet(Periods) /\ k[3] \in Periods
    BY SpanBound, KeyFits, TimetableAssumption
  <2>2. Cardinality(Periods) # 0
    BY <2>1, FS_EmptySet
  <2> QED BY <2>1, <2>2
<1>3. s \in Session /\ s.entry = NoEntry
  BY <1>2 DEF Session, Statuses
<1>4. "adHoc" \in Noises
  BY DEF Noises
<1> HIDE DEF s
<1>5. /\ sessions' = [o \in DOMAIN sessions' |-> sessions'[o]]
      /\ DOMAIN sessions' = (DOMAIN sessions \ {}) \cup {k} /\ sessions'[k] = s
      /\ \A o \in DOMAIN sessions' \ {k} : sessions'[o] = sessions[o]
  BY <1>1
<1> QED BY <1>1, <1>3, <1>4, <1>5, AddedTyped

\* A holiday cancels scheduled sessions nobody has deleted, and does nothing else
\* to the sessions.
LEMMA HolidayEffect ==
  ASSUME SessionTypeOK, NEW from, NEW to, DeclareHoliday(from, to)
  PROVE  /\ sessions' \in [DOMAIN sessions -> Session] /\ DOMAIN sessions' = DOMAIN sessions
         /\ \A k \in DOMAIN sessions :
              /\ sessions'[k].entry = sessions[k].entry /\ sessions'[k].span = sessions[k].span
              /\ sessions'[k] # sessions[k] =>
                   ~Wiped(k) /\ sessions[k].status = "scheduled" /\ sessions'[k].status = "cancelled"
<1> DEFINE caught == {k \in DOMAIN sessions : /\ DayOf(k) \in {d \in Days : from <= d /\ d <= to}
                                             /\ sessions[k].status = "scheduled"}
<1>1. /\ \A k \in caught : ~Wiped(k)
      /\ sessions' = [k \in DOMAIN sessions |->
                        IF k \in caught THEN [sessions[k] EXCEPT !.status = "cancelled"] ELSE sessions[k]]
  BY DEF DeclareHoliday
<1>2. \A k \in caught : sessions[k].status = "scheduled"
  OBVIOUS
<1> HIDE DEF caught
<1>3. \A k \in DOMAIN sessions : sessions[k] \in Session
  BY SessionFits
<1>4. \A s \in Session : LET c == [s EXCEPT !.status = "cancelled"] IN
        c \in Session /\ c.entry = s.entry /\ c.span = s.span /\ c.status = "cancelled"
  BY DEF Session, Statuses
<1> QED BY <1>1, <1>2, <1>3, <1>4

LEMMA DeclareHolidayTyped ==
  ASSUME TimetableTypeOK, NEW from \in Days, NEW to \in Days, DeclareHoliday(from, to)
  PROVE  TimetableTypeOK'
<1>1. GridTypeOK /\ SessionTypeOK /\ HandlerTypeOK /\ holidays \subseteq Days
  BY DEF TimetableTypeOK
<1>2. /\ Call /\ holidays' = holidays \cup {d \in Days : from <= d /\ d <= to}
      /\ UNCHANGED <<grid, pc, job, noise>>
  BY DEF DeclareHoliday
<1>3. SessionTypeOK'
  BY <1>1, <1>2, HolidayEffect DEF SessionTypeOK
<1>4. GridTypeOK'
  BY <1>1, <1>2 DEF GridTypeOK
<1> QED BY <1>1, <1>2, <1>3, <1>4, SameHandlers, CallFits DEF TimetableTypeOK

LEMMA RemoveHolidayTyped ==
  ASSUME TimetableTypeOK, NEW from \in Days, NEW to \in Days, RemoveHoliday(from, to)
  PROVE  TimetableTypeOK'
<1>1. GridTypeOK /\ SessionTypeOK /\ HandlerTypeOK /\ holidays \subseteq Days
  BY DEF TimetableTypeOK
<1>2. /\ Call /\ holidays' \subseteq holidays /\ UNCHANGED <<grid, sessions, pc, job, noise>>
  BY DEF RemoveHoliday
<1> QED BY <1>1, <1>2, SameSessions, SameHandlers, CallFits DEF TimetableTypeOK

-----------------------------------------------------------------------------
(* Types: every step *)

LEMMA TemplateRequestTyped ==
  ASSUME TimetableTypeOK, NEW t \in Templates, TemplateRequest(t)
  PROVE  TimetableTypeOK'
<1>1. ASSUME NEW periods \in Orders, NEW breaks \in SUBSET Periods, SavePeriods(t, periods, breaks)
      PROVE  TimetableTypeOK'
  BY <1>1, SavePeriodsTyped
<1>2. ASSUME NEW breaks \in SUBSET ToSet(FirstPeriods), Create(t, breaks, Days)
      PROVE  TimetableTypeOK'
  BY <1>2, CreateTyped
<1>3. ASSUME NEW source \in Templates, Clone(t, source) PROVE TimetableTypeOK'
  BY <1>3, CloneTyped
<1>4. ASSUME NEW days \in SUBSET Days, UpdateDays(t, days) PROVE TimetableTypeOK'
  BY <1>4, UpdateDaysTyped
<1>5. ASSUME NEW class \in Classes, RemoveCourse(t, class) PROVE TimetableTypeOK'
  BY <1>5, RemoveCourseTyped
<1>6. ASSUME NEW today \in Days, RemoveTemplate(t, today) PROVE TimetableTypeOK'
  BY <1>6, RemoveTemplateTyped
<1>7. ASSUME NEW d \in Days, NEW p \in Periods, Clear(t, d, p) PROVE TimetableTypeOK'
  BY <1>7, ClearTyped
<1> QED BY <1>1, <1>2, <1>3, <1>4, <1>5, <1>6, <1>7 DEF TemplateRequest

LEMMA SessionRequestTyped ==
  ASSUME TimetableTypeOK, SessionRequest
  PROVE  TimetableTypeOK'
<1>1. {} \subseteq Noises /\ {"reopened"} \subseteq Noises
      /\ "completed" \in Statuses /\ "cancelled" \in Statuses /\ "scheduled" \in Statuses
  BY DEF Noises, Statuses
<1>2. ASSUME NEW k \in DOMAIN sessions,
             \/ SetStatus(k, "scheduled", "completed", {})
             \/ SetStatus(k, "scheduled", "cancelled", {})
             \/ SetStatus(k, "cancelled", "scheduled", {"reopened"})
      PROVE  TimetableTypeOK'
  BY <1>1, <1>2, SetStatusTyped
<1>3. ASSUME NEW k \in DOMAIN sessions, NEW to \in Keys, Move(k, to) PROVE TimetableTypeOK'
  BY <1>3, MoveTyped
<1>4. ASSUME NEW k \in Keys, CreateAdHoc(k) PROVE TimetableTypeOK'
  BY <1>4, CreateAdHocTyped
<1>5. ASSUME NEW from \in Days, NEW to \in Days, DeclareHoliday(from, to) \/ RemoveHoliday(from, to)
      PROVE  TimetableTypeOK'
  BY <1>5, DeclareHolidayTyped, RemoveHolidayTyped
<1> QED BY <1>2, <1>3, <1>4, <1>5 DEF SessionRequest

LEMMA StartTyped ==
  ASSUME TimetableTypeOK, NEW h \in Handlers, Start(h)
  PROVE  TimetableTypeOK'
<1>1. ASSUME NEW t \in Templates, NEW d \in Days, NEW p \in Periods, NEW cell \in Cell,
             StartPlace(h, t, d, p, cell.class, cell.span)
      PROVE  TimetableTypeOK'
  BY <1>1, StartPlaceTyped
<1>2. ASSUME NEW t \in Templates, NEW days \in SUBSET Days,
             \/ StartPublish(h, t, days, {})
             \/ \E k \in Seeds(t, days) : StartPublish(h, t, days, {k})
      PROVE  TimetableTypeOK'
  <2>1. {} \in SUBSET Keys /\ \A k \in Seeds(t, days) : {k} \in SUBSET Keys
    BY DEF Seeds
  <2> QED BY <1>2, <2>1, StartPublishTyped
<1> QED BY <1>1, <1>2 DEF Start

LEMMA TimetableTypeStep == ASSUME TimetableTypeOK, TimetableNext PROVE TimetableTypeOK'
<1>1. ASSUME NEW t \in Templates, TemplateRequest(t) PROVE TimetableTypeOK'
  BY <1>1, TemplateRequestTyped
<1>2. ASSUME SessionRequest PROVE TimetableTypeOK'
  BY <1>2, SessionRequestTyped
<1>3. ASSUME NEW h \in Handlers, Start(h) PROVE TimetableTypeOK'
  BY <1>3, StartTyped
<1>4. ASSUME NEW h \in Handlers, Place(h) \/ Wipe(h) \/ Publish(h) \/ Fail(h) PROVE TimetableTypeOK'
  BY <1>4, PlaceTyped, WipeTyped, PublishTyped, FailTyped
<1> QED BY <1>1, <1>2, <1>3, <1>4 DEF TimetableNext

LEMMA FirstWeeks ==
  ASSUME TimetableInit, NEW t \in Templates
  PROVE  /\ grid[t] \in Week /\ IsInjective(grid[t].periods) /\ WellFormed(grid[t])
         /\ DOMAIN grid[t].cells \subseteq Days \X ToSet(grid[t].periods)
         /\ grid[t].state # "removed"
<1>1. CASE grid[t] = NoTemplate
  BY <1>1, EmptyWeeks, NoCells DEF TimetableInit
<1>2. CASE \E cells \in FirstGrids : grid[t] = Fresh(FirstPeriods, {}, Days, cells)
  <2>1. PICK cells \in FirstGrids : grid[t] = Fresh(FirstPeriods, {}, Days, cells)
    BY <1>2
  <2>2. FirstPeriods \in Seq(Periods) /\ IsInjective(FirstPeriods)
    BY TimetableAssumption
  <2>3. /\ cells \in PartialFunctions(Days \X Periods, Cell)
        /\ DOMAIN cells \subseteq Days \X ToSet(FirstPeriods)
    BY FirstCells
  <2>4. {} \in SUBSET Periods /\ Days \in SUBSET Days
    OBVIOUS
  <2>5. Fresh(FirstPeriods, {}, Days, cells) \in Week
    BY <2>2, <2>3, <2>4, FreshFits
  <2> QED BY <2>1, <2>2, <2>3, <2>5, FreshPart DEF TimetableInit
<1> QED BY <1>1, <1>2 DEF TimetableInit

LEMMA TimetableTypeInit == TimetableInit => TimetableTypeOK
<1> SUFFICES ASSUME TimetableInit PROVE TimetableTypeOK
  OBVIOUS
<1>1. grid \in [Templates -> Week]
  <2>1. grid = [t \in Templates |-> grid[t]]
    BY DEF TimetableInit
  <2> QED BY <2>1, FirstWeeks
<1>2. GridTypeOK
  BY <1>1, FirstWeeks DEF GridTypeOK
<1>3. SessionTypeOK
  <2>1. sessions = <<>> /\ DOMAIN sessions = {} /\ sessions = [k \in {} |-> k]
    BY NoCells DEF TimetableInit
  <2> QED BY <2>1 DEF SessionTypeOK
<1>4. HandlerTypeOK
  BY DEF TimetableInit, HandlerTypeOK
<1> QED BY <1>2, <1>3, <1>4, TimetableAssumption DEF TimetableTypeOK, TimetableInit

LEMMA TimetableTypeStutter ==
  ASSUME TimetableTypeOK, UNCHANGED timetableVars PROVE TimetableTypeOK'
BY SameSessions, SameHandlers DEF TimetableTypeOK, timetableVars

LEMMA TimetableTypes == TimetableSpec => []TimetableTypeOK
<1>1. TimetableTypeOK /\ [TimetableNext]_timetableVars => TimetableTypeOK'
  BY TimetableTypeStep, TimetableTypeStutter
<1> QED BY <1>1, TimetableTypeInit, PTL DEF TimetableSpec

-----------------------------------------------------------------------------
(* The grid *)

\* A step without the tag "overlap" meets no other request under way.
OneAtATime ==
  "overlap" \notin noise => \A h, i \in Handlers : pc[h] # "idle" /\ pc[i] # "idle" => h = i

\* A placement under way has read what its template still is, unless the
\* template has been removed under it.
PlacesFit ==
  "overlap" \notin noise => \A h \in Handlers : pc[h] = "place" =>
    LET j == job[h]
        g == grid[j.template]
    IN \/ g.state = "removed" /\ g.periods = <<>>
       \/ /\ j.periods = g.periods /\ j.day \in g.days
          /\ Fits(g.periods, g.breaks, j.period, j.cell.span)

GridFits == GridInv /\ OneAtATime /\ PlacesFit

Spanned(g) == \A c \in DOMAIN g.cells : Fits(g.periods, g.breaks, c[2], g.cells[c].span)

LEMMA SpansWell ==
  ASSUME GridInv, NEW t \in Templates
  PROVE  /\ "overlap" \notin noise => Spanned(grid[t])
         /\ noise \cap {"overlap", "reshaped"} = {} => WellFormed(grid[t])
BY DEF GridInv, SpansFit, CellsDisjoint, Spanned

LEMMA NoteGrows == ASSUME NEW tags, Note(tags) PROVE noise \subseteq noise' /\ tags \subseteq noise'
BY DEF Note

LEMMA ReplaceGrows ==
  ASSUME NEW t, NEW g, NEW gone, NEW tags, Replace(t, g, gone, tags)
  PROVE  /\ noise \subseteq noise' /\ tags \subseteq noise'
         /\ Under(t, gone) \cap Live # {} => "orphaned" \in noise'
         /\ grid' = [grid EXCEPT ![t] = g] /\ sessions' = Orphan(t, gone)
         /\ \A k \in Under(t, gone) : ~Wiped(k)
BY DEF Replace, Note, Tag

LEMMA RacedAlone ==
  ASSUME Raced \subseteq noise', "overlap" \notin noise', NEW h \in Handlers
  PROVE  pc[h] = "idle"
BY DEF Raced, Tag, Busy

\* One template changes: the others keep what they had.
LEMMA WeekStep ==
  ASSUME GridInv, TimetableTypeOK', NEW t \in Templates, NEW g,
         grid' = [grid EXCEPT ![t] = g], noise \subseteq noise',
         "overlap" \notin noise' => Spanned(g),
         noise' \cap {"overlap", "reshaped"} = {} => WellFormed(g)
  PROVE  GridInv'
<1>1. grid \in [Templates -> Week]
  BY DEF GridInv, TimetableTypeOK, GridTypeOK
<1>2. SpansFit'
  <2> SUFFICES ASSUME "overlap" \notin noise', NEW u \in Templates PROVE Spanned(grid'[u])
    BY DEF SpansFit, Spanned
  <2>1. grid'[u] = IF u = t THEN g ELSE grid[u]
    BY <1>1
  <2>2. Spanned(grid[u])
    BY SpansWell
  <2> QED BY <2>1, <2>2
<1>3. CellsDisjoint'
  <2> SUFFICES ASSUME noise' \cap {"overlap", "reshaped"} = {}, NEW u \in Templates
               PROVE  WellFormed(grid'[u])
    BY DEF CellsDisjoint
  <2>1. grid'[u] = IF u = t THEN g ELSE grid[u]
    BY <1>1
  <2>2. WellFormed(grid[u])
    BY SpansWell
  <2> QED BY <2>1, <2>2
<1> QED BY <1>2, <1>3 DEF GridInv

LEMMA SameWeeks ==
  ASSUME GridInv, TimetableTypeOK', UNCHANGED grid, noise \subseteq noise'
  PROVE  GridInv'
BY DEF GridInv, SpansFit, CellsDisjoint

\* With nobody else under way, there is nothing to keep for a placement.
LEMMA AloneFits ==
  ASSUME Raced \subseteq noise', UNCHANGED <<pc, job>>
  PROVE  OneAtATime' /\ PlacesFit'
BY RacedAlone DEF OneAtATime, PlacesFit

-----------------------------------------------------------------------------
(* The grid under requests on templates *)

LEMMA PrunedWell ==
  ASSUME NEW g \in Week, NEW gone, NEW r,
         r.periods = g.periods, r.breaks = g.breaks, r.cells = Without(g.cells, gone),
         \A c \in DOMAIN g.cells \ gone : c[1] \in g.days => c[1] \in r.days
  PROVE  /\ Spanned(g) => Spanned(r)
         /\ WellFormed(g) => WellFormed(r)
<1>1. r.periods = g.periods /\ r.breaks = g.breaks /\ r.cells = Without(g.cells, gone)
  OBVIOUS
<1>2. g.cells \in PartialFunctions(Days \X Periods, Cell) /\ DOMAIN g.cells \subseteq Days \X Periods
  BY CellsFit DEF Week
<1>3. /\ DOMAIN r.cells = DOMAIN g.cells \ gone
      /\ \A c \in DOMAIN r.cells : r.cells[c] = g.cells[c]
  <2>1. /\ DOMAIN Without(g.cells, gone) = DOMAIN g.cells \ gone
        /\ \A c \in DOMAIN g.cells \ gone : Without(g.cells, gone)[c] = g.cells[c]
    BY <1>2, WithoutFits
  <2> QED BY <1>1, <2>1
<1>4. Spanned(g) => Spanned(r)
  BY <1>1, <1>3 DEF Spanned
<1>5. ASSUME WellFormed(g) PROVE WellFormed(r)
  <2>1. DOMAIN r.cells \subseteq r.days \X (ToSet(r.periods) \ r.breaks)
    <3> SUFFICES ASSUME NEW c \in DOMAIN r.cells
                 PROVE  c \in r.days \X (ToSet(r.periods) \ r.breaks)
      OBVIOUS
    <3>1. c \in g.days \X (ToSet(g.periods) \ g.breaks) /\ c \in DOMAIN g.cells \ gone
      BY <1>3, <1>5 DEF WellFormed
    <3>2. c[1] \in r.days
      BY <3>1
    <3> QED BY <1>1, <3>1, <3>2
  <2>2. ASSUME NEW c \in DOMAIN r.cells
        PROVE  /\ Fits(r.periods, r.breaks, c[2], r.cells[c].span)
               /\ \A o \in DOMAIN r.cells \ {c} :
                    o[1] = c[1] => Run(r.periods, c[2], r.cells[c].span)
                                     \cap Run(r.periods, o[2], r.cells[o].span) = {}
    BY <1>1, <1>3, <1>5 DEF WellFormed
  <2> QED BY <2>1, <2>2 DEF WellFormed
<1> QED BY <1>4, <1>5

LEMMA Pruning ==
  ASSUME NEW g \in Week, NEW gone, NEW days \in SUBSET Days
  PROVE  /\ LET r == [g EXCEPT !.days = days, !.cells = Without(@, gone)] IN
            /\ r.periods = g.periods /\ r.breaks = g.breaks /\ r.days = days
            /\ r.cells = Without(g.cells, gone)
         /\ LET r == [g EXCEPT !.cells = Without(@, gone)] IN
            /\ r.periods = g.periods /\ r.breaks = g.breaks /\ r.days = g.days
            /\ r.cells = Without(g.cells, gone)
<1> DEFINE cells == Without(g.cells, gone)
<1> HIDE DEF cells
<1>1. /\ [g EXCEPT !.days = days, !.cells = Without(@, gone)] = [g EXCEPT !.days = days, !.cells = cells]
      /\ [g EXCEPT !.cells = Without(@, gone)] = [g EXCEPT !.cells = cells]
  BY DEF cells, Week
<1>2. LET r == [g EXCEPT !.days = days, !.cells = cells] IN
      r.periods = g.periods /\ r.breaks = g.breaks /\ r.days = days /\ r.cells = cells
  BY DEF Week
<1>3. LET r == [g EXCEPT !.cells = cells] IN
      r.periods = g.periods /\ r.breaks = g.breaks /\ r.days = g.days /\ r.cells = cells
  BY DEF Week
<1> QED BY <1>1, <1>2, <1>3 DEF cells

LEMMA PruneGrid ==
  ASSUME GridFits, TimetableTypeOK', NEW t \in Templates, NEW gone, NEW g,
         g.periods = grid[t].periods, g.breaks = grid[t].breaks,
         g.cells = Without(grid[t].cells, gone),
         \A c \in DOMAIN grid[t].cells \ gone : c[1] \in grid[t].days => c[1] \in g.days,
         Replace(t, g, gone, Raced), UNCHANGED <<pc, job>>
  PROVE  GridFits'
<1>1. GridInv /\ grid[t] \in Week
  BY TemplateFits DEF GridFits, GridInv, TimetableTypeOK
<1>2. Raced \subseteq noise' /\ noise \subseteq noise' /\ grid' = [grid EXCEPT ![t] = g]
  BY ReplaceGrows
<1>3. /\ Spanned(grid[t]) => Spanned(g)
      /\ WellFormed(grid[t]) => WellFormed(g)
  BY <1>1, PrunedWell
<1>4. /\ "overlap" \notin noise' => Spanned(g)
      /\ noise' \cap {"overlap", "reshaped"} = {} => WellFormed(g)
  BY <1>1, <1>2, <1>3, SpansWell
<1>5. GridInv'
  BY <1>1, <1>2, <1>4, WeekStep
<1> QED BY <1>2, <1>5, AloneFits DEF GridFits

LEMMA UpdateDaysGrid ==
  ASSUME GridFits, TimetableTypeOK', NEW t \in Templates, NEW days \in SUBSET Days,
         UpdateDays(t, days)
  PROVE  GridFits'
<1> DEFINE gone == {c \in DOMAIN grid[t].cells : c[1] \notin days}
           g == [grid[t] EXCEPT !.days = days, !.cells = Without(@, gone)]
<1>1. Replace(t, g, gone, Raced) /\ UNCHANGED <<pc, job>>
  BY DEF UpdateDays
<1>2. grid[t] \in Week
  BY TemplateFits DEF GridFits, GridInv, TimetableTypeOK
<1>3. /\ g.periods = grid[t].periods /\ g.breaks = grid[t].breaks /\ g.days = days
      /\ g.cells = Without(grid[t].cells, gone)
  <2> HIDE DEF gone
  <2> QED BY <1>2, Pruning
<1>4. \A c \in DOMAIN grid[t].cells \ gone : c[1] \in grid[t].days => c[1] \in g.days
  <2> HIDE DEF g
  <2> QED BY <1>3
<1> HIDE DEF g, gone
<1> QED BY <1>1, <1>3, <1>4, PruneGrid

LEMMA PruneSameDays ==
  ASSUME GridFits, TimetableTypeOK', NEW t \in Templates, NEW gone,
         Replace(t, [grid[t] EXCEPT !.cells = Without(@, gone)], gone, Raced),
         UNCHANGED <<pc, job>>
  PROVE  GridFits'
<1> DEFINE g == [grid[t] EXCEPT !.cells = Without(@, gone)]
<1>1. grid[t] \in Week
  BY TemplateFits DEF GridFits, GridInv, TimetableTypeOK
<1>2. /\ g.periods = grid[t].periods /\ g.breaks = grid[t].breaks /\ g.days = grid[t].days
      /\ g.cells = Without(grid[t].cells, gone)
  BY <1>1, Pruning
<1>3. Replace(t, g, gone, Raced)
  OBVIOUS
<1> HIDE DEF g
<1> QED BY <1>2, <1>3, PruneGrid

LEMMA RemoveCourseGrid ==
  ASSUME GridFits, TimetableTypeOK', NEW t \in Templates, NEW class, RemoveCourse(t, class)
  PROVE  GridFits'
BY PruneSameDays DEF RemoveCourse

LEMMA ClearGrid ==
  ASSUME GridFits, TimetableTypeOK', NEW t \in Templates, NEW d, NEW p, Clear(t, d, p)
  PROVE  GridFits'
BY PruneSameDays DEF Clear

\* Re-ordered or dropped periods shorten runs to what fits.
LEMMA SavedSpans ==
  ASSUME GridTypeOK, NEW t \in Templates, NEW periods \in Orders, NEW breaks \in SUBSET Periods
  PROVE  Spanned(Saved(t, periods, breaks))
<1> DEFINE g == Saved(t, periods, breaks)
<1>1. ASSUME NEW c \in DOMAIN g.cells PROVE Fits(g.periods, g.breaks, c[2], g.cells[c].span)
  <2>1. /\ g.periods = periods /\ g.breaks = breaks /\ c[2] \in ToSet(periods) \ breaks
        /\ g.cells[c].span = Clamped(periods, breaks, c[2], grid[t].cells[c].span)
        /\ grid[t].cells[c].span \in Nat \ {0}
    BY SavedFits
  <2> HIDE DEF g
  <2>2. periods \in Seq(Periods)
    BY OrdersFit
  <2> QED BY <2>1, <2>2, ClampedFits
<1> QED BY <1>1 DEF Spanned

LEMMA SavedWell ==
  ASSUME GridTypeOK, NEW t \in Templates, NEW periods \in Orders, NEW breaks \in SUBSET Periods,
         WellFormed(grid[t]), periods = grid[t].periods,
         \A c \in Kept(t, periods, breaks) :
           Clamped(periods, breaks, c[2], grid[t].cells[c].span) = grid[t].cells[c].span
  PROVE  WellFormed(Saved(t, periods, breaks))
<1> DEFINE g == Saved(t, periods, breaks)
<1>1. /\ g.periods = grid[t].periods /\ g.breaks = breaks /\ g.days = grid[t].days
      /\ DOMAIN g.cells = Kept(t, periods, breaks)
      /\ \A c \in DOMAIN g.cells : /\ g.cells[c].span = grid[t].cells[c].span
                                   /\ c[2] \in ToSet(g.periods) \ g.breaks
  BY SavedFits
<1>2. DOMAIN g.cells \subseteq DOMAIN grid[t].cells
  BY <1>1 DEF Kept
<1>3. Spanned(g)
  BY SavedSpans
<1> HIDE DEF g
<1>4. DOMAIN g.cells \subseteq g.days \X (ToSet(g.periods) \ g.breaks)
  <2> SUFFICES ASSUME NEW c \in DOMAIN g.cells PROVE c \in g.days \X (ToSet(g.periods) \ g.breaks)
    OBVIOUS
  <2>1. c \in grid[t].days \X (ToSet(grid[t].periods) \ grid[t].breaks)
    BY <1>2 DEF WellFormed
  <2> QED BY <1>1, <2>1
<1>5. ASSUME NEW c \in DOMAIN g.cells, NEW o \in DOMAIN g.cells \ {c}, o[1] = c[1]
      PROVE  Run(g.periods, c[2], g.cells[c].span) \cap Run(g.periods, o[2], g.cells[o].span) = {}
  BY <1>1, <1>2, <1>5 DEF WellFormed
<1> QED BY <1>3, <1>4, <1>5 DEF WellFormed, Spanned, g

LEMMA SavePeriodsGrid ==
  ASSUME GridFits, TimetableTypeOK', NEW t \in Templates, NEW periods \in Orders,
         NEW breaks \in SUBSET Periods, SavePeriods(t, periods, breaks)
  PROVE  GridFits'
<1> DEFINE g == Saved(t, periods, breaks)
           reshaped == periods # grid[t].periods \/ \E c \in Kept(t, periods, breaks) :
                         Clamped(periods, breaks, c[2], grid[t].cells[c].span)
                           # grid[t].cells[c].span
<1>1. GridInv /\ GridTypeOK
  BY DEF GridFits, GridInv, TimetableTypeOK
<1>2. /\ UNCHANGED <<pc, job>>
      /\ Replace(t, g, DOMAIN grid[t].cells \ Kept(t, periods, breaks), Raced \cup Tag(reshaped, "reshaped"))
  BY SaveReplaces
<1>3. /\ Raced \subseteq noise' /\ noise \subseteq noise' /\ grid' = [grid EXCEPT ![t] = g]
      /\ reshaped => "reshaped" \in noise'
  <2> HIDE DEF reshaped, g
  <2> QED BY <1>2, ReplaceGrows DEF Tag
<1>4. Spanned(g)
  BY <1>1, SavedSpans
<1>5. ASSUME noise' \cap {"overlap", "reshaped"} = {} PROVE WellFormed(g)
  <2>1. ~reshaped
    BY <1>3, <1>5
  <2>2. WellFormed(grid[t])
    BY <1>1, <1>3, <1>5, SpansWell
  <2> QED BY <1>1, <2>1, <2>2, SavedWell
<1> HIDE DEF g, reshaped
<1>6. GridInv'
  BY <1>1, <1>3, <1>4, <1>5, WeekStep
<1> QED BY <1>2, <1>3, <1>6, AloneFits DEF GridFits

\* A template that comes or goes is not one a placement is under way in,
\* unless it goes.
LEMMA ComesOrGoes ==
  ASSUME GridFits, TimetableTypeOK', NEW t \in Templates, NEW g, noise \subseteq noise',
         grid' = [grid EXCEPT ![t] = g], UNCHANGED <<pc, job>>,
         grid[t] = NoTemplate \/ g = Removed,
         WellFormed(g) \/ (noise \cap {"overlap", "reshaped"} # {} /\ ("overlap" \notin noise => Spanned(g)))
  PROVE  GridFits'
<1>1. GridInv /\ OneAtATime /\ PlacesFit /\ grid \in [Templates -> Week]
      /\ HandlerTypeOK /\ GridTypeOK
  BY DEF GridFits, GridInv, TimetableTypeOK, GridTypeOK
<1>2. WellFormed(g) => Spanned(g)
  BY DEF WellFormed, Spanned
<1>3. GridInv'
  BY <1>1, <1>2, WeekStep
<1>4. OneAtATime'
  BY <1>1 DEF OneAtATime
<1>5. PlacesFit'
  <2> SUFFICES ASSUME "overlap" \notin noise', NEW h \in Handlers, pc[h] = "place"
               PROVE  \/ /\ grid'[job[h].template].state = "removed"
                         /\ grid'[job[h].template].periods = <<>>
                      \/ /\ job[h].periods = grid'[job[h].template].periods
                         /\ job[h].day \in grid'[job[h].template].days
                         /\ Fits(grid'[job[h].template].periods, grid'[job[h].template].breaks,
                                 job[h].period, job[h].cell.span)
    BY DEF PlacesFit
  <2> DEFINE j == job[h]
             u == j.template
  <2>1. u \in Templates /\ j.period \in ToSet(j.periods)
    BY <1>1, JobFits
  <2>2. \/ grid[u].state = "removed" /\ grid[u].periods = <<>>
        \/ /\ j.periods = grid[u].periods /\ j.day \in grid[u].days
           /\ Fits(grid[u].periods, grid[u].breaks, j.period, j.cell.span)
    BY <1>1 DEF PlacesFit
  <2>3. grid[u] # NoTemplate
    BY <2>1, <2>2, EmptyWeeks
  <2>4. CASE u # t
    <3>1. grid'[u] = grid[u]
      BY <1>1, <2>1, <2>4
    <3> QED BY <2>2, <3>1
  <2>5. CASE u = t
    <3>1. grid'[u] = Removed
      BY <1>1, <2>1, <2>3, <2>5
    <3> QED BY <3>1, EmptyWeeks
  <2> QED BY <2>4, <2>5
<1> QED BY <1>3, <1>4, <1>5 DEF GridFits

LEMMA EmptyWell ==
  ASSUME NEW g, g.cells = <<>>
  PROVE  WellFormed(g)
BY NoCells DEF WellFormed

LEMMA CreateGrid ==
  ASSUME GridFits, TimetableTypeOK', NEW t \in Templates, NEW breaks, NEW days,
         Create(t, breaks, days)
  PROVE  GridFits'
<1> DEFINE g == Fresh(FirstPeriods, breaks, days, <<>>)
<1>1. /\ grid[t] = NoTemplate /\ grid' = [grid EXCEPT ![t] = g]
      /\ UNCHANGED <<pc, job, noise>>
  BY DEF Create
<1>2. WellFormed(g)
  BY FreshPart, EmptyWell
<1> HIDE DEF g
<1> QED BY <1>1, <1>2, ComesOrGoes

LEMMA CloneGrid ==
  ASSUME GridFits, TimetableTypeOK', NEW t \in Templates, NEW source \in Templates,
         Clone(t, source)
  PROVE  GridFits'
<1> DEFINE s == grid[source]
           g == Fresh(s.periods, s.breaks, s.days, s.cells)
<1>1. /\ grid[t] = NoTemplate /\ grid' = [grid EXCEPT ![t] = g]
      /\ UNCHANGED <<pc, job, noise>>
  BY DEF Clone
<1>2. /\ g.periods = s.periods /\ g.breaks = s.breaks /\ g.days = s.days /\ g.cells = s.cells
  BY FreshPart
<1>3. (WellFormed(s) => WellFormed(g)) /\ (Spanned(s) => Spanned(g))
  <2> HIDE DEF g, s
  <2> QED BY <1>2 DEF WellFormed, Spanned
<1>4. /\ "overlap" \notin noise => Spanned(s)
      /\ noise \cap {"overlap", "reshaped"} = {} => WellFormed(s)
  BY SpansWell DEF GridFits
<1> HIDE DEF g, s
<1> QED BY <1>1, <1>3, <1>4, ComesOrGoes

LEMMA RemoveTemplateGrid ==
  ASSUME GridFits, TimetableTypeOK', NEW t \in Templates, NEW today, RemoveTemplate(t, today)
  PROVE  GridFits'
<1>1. grid' = [grid EXCEPT ![t] = Removed] /\ UNCHANGED <<pc, job>>
  BY DEF RemoveTemplate
<1>2. noise \subseteq noise'
  BY NoteGrows DEF RemoveTemplate
<1>3. WellFormed(Removed)
  BY EmptyWeeks, EmptyWell
<1> QED BY <1>1, <1>2, <1>3, ComesOrGoes

-----------------------------------------------------------------------------
(* The grid under handlers and requests on sessions *)

LEMMA HandlerMoves ==
  ASSUME HandlerTypeOK, NEW h \in Handlers, NEW j, NEW label, Continue(h, j, label)
  PROVE  /\ pc'[h] = label /\ job'[h] = j
         /\ \A i \in Handlers \ {h} : pc'[i] = pc[i] /\ job'[i] = job[i]
BY DEF Continue, HandlerTypeOK

LEMMA EndMoves ==
  ASSUME HandlerTypeOK, NEW h \in Handlers, End(h)
  PROVE  /\ pc'[h] = "idle"
         /\ \A i \in Handlers \ {h} : pc'[i] = pc[i] /\ job'[i] = job[i]
BY HandlerMoves DEF End

\* A request that begins untagged begins alone.
LEMMA BeginAlone ==
  ASSUME HandlerTypeOK, NEW h \in Handlers, NEW j, NEW label, Begin(h, j, label), Note(Raced)
  PROVE  /\ noise \subseteq noise' /\ pc[h] = "idle" /\ pc'[h] = label /\ job'[h] = j
         /\ \A i \in Handlers \ {h} : pc'[i] = pc[i] /\ job'[i] = job[i]
         /\ "overlap" \notin noise' => \A i \in Handlers : pc[i] = "idle"
         /\ OneAtATime'
<1>1. /\ pc[h] = "idle" /\ pc'[h] = label /\ job'[h] = j
      /\ \A i \in Handlers \ {h} : pc'[i] = pc[i] /\ job'[i] = job[i]
  BY BeginContinues, HandlerMoves
<1>2. Raced \subseteq noise' /\ noise \subseteq noise'
  BY NoteGrows
<1>3. "overlap" \notin noise' => \A i \in Handlers : pc[i] = "idle"
  BY <1>2, RacedAlone
<1> QED BY <1>1, <1>2, <1>3 DEF OneAtATime

LEMMA StartPlaceGrid ==
  ASSUME GridFits, TimetableTypeOK', NEW h \in Handlers, NEW t \in Templates, NEW d \in Days,
         NEW p \in Periods, NEW cell \in Cell, StartPlace(h, t, d, p, cell.class, cell.span)
  PROVE  GridFits'
<1> DEFINE j == [op |-> "place", template |-> t, day |-> d, period |-> p,
                 periods |-> grid[t].periods, cell |-> [class |-> cell.class, span |-> cell.span]]
<1>1. GridInv /\ HandlerTypeOK
  BY DEF GridFits, GridInv, TimetableTypeOK
<1>2. /\ Begin(h, j, "place") /\ Note(Raced) /\ UNCHANGED <<grid, sessions, holidays>>
      /\ d \in grid[t].days /\ Fits(grid[t].periods, grid[t].breaks, p, cell.span)
  BY DEF StartPlace
<1>3. /\ j.template = t /\ j.day = d /\ j.period = p /\ j.periods = grid[t].periods
      /\ j.cell.span = cell.span
  OBVIOUS
<1> HIDE DEF j
<1>4. /\ noise \subseteq noise' /\ pc'[h] = "place" /\ job'[h] = j
      /\ \A i \in Handlers \ {h} : pc'[i] = pc[i]
      /\ "overlap" \notin noise' => \A i \in Handlers : pc[i] = "idle"
      /\ OneAtATime'
  BY <1>1, <1>2, BeginAlone
<1>5. PlacesFit'
  BY <1>2, <1>3, <1>4 DEF PlacesFit
<1>6. GridInv'
  BY <1>1, <1>2, <1>4, SameWeeks
<1> QED BY <1>4, <1>5, <1>6 DEF GridFits

LEMMA StartPublishGrid ==
  ASSUME GridFits, TimetableTypeOK', NEW h \in Handlers, NEW t, NEW days, NEW excluded,
         StartPublish(h, t, days, excluded)
  PROVE  GridFits'
<1> DEFINE found == {k \in DOMAIN sessions :
                       DayOf(k) \in Window(days) /\ Replaceable(k) /\ Derived(k, t)}
           j == [op |-> "publish", template |-> t, asked |-> days, days |-> Window(days),
                 excluded |-> excluded, wiped |-> {k \in found : ~Wiped(k)},
                 waits |-> {k \in found : Wiped(k)}]
<1>1. GridInv /\ HandlerTypeOK
  BY DEF GridFits, GridInv, TimetableTypeOK
<1>2. Begin(h, j, "wipe") /\ Note(Raced) /\ UNCHANGED <<grid, sessions, holidays>>
  BY DEF StartPublish
<1> HIDE DEF j
<1>3. /\ noise \subseteq noise' /\ pc'[h] = "wipe"
      /\ \A i \in Handlers \ {h} : pc'[i] = pc[i]
      /\ "overlap" \notin noise' => \A i \in Handlers : pc[i] = "idle"
      /\ OneAtATime'
  BY <1>1, <1>2, BeginAlone
<1>4. PlacesFit'
  BY <1>3 DEF PlacesFit
<1>5. GridInv'
  BY <1>1, <1>2, <1>3, SameWeeks
<1> QED BY <1>3, <1>4, <1>5 DEF GridFits

\* A handler that goes on or ends starts no placement.
LEMMA GoesOn ==
  ASSUME GridFits, NEW h \in Handlers, NEW j, NEW label \in {"idle", "seed"},
         Continue(h, j, label), pc[h] # "idle", noise \subseteq noise'
  PROVE  OneAtATime' /\ PlacesFit'
<1>1. OneAtATime /\ PlacesFit /\ HandlerTypeOK
  BY DEF GridFits, GridInv, TimetableTypeOK
<1>2. /\ pc'[h] = label /\ job'[h] = j
      /\ \A i \in Handlers \ {h} : pc'[i] = pc[i] /\ job'[i] = job[i]
  BY <1>1, HandlerMoves
<1>3. OneAtATime'
  BY <1>1, <1>2 DEF OneAtATime
<1>4. "overlap" \notin noise' => \A i \in Handlers : pc'[i] # "place"
        \/ (pc'[i] = pc[i] /\ job'[i] = job[i] /\ i # h)
  BY <1>2
<1>5. "overlap" \notin noise' => \A i \in Handlers \ {h} : pc[i] = "idle"
  BY <1>1 DEF OneAtATime
<1>6. PlacesFit'
  BY <1>4, <1>5 DEF PlacesFit
<1> QED BY <1>3, <1>6

LEMMA GoesOnGrid ==
  ASSUME GridFits, TimetableTypeOK', NEW h \in Handlers, Wipe(h) \/ Publish(h) \/ Fail(h)
  PROVE  GridFits'
<1>1. GridInv
  BY DEF GridFits
<1>2. \E j : \E label \in {"idle", "seed"} : Continue(h, j, label)
  BY DEF Wipe, Publish, Fail, End
<1>3. pc[h] # "idle" /\ UNCHANGED grid
  BY DEF Wipe, Publish, Fail
<1>4. noise \subseteq noise'
  BY NoteGrows DEF Wipe, Publish, Fail
<1>5. OneAtATime' /\ PlacesFit'
  BY <1>2, <1>3, <1>4, GoesOn
<1>6. GridInv'
  BY <1>1, <1>3, <1>4, SameWeeks
<1> QED BY <1>5, <1>6 DEF GridFits

\* A placed class replaces every class it meets: those left keep apart.
LEMMA PlacedWell ==
  ASSUME TimetableTypeOK, NEW h \in Handlers, pc[h] = "place", Placeable(job[h]),
         LET j == job[h]
             g == grid[j.template]
         IN /\ j.periods = g.periods /\ j.day \in g.days
            /\ Fits(g.periods, g.breaks, j.period, j.cell.span)
  PROVE  LET j == job[h]
             g == grid[j.template]
         IN /\ Spanned(g) => Spanned(Placed(j))
            /\ WellFormed(g) => WellFormed(Placed(j))
<1> DEFINE j == job[h]
           g == grid[j.template]
           r == Placed(j)
           s == Spot(j)
<1>1. /\ j.periods = g.periods /\ j.day \in g.days
      /\ Fits(g.periods, g.breaks, j.period, j.cell.span)
  OBVIOUS
<1>2. /\ r.periods = g.periods /\ r.breaks = g.breaks /\ r.days = g.days
      /\ DOMAIN r.cells = (DOMAIN g.cells \ Gone(j)) \cup {s}
      /\ r.cells[s] = j.cell
      /\ \A c \in DOMAIN g.cells \ Gone(j) : c # s /\ r.cells[c] = g.cells[c]
      /\ s \in Days \X ToSet(g.periods)
  BY PlacedFits
<1>3. s[1] = j.day /\ s[2] = j.period /\ s = <<j.day, j.period>>
  <2>1. s = <<j.day, j.period>>
    BY Zenon DEF Spot
  <2> HIDE DEF s, j, g, r
  <2> QED BY <2>1
<1>4. /\ j.template \in Templates /\ j.cell.span \in Nat \ {0}
  BY JobFits, CellSpan DEF TimetableTypeOK
<1>5. g.periods \in Seq(Periods) /\ DOMAIN g.cells \subseteq Days \X ToSet(g.periods)
  BY <1>4, TemplateFits DEF TimetableTypeOK
<1>6. s \in g.days \X (ToSet(g.periods) \ g.breaks)
  <2>1. j.period \in ToSet(g.periods)
    BY <1>2, <1>3
  <2>2. j.period \notin g.breaks
    BY <1>1, <1>4, <1>5, <2>1, FitsStart
  <2> QED BY <1>1, <1>3, <2>1, <2>2
<1>7. ASSUME NEW c \in DOMAIN g.cells \ Gone(j), c[1] = j.day
      PROVE  Run(g.periods, j.period, j.cell.span) \cap Run(g.periods, c[2], g.cells[c].span) = {}
  <2>1. c[2] \in ToSet(j.periods)
    BY <1>1, <1>5
  <2>2. ~Overlap(j.periods, j.period, j.cell.span, c[2], g.cells[c].span)
    BY <1>7, <2>1 DEF Gone
  <2> QED BY <1>1, <2>2 DEF Overlap
<1> HIDE DEF r, s, g
<1>8. ASSUME Spanned(g) PROVE Spanned(r)
  <2> SUFFICES ASSUME NEW c \in DOMAIN r.cells
               PROVE  Fits(r.periods, r.breaks, c[2], r.cells[c].span)
    BY DEF Spanned
  <2>1. CASE c = s
    BY <1>1, <1>2, <1>3, <2>1
  <2>2. CASE c \in DOMAIN g.cells \ Gone(j)
    BY <1>2, <1>8, <2>2 DEF Spanned
  <2> QED BY <1>2, <2>1, <2>2
<1>9. ASSUME WellFormed(g) PROVE WellFormed(r)
  <2>1. Spanned(r)
    BY <1>8, <1>9 DEF WellFormed, Spanned
  <2>2. DOMAIN r.cells \subseteq r.days \X (ToSet(r.periods) \ r.breaks)
    BY <1>2, <1>6, <1>9 DEF WellFormed
  <2>3. ASSUME NEW c \in DOMAIN r.cells, NEW o \in DOMAIN r.cells \ {c}, o[1] = c[1]
        PROVE  Run(r.periods, c[2], r.cells[c].span) \cap Run(r.periods, o[2], r.cells[o].span) = {}
    <3>1. CASE c = s
      <4>1. o \in DOMAIN g.cells \ Gone(j) /\ o[1] = j.day
        BY <1>2, <1>3, <2>3, <3>1
      <4> QED BY <1>2, <1>3, <1>7, <3>1, <4>1
    <3>2. CASE o = s
      <4>1. c \in DOMAIN g.cells \ Gone(j) /\ c[1] = j.day
        BY <1>2, <1>3, <2>3, <3>2
      <4>2. Run(g.periods, j.period, j.cell.span) \cap Run(g.periods, c[2], g.cells[c].span) = {}
        BY <1>7, <4>1
      <4> QED BY <1>2, <1>3, <3>2, <4>1, <4>2
    <3>3. CASE c # s /\ o # s
      <4>1. c \in DOMAIN g.cells \ Gone(j) /\ o \in DOMAIN g.cells \ Gone(j)
        BY <1>2, <3>3
      <4> QED BY <1>2, <1>9, <2>3, <4>1 DEF WellFormed
    <3> QED BY <3>1, <3>2, <3>3
  <2> QED BY <2>1, <2>2, <2>3 DEF WellFormed, Spanned
<1> QED BY <1>8, <1>9 DEF r, g

LEMMA PlaceGrid ==
  ASSUME GridFits, TimetableTypeOK', NEW h \in Handlers, Place(h)
  PROVE  GridFits'
<1> DEFINE j == job[h]
           t == j.template
<1>1. TimetableTypeOK /\ GridInv /\ PlacesFit
  BY DEF GridFits, GridInv
<1>2. pc[h] = "place" /\ End(h) /\ UNCHANGED <<holidays, calls>>
  BY <1>1, PlaceReplaces
<1>3. GridInv' /\ noise \subseteq noise'
  <2>1. CASE Placeable(j)
    <3>1. Replace(t, Placed(j), Gone(j), {})
      BY <1>1, <2>1, PlaceReplaces
    <3>2. noise \subseteq noise' /\ grid' = [grid EXCEPT ![t] = Placed(j)]
      BY <3>1, ReplaceGrows
    <3>3. t \in Templates
      BY <1>1, <1>2, JobFits DEF TimetableTypeOK
    <3>4. ASSUME "overlap" \notin noise'
          PROVE  /\ Spanned(Placed(j))
                 /\ noise' \cap {"overlap", "reshaped"} = {} => WellFormed(Placed(j))
      <4>1. "overlap" \notin noise
        BY <3>2, <3>4
      <4>2. \/ grid[t].periods = <<>>
            \/ /\ j.periods = grid[t].periods /\ j.day \in grid[t].days
               /\ Fits(grid[t].periods, grid[t].breaks, j.period, j.cell.span)
        BY <1>1, <1>2, <4>1 DEF PlacesFit
      <4>3. grid[t].periods # <<>>
        BY <2>1, EmptyWeeks DEF Placeable
      <4>4. /\ j.periods = grid[t].periods /\ j.day \in grid[t].days
            /\ Fits(grid[t].periods, grid[t].breaks, j.period, j.cell.span)
        BY <4>2, <4>3
      <4>5. /\ Spanned(grid[t]) => Spanned(Placed(j))
            /\ WellFormed(grid[t]) => WellFormed(Placed(j))
        BY <1>1, <1>2, <2>1, <4>4, PlacedWell
      <4> QED BY <1>1, <3>2, <3>3, <4>1, <4>5, SpansWell
    <3> QED BY <1>1, <3>2, <3>3, <3>4, WeekStep
  <2>2. CASE ~Placeable(j)
    <3>1. UNCHANGED <<grid, sessions, noise>>
      BY <1>1, <2>2, PlaceReplaces
    <3> QED BY <1>1, <3>1, SameWeeks
  <2> QED BY <2>1, <2>2
<1>4. OneAtATime' /\ PlacesFit'
  BY <1>2, <1>3, GoesOn DEF End
<1> QED BY <1>3, <1>4 DEF GridFits

LEMMA QuietGrid ==
  ASSUME GridFits, TimetableTypeOK', UNCHANGED <<grid, pc, job>>, noise \subseteq noise'
  PROVE  GridFits'
<1>1. GridInv'
  BY SameWeeks DEF GridFits
<1>2. OneAtATime'
  BY DEF GridFits, OneAtATime
<1>3. PlacesFit'
  BY DEF GridFits, PlacesFit
<1> QED BY <1>1, <1>2, <1>3 DEF GridFits

LEMMA SessionRequestGrid ==
  ASSUME GridFits, TimetableTypeOK', SessionRequest
  PROVE  GridFits'
<1>1. ASSUME NEW k \in DOMAIN sessions, NEW from, NEW to, NEW tags, SetStatus(k, from, to, tags)
      PROVE  UNCHANGED <<grid, pc, job>> /\ noise \subseteq noise'
  BY <1>1, NoteGrows DEF SetStatus
<1>2. ASSUME NEW k, NEW to, Move(k, to)
      PROVE  UNCHANGED <<grid, pc, job>> /\ noise \subseteq noise'
  BY <1>2, NoteGrows DEF Move
<1>3. ASSUME NEW k, CreateAdHoc(k)
      PROVE  UNCHANGED <<grid, pc, job>> /\ noise \subseteq noise'
  BY <1>3, NoteGrows DEF CreateAdHoc
<1>4. ASSUME NEW from, NEW to, DeclareHoliday(from, to) \/ RemoveHoliday(from, to)
      PROVE  UNCHANGED <<grid, pc, job>> /\ noise \subseteq noise'
  BY <1>4 DEF DeclareHoliday, RemoveHoliday
<1>5. UNCHANGED <<grid, pc, job>> /\ noise \subseteq noise'
  BY <1>1, <1>2, <1>3, <1>4 DEF SessionRequest
<1> QED BY <1>5, QuietGrid

LEMMA TemplateRequestGrid ==
  ASSUME GridFits, TimetableTypeOK', NEW t \in Templates, TemplateRequest(t)
  PROVE  GridFits'
<1>1. ASSUME NEW periods \in Orders, NEW breaks \in SUBSET Periods, SavePeriods(t, periods, breaks)
      PROVE  GridFits'
  BY <1>1, SavePeriodsGrid
<1>2. ASSUME NEW breaks \in SUBSET ToSet(FirstPeriods), Create(t, breaks, Days)
      PROVE  GridFits'
  BY <1>2, CreateGrid
<1>3. ASSUME NEW source \in Templates, Clone(t, source) PROVE GridFits'
  BY <1>3, CloneGrid
<1>4. ASSUME NEW days \in SUBSET Days, UpdateDays(t, days) PROVE GridFits'
  BY <1>4, UpdateDaysGrid
<1>5. ASSUME NEW class \in Classes, RemoveCourse(t, class) PROVE GridFits'
  BY <1>5, RemoveCourseGrid
<1>6. ASSUME NEW today \in Days, RemoveTemplate(t, today) PROVE GridFits'
  BY <1>6, RemoveTemplateGrid
<1>7. ASSUME NEW d \in Days, NEW p \in Periods, Clear(t, d, p) PROVE GridFits'
  BY <1>7, ClearGrid
<1> QED BY <1>1, <1>2, <1>3, <1>4, <1>5, <1>6, <1>7 DEF TemplateRequest

LEMMA StartGrid ==
  ASSUME GridFits, TimetableTypeOK', NEW h \in Handlers, Start(h)
  PROVE  GridFits'
<1>1. ASSUME NEW t \in Templates, NEW d \in Days, NEW p \in Periods, NEW cell \in Cell,
             StartPlace(h, t, d, p, cell.class, cell.span)
      PROVE  GridFits'
  BY <1>1, StartPlaceGrid
<1>2. ASSUME NEW t \in Templates, NEW days \in SUBSET Days,
             \/ StartPublish(h, t, days, {})
             \/ \E k \in Seeds(t, days) : StartPublish(h, t, days, {k})
      PROVE  GridFits'
  BY <1>2, StartPublishGrid
<1> QED BY <1>1, <1>2 DEF Start

LEMMA GridStep == ASSUME GridFits, TimetableNext PROVE GridFits'
<1>1. TimetableTypeOK'
  BY TimetableTypeStep DEF GridFits, GridInv
<1>2. ASSUME NEW t \in Templates, TemplateRequest(t) PROVE GridFits'
  BY <1>1, <1>2, TemplateRequestGrid
<1>3. ASSUME SessionRequest PROVE GridFits'
  BY <1>1, <1>3, SessionRequestGrid
<1>4. ASSUME NEW h \in Handlers, Start(h) PROVE GridFits'
  BY <1>1, <1>4, StartGrid
<1>5. ASSUME NEW h \in Handlers, Place(h) PROVE GridFits'
  BY <1>1, <1>5, PlaceGrid
<1>6. ASSUME NEW h \in Handlers, Wipe(h) \/ Publish(h) \/ Fail(h) PROVE GridFits'
  BY <1>1, <1>6, GoesOnGrid
<1> QED BY <1>2, <1>3, <1>4, <1>5, <1>6 DEF TimetableNext

LEMMA GridInit == TimetableInit => GridFits
<1> SUFFICES ASSUME TimetableInit PROVE GridFits
  OBVIOUS
<1>1. \A t \in Templates : WellFormed(grid[t])
  BY FirstWeeks
<1>2. SpansFit /\ CellsDisjoint
  BY <1>1 DEF SpansFit, CellsDisjoint, WellFormed
<1>3. OneAtATime /\ PlacesFit
  BY DEF TimetableInit, OneAtATime, PlacesFit
<1> QED BY <1>2, <1>3, TimetableTypeInit DEF GridFits, GridInv

LEMMA GridStutter == ASSUME GridFits, UNCHANGED timetableVars PROVE GridFits'
<1>1. TimetableTypeOK'
  BY TimetableTypeStutter DEF GridFits, GridInv
<1> QED BY <1>1, QuietGrid DEF timetableVars

LEMMA GridInvariant == TimetableSpec => []GridFits
<1>1. GridFits /\ [TimetableNext]_timetableVars => GridFits'
  BY GridStep, GridStutter
<1> QED BY <1>1, GridInit, PTL DEF TimetableSpec

\* At every time every class of every template lies within the day and off the
\* breaks, as long as requests do not overlap, and no two share a period, as long
\* as periods keep their order too (upsertEntry, savePeriods).
THEOREM GridSound == TimetableSpec => []GridInv
<1>1. GridFits => GridInv
  BY DEF GridFits
<1> QED BY <1>1, GridInvariant, PTL

-----------------------------------------------------------------------------
(* The published week *)

\* A session that is not cancelled is what its entry says ...
LiveFit ==
  \A k \in Live :
    LET cell == grid[k[2]].cells[<<k[1], k[3]>>] IN
    /\ sessions[k].entry = EntryOf(k[2], k[1], k[3])
    /\ sessions[k].span = cell.span /\ RowOf(k) \in RowsOf[cell.class]

\* ... and all those of a day come from one template.
OneTemplate == \A a, b \in Live : DayOf(a) = DayOf(b) => a[2] = b[2]

\* A publish under way has deleted all that is scheduled on its days.
PublishesFit ==
  \A h \in Handlers : pc[h] \in {"wipe", "seed"} =>
    /\ job[h].waits = {}
    /\ \A k \in DOMAIN sessions : Replaceable(k) /\ DayOf(k) \in job[h].days => k \in job[h].wiped

Undisturbed == LiveFit /\ OneTemplate /\ PublishesFit
WeekFits == GridFits /\ (noise = {} => Undisturbed)

LEMMA PublishesKept ==
  ASSUME PublishesFit,
         \A i \in Handlers : pc'[i] \in {"wipe", "seed"} =>
           pc[i] \in {"wipe", "seed"} /\ job'[i] = job[i],
         \A k \in DOMAIN sessions' : Replaceable(k)' => k \in DOMAIN sessions /\ Replaceable(k)
  PROVE  PublishesFit'
BY DEF PublishesFit

\* Sessions of the week that stay what they are in cells that stay.
LEMMA LiveKept ==
  ASSUME LiveFit, OneTemplate, Live' \subseteq Live,
         \A k \in Live' : /\ sessions'[k].entry = sessions[k].entry
                          /\ sessions'[k].span = sessions[k].span
                          /\ grid'[k[2]].cells[<<k[1], k[3]>>].span = grid[k[2]].cells[<<k[1], k[3]>>].span
                          /\ grid'[k[2]].cells[<<k[1], k[3]>>].class = grid[k[2]].cells[<<k[1], k[3]>>].class
  PROVE  LiveFit' /\ OneTemplate'
<1>1. LiveFit'
  <2> SUFFICES ASSUME NEW k \in Live'
               PROVE  /\ sessions'[k].entry = EntryOf(k[2], k[1], k[3])
                      /\ sessions'[k].span = grid'[k[2]].cells[<<k[1], k[3]>>].span
                      /\ RowOf(k) \in RowsOf[grid'[k[2]].cells[<<k[1], k[3]>>].class]
    BY DEF LiveFit
  <2>1. /\ sessions[k].entry = EntryOf(k[2], k[1], k[3])
        /\ sessions[k].span = grid[k[2]].cells[<<k[1], k[3]>>].span
        /\ RowOf(k) \in RowsOf[grid[k[2]].cells[<<k[1], k[3]>>].class]
    BY DEF LiveFit
  <2> QED BY <2>1
<1>2. OneTemplate'
  BY DEF OneTemplate
<1> QED BY <1>1, <1>2

LEMMA LiveEntry ==
  ASSUME SessionTypeOK, LiveFit, NEW k \in Live
  PROVE  /\ k \in DOMAIN sessions /\ k[2] \in Templates /\ k[1] \in Days
         /\ sessions[k].entry # NoEntry
         /\ <<k[1], k[3]>> \in DOMAIN grid[k[2]].cells
         /\ \A t, gone : <<k[1], k[3]>> \in gone /\ k[2] = t => k \in Under(t, gone)
<1>1. k \in DOMAIN sessions /\ sessions[k].entry = EntryOf(k[2], k[1], k[3])
  BY DEF Live, LiveFit
<1>2. /\ EntryOf(k[2], k[1], k[3])[1] = k[2] /\ EntryOf(k[2], k[1], k[3])[2] = k[1]
      /\ EntryOf(k[2], k[1], k[3])[3] = k[3] /\ EntryOf(k[2], k[1], k[3]) # NoEntry
  BY EntryFacts DEF EntryOf
<1>3. k[2] \in Templates /\ k[1] \in Days
  BY <1>1, SessionFits
<1>4. <<k[1], k[3]>> \in DOMAIN grid[k[2]].cells
  BY <1>1, <1>2, SessionFits
<1>5. ASSUME NEW t, NEW gone, <<k[1], k[3]>> \in gone, k[2] = t PROVE k \in Under(t, gone)
  <2>1. <<k[1], k[3]>>[1] = k[1] /\ <<k[1], k[3]>>[2] = k[3]
    OBVIOUS
  <2>2. sessions[k].entry \in {EntryOf(t, c[1], c[2]) : c \in gone}
    BY <1>1, <1>5, <2>1
  <2> QED BY <1>1, <2>2 DEF Under
<1> QED BY <1>1, <1>2, <1>3, <1>4, <1>5

\* An edit that orphans nothing leaves the week as it is published.
LEMMA ReplaceKeeps ==
  ASSUME GridTypeOK, SessionTypeOK, Undisturbed, noise' = {},
         NEW t \in Templates, NEW g, NEW gone, NEW tags, Replace(t, g, gone, tags),
         \A c \in DOMAIN grid[t].cells \ gone :
           g.cells[c].span = grid[t].cells[c].span /\ g.cells[c].class = grid[t].cells[c].class,
         \A i \in Handlers : pc'[i] \in {"wipe", "seed"} =>
           pc[i] \in {"wipe", "seed"} /\ job'[i] = job[i]
  PROVE  Undisturbed'
<1>1. /\ Under(t, gone) \cap Live = {}
      /\ grid' = [grid EXCEPT ![t] = g] /\ sessions' = Orphan(t, gone)
  BY ReplaceGrows
<1>2. /\ DOMAIN sessions' = DOMAIN sessions
      /\ \A k \in DOMAIN sessions : /\ sessions'[k].status = sessions[k].status
                                    /\ k \notin Under(t, gone) => sessions'[k] = sessions[k]
  BY <1>1, OrphanEffect
<1>3. Live' = Live
  BY <1>2 DEF Live
<1>4. ASSUME NEW k \in Live
      PROVE  /\ sessions'[k] = sessions[k]
             /\ grid'[k[2]].cells[<<k[1], k[3]>>].span = grid[k[2]].cells[<<k[1], k[3]>>].span
             /\ grid'[k[2]].cells[<<k[1], k[3]>>].class = grid[k[2]].cells[<<k[1], k[3]>>].class
  <2>1. /\ k \in DOMAIN sessions /\ k[2] \in Templates /\ k \notin Under(t, gone)
        /\ <<k[1], k[3]>> \in DOMAIN grid[k[2]].cells
        /\ k[2] = t => <<k[1], k[3]>> \notin gone
    BY <1>1, LiveEntry DEF Undisturbed
  <2>2. grid'[k[2]] = IF k[2] = t THEN g ELSE grid[k[2]]
    BY <1>1, <2>1 DEF GridTypeOK
  <2> QED BY <1>2, <2>1, <2>2
<1>5. LiveFit' /\ OneTemplate'
  BY <1>3, <1>4, LiveKept DEF Undisturbed
<1>6. PublishesFit'
  BY <1>2, PublishesKept DEF Undisturbed, Replaceable
<1> QED BY <1>5, <1>6 DEF Undisturbed

LEMMA PruneKeeps ==
  ASSUME WeekFits, noise' = {}, NEW t \in Templates, NEW gone, NEW g,
         NEW tags, Replace(t, g, gone, tags), g.cells = Without(grid[t].cells, gone),
         UNCHANGED <<pc, job>>
  PROVE  Undisturbed'
<1>1. noise = {} /\ GridTypeOK /\ SessionTypeOK /\ Undisturbed
  BY ReplaceGrows DEF WeekFits, GridFits, GridInv, TimetableTypeOK
<1>2. grid[t].cells \in PartialFunctions(Days \X Periods, Cell)
  BY <1>1, TemplateFits
<1>3. \A c \in DOMAIN grid[t].cells \ gone : Without(grid[t].cells, gone)[c] = grid[t].cells[c]
  BY <1>2, WithoutFits
<1>4. \A c \in DOMAIN grid[t].cells \ gone :
        g.cells[c].span = grid[t].cells[c].span /\ g.cells[c].class = grid[t].cells[c].class
  BY <1>3
<1> QED BY <1>1, <1>4, ReplaceKeeps

LEMMA UpdateDaysKeeps ==
  ASSUME WeekFits, noise' = {}, NEW t \in Templates, NEW days \in SUBSET Days, UpdateDays(t, days)
  PROVE  Undisturbed'
<1> DEFINE gone == {c \in DOMAIN grid[t].cells : c[1] \notin days}
           g == [grid[t] EXCEPT !.days = days, !.cells = Without(@, gone)]
<1>1. Replace(t, g, gone, Raced) /\ UNCHANGED <<pc, job>>
  BY DEF UpdateDays
<1>2. grid[t] \in Week
  BY TemplateFits DEF WeekFits, GridFits, GridInv, TimetableTypeOK
<1>3. g.cells = Without(grid[t].cells, gone)
  <2> HIDE DEF gone
  <2> QED BY <1>2, Pruning
<1> HIDE DEF g, gone
<1> QED BY <1>1, <1>3, PruneKeeps

LEMMA PruneSameDaysKeeps ==
  ASSUME WeekFits, noise' = {}, NEW t \in Templates, NEW gone,
         Replace(t, [grid[t] EXCEPT !.cells = Without(@, gone)], gone, Raced),
         UNCHANGED <<pc, job>>
  PROVE  Undisturbed'
<1> DEFINE g == [grid[t] EXCEPT !.cells = Without(@, gone)]
<1>1. grid[t] \in Week
  BY TemplateFits DEF WeekFits, GridFits, GridInv, TimetableTypeOK
<1>2. Days \in SUBSET Days
  OBVIOUS
<1>3. g.cells = Without(grid[t].cells, gone)
  BY <1>1, <1>2, Pruning
<1>4. Replace(t, g, gone, Raced)
  OBVIOUS
<1> HIDE DEF g
<1> QED BY <1>3, <1>4, PruneKeeps

LEMMA SavePeriodsKeeps ==
  ASSUME WeekFits, noise' = {}, NEW t \in Templates, NEW periods \in Orders,
         NEW breaks \in SUBSET Periods, SavePeriods(t, periods, breaks)
  PROVE  Undisturbed'
<1> DEFINE g == Saved(t, periods, breaks)
           kept == Kept(t, periods, breaks)
           gone == DOMAIN grid[t].cells \ kept
           reshaped == periods # grid[t].periods \/ \E c \in kept :
                         Clamped(periods, breaks, c[2], grid[t].cells[c].span)
                           # grid[t].cells[c].span
<1>1. UNCHANGED <<pc, job>> /\ Replace(t, g, gone, Raced \cup Tag(reshaped, "reshaped"))
  BY SaveReplaces
<1>2. GridTypeOK
  BY DEF WeekFits, GridFits, GridInv, TimetableTypeOK
<1>3. \A c \in kept : /\ g.cells[c].class = grid[t].cells[c].class
                      /\ g.cells[c].span = Clamped(periods, breaks, c[2], grid[t].cells[c].span)
  BY <1>2, SavedFits
<1>4. DOMAIN grid[t].cells \ gone = kept
  BY DEF Kept
<1>5. ~reshaped /\ noise = {}
  <2> HIDE DEF reshaped, g, gone
  <2> QED BY <1>1, ReplaceGrows DEF Tag
<1>6. \A c \in kept : g.cells[c].span = grid[t].cells[c].span
  BY <1>3, <1>5
<1>7. SessionTypeOK /\ Undisturbed
  BY <1>5 DEF WeekFits, GridFits, GridInv, TimetableTypeOK
<1> HIDE DEF g, kept, gone, reshaped
<1> QED BY <1>1, <1>2, <1>3, <1>4, <1>6, <1>7, ReplaceKeeps

LEMMA PlaceKeeps ==
  ASSUME WeekFits, noise' = {}, NEW h \in Handlers, Place(h)
  PROVE  Undisturbed'
<1> DEFINE j == job[h]
           t == j.template
<1>1. TimetableTypeOK /\ GridTypeOK /\ SessionTypeOK /\ HandlerTypeOK
  BY DEF WeekFits, GridFits, GridInv, TimetableTypeOK
<1>2. pc[h] = "place" /\ End(h)
  BY <1>1, PlaceReplaces
<1>3. \A i \in Handlers : pc'[i] \in {"wipe", "seed"} =>
        pc[i] \in {"wipe", "seed"} /\ job'[i] = job[i]
  BY <1>1, <1>2, EndMoves
<1>4. CASE Placeable(j)
  <2>1. Replace(t, Placed(j), Gone(j), {})
    BY <1>1, <1>4, PlaceReplaces
  <2>2. noise = {} /\ t \in Templates
    BY <1>1, <1>2, <2>1, ReplaceGrows, JobFits
  <2>3. \A c \in DOMAIN grid[t].cells \ Gone(j) : Placed(j).cells[c] = grid[t].cells[c]
    BY <1>1, <1>2, <1>4, PlacedFits
  <2>4. \A c \in DOMAIN grid[t].cells \ Gone(j) :
          /\ Placed(j).cells[c].span = grid[t].cells[c].span
          /\ Placed(j).cells[c].class = grid[t].cells[c].class
    BY <2>3
  <2>5. Undisturbed
    BY <2>2 DEF WeekFits
  <2> HIDE DEF j, t
  <2> QED BY <1>1, <1>3, <2>1, <2>2, <2>4, <2>5, ReplaceKeeps
<1>5. CASE ~Placeable(j)
  <2>1. UNCHANGED <<grid, sessions, noise>>
    BY <1>1, <1>5, PlaceReplaces
  <2>2. Undisturbed
    BY <2>1 DEF WeekFits
  <2>3. LiveFit' /\ OneTemplate'
    BY <2>1, <2>2 DEF Undisturbed, LiveFit, OneTemplate, Live
  <2>4. PublishesFit'
    BY <1>3, <2>1, <2>2, PublishesKept DEF Undisturbed, Replaceable
  <2> QED BY <2>3, <2>4 DEF Undisturbed
<1> QED BY <1>4, <1>5

\* The week is not published from a template that comes now.
LEMMA NewKeeps ==
  ASSUME WeekFits, NEW t \in Templates, NEW g, grid[t] = NoTemplate, noise = {},
         grid' = [grid EXCEPT ![t] = g], UNCHANGED <<sessions, pc, job>>
  PROVE  Undisturbed'
<1>1. /\ GridTypeOK /\ SessionTypeOK /\ Undisturbed
  BY DEF WeekFits, GridFits, GridInv, TimetableTypeOK
<1>2. ASSUME NEW k \in Live PROVE grid'[k[2]] = grid[k[2]]
  <2>1. k[2] \in Templates /\ <<k[1], k[3]>> \in DOMAIN grid[k[2]].cells
    BY <1>1, LiveEntry DEF Undisturbed
  <2>2. k[2] # t
    BY <2>1, EmptyWeeks, NoCells
  <2> QED BY <1>1, <2>1, <2>2 DEF GridTypeOK
<1>3. Live' = Live
  BY DEF Live
<1>4. LiveFit' /\ OneTemplate'
  BY <1>1, <1>2, <1>3, LiveKept DEF Undisturbed
<1>5. PublishesFit'
  BY <1>1, PublishesKept DEF Undisturbed, Replaceable
<1> QED BY <1>4, <1>5 DEF Undisturbed

LEMMA RemoveTemplateKeeps ==
  ASSUME WeekFits, noise' = {}, NEW t \in Templates, NEW today, RemoveTemplate(t, today)
  PROVE  Undisturbed'
<1> DEFINE cells == DOMAIN grid[t].cells
           future == {k \in Under(t, cells) : sessions[k].status = "scheduled" /\ DayOf(k) >= today}
<1>1. /\ OfTemplate(t) \subseteq future /\ grid' = [grid EXCEPT ![t] = Removed]
      /\ sessions' = Without(Orphan(t, cells), future) /\ UNCHANGED <<pc, job>>
      /\ noise \subseteq noise'
  BY NoteGrows DEF RemoveTemplate
<1>2. /\ GridTypeOK /\ SessionTypeOK /\ Undisturbed
  BY <1>1 DEF WeekFits, GridFits, GridInv, TimetableTypeOK
<1>3. cells \subseteq Days \X Periods
  BY <1>2, TemplateFits
<1> HIDE DEF future
<1>4. /\ DOMAIN sessions' = DOMAIN sessions \ future
      /\ \A k \in DOMAIN sessions' : sessions'[k] = Orphan(t, cells)[k]
  <2>1. DOMAIN Orphan(t, cells) = DOMAIN sessions
    BY <1>2, OrphanEffect
  <2> HIDE DEF cells
  <2> QED BY <1>1, <2>1 DEF Without, Restrict
<1>5. ASSUME NEW k \in DOMAIN sessions'
      PROVE  /\ k \in DOMAIN sessions /\ sessions'[k].status = sessions[k].status
             /\ k[2] # t
             /\ k \notin Under(t, cells) => sessions'[k] = sessions[k]
  BY <1>1, <1>2, <1>4, OrphanEffect DEF OfTemplate
<1>6. Live' \subseteq Live
  BY <1>5 DEF Live
<1>7. ASSUME NEW k \in Live' PROVE sessions'[k] = sessions[k] /\ grid'[k[2]] = grid[k[2]]
  <2>1. k \in Live /\ k \in DOMAIN sessions' /\ k[2] # t
    BY <1>5, <1>6 DEF Live
  <2>2. k[2] \in Templates /\ sessions[k].entry = EntryOf(k[2], k[1], k[3])
    BY <1>2, <2>1, LiveEntry DEF Undisturbed, LiveFit
  <2>3. k \notin Under(t, cells)
    <3>1. sessions[k].entry[1] = k[2]
      BY <2>2 DEF EntryOf
    <3>2. k \in DOMAIN sessions
      BY <1>5, <2>1
    <3> HIDE DEF cells
    <3> QED BY <1>2, <1>3, <2>1, <3>1, <3>2, UnderEntry
  <2> QED BY <1>1, <1>2, <1>5, <2>1, <2>2, <2>3 DEF GridTypeOK
<1>8. LiveFit' /\ OneTemplate'
  BY <1>2, <1>6, <1>7, LiveKept DEF Undisturbed
<1>9. PublishesFit'
  BY <1>1, <1>2, <1>5, PublishesKept DEF Undisturbed, Replaceable
<1> QED BY <1>8, <1>9 DEF Undisturbed

-----------------------------------------------------------------------------
(* The published week under handlers and requests on sessions *)

LEMMA StartPlaceKeeps ==
  ASSUME WeekFits, noise' = {}, NEW h \in Handlers, NEW t, NEW d, NEW p, NEW class, NEW span,
         StartPlace(h, t, d, p, class, span)
  PROVE  Undisturbed'
<1> DEFINE j == [op |-> "place", template |-> t, day |-> d, period |-> p,
                 periods |-> grid[t].periods, cell |-> [class |-> class, span |-> span]]
<1>1. Begin(h, j, "place") /\ Note(Raced) /\ UNCHANGED <<grid, sessions, holidays>>
  BY DEF StartPlace
<1>2. noise = {} /\ HandlerTypeOK /\ Undisturbed
  BY <1>1, NoteGrows DEF WeekFits, GridFits, GridInv, TimetableTypeOK
<1> HIDE DEF j
<1>3. pc'[h] = "place" /\ \A i \in Handlers \ {h} : pc'[i] = pc[i] /\ job'[i] = job[i]
  BY <1>1, <1>2, BeginAlone
<1>4. PublishesFit'
  BY <1>1, <1>2, <1>3, PublishesKept DEF Undisturbed, Replaceable
<1>5. LiveFit' /\ OneTemplate'
  BY <1>1, <1>2 DEF Undisturbed, LiveFit, OneTemplate, Live
<1> QED BY <1>4, <1>5 DEF Undisturbed

\* A publish that begins alone finds every scheduled session of its days.
LEMMA StartPublishKeeps ==
  ASSUME WeekFits, noise' = {}, NEW h \in Handlers, NEW t, NEW days, NEW excluded,
         StartPublish(h, t, days, excluded)
  PROVE  Undisturbed'
<1> DEFINE found == {k \in DOMAIN sessions :
                       DayOf(k) \in Window(days) /\ Replaceable(k) /\ Derived(k, t)}
           j == [op |-> "publish", template |-> t, asked |-> days, days |-> Window(days),
                 excluded |-> excluded, wiped |-> {k \in found : ~Wiped(k)},
                 waits |-> {k \in found : Wiped(k)}]
<1>1. Begin(h, j, "wipe") /\ Note(Raced) /\ UNCHANGED <<grid, sessions, holidays>>
  BY DEF StartPublish
<1>2. noise = {} /\ HandlerTypeOK /\ SessionTypeOK /\ Undisturbed
  BY <1>1, NoteGrows DEF WeekFits, GridFits, GridInv, TimetableTypeOK
<1>3. /\ j.days = Window(days) /\ j.wiped = {k \in found : ~Wiped(k)}
      /\ j.waits = {k \in found : Wiped(k)}
  OBVIOUS
<1> HIDE DEF j
<1>4. /\ pc'[h] = "wipe" /\ job'[h] = j /\ \A i \in Handlers \ {h} : pc'[i] = pc[i]
      /\ \A i \in Handlers : pc[i] = "idle"
  BY <1>1, <1>2, BeginAlone
<1>5. \A k : ~Wiped(k)
  BY <1>4 DEF Wiped
<1>6. ASSUME NEW k \in DOMAIN sessions, Replaceable(k), DayOf(k) \in Window(days)
      PROVE  k \in found
  <2>1. k \in Live
    BY <1>6 DEF Live, Replaceable
  <2>2. Derived(k, t)
    BY <1>2, <2>1, LiveEntry DEF Derived, Undisturbed
  <2> QED BY <1>6, <2>2
<1> HIDE DEF found
<1>7. j.waits = {} /\ j.wiped = found
  BY <1>3, <1>5
<1>8. PublishesFit'
  <2> SUFFICES ASSUME NEW i \in Handlers, pc'[i] \in {"wipe", "seed"}
               PROVE  /\ job'[i].waits = {}
                      /\ \A k \in DOMAIN sessions' :
                           Replaceable(k)' /\ DayOf(k) \in job'[i].days => k \in job'[i].wiped
    BY DEF PublishesFit
  <2>1. i = h
    BY <1>4
  <2>2. \A k : Replaceable(k)' = Replaceable(k)
    BY <1>1 DEF Replaceable
  <2> QED BY <1>1, <1>3, <1>4, <1>6, <1>7, <2>1, <2>2
<1>9. LiveFit' /\ OneTemplate'
  BY <1>1, <1>2 DEF Undisturbed, LiveFit, OneTemplate, Live
<1> QED BY <1>8, <1>9 DEF Undisturbed

LEMMA WipeKeeps ==
  ASSUME WeekFits, noise = {}, NEW h \in Handlers, Wipe(h)
  PROVE  Undisturbed'
<1> DEFINE still == {k \in job[h].waits \cap DOMAIN sessions :
                       Replaceable(k) /\ Derived(k, job[h].template)}
           j == [job[h] EXCEPT !.wiped = @ \cup still, !.waits = {}]
<1>1. /\ Continue(h, j, "seed") /\ pc[h] = "wipe"
      /\ UNCHANGED <<grid, sessions, holidays, calls, noise>>
  BY DEF Wipe
<1>2. HandlerTypeOK /\ Undisturbed
  BY DEF WeekFits, GridFits, GridInv, TimetableTypeOK
<1>3. job[h] \in Publishing
  BY <1>1, <1>2, JobFits
<1>4. j.waits = {} /\ j.days = job[h].days /\ job[h].wiped \subseteq j.wiped
  <2> HIDE DEF still
  <2> QED BY <1>3 DEF Publishing
<1> HIDE DEF j
<1>5. /\ pc'[h] = "seed" /\ job'[h] = j
      /\ \A i \in Handlers \ {h} : pc'[i] = pc[i] /\ job'[i] = job[i]
  BY <1>1, <1>2, HandlerMoves
<1>6. PublishesFit'
  <2> SUFFICES ASSUME NEW i \in Handlers, pc'[i] \in {"wipe", "seed"}
               PROVE  /\ job'[i].waits = {}
                      /\ \A k \in DOMAIN sessions' :
                           Replaceable(k)' /\ DayOf(k) \in job'[i].days => k \in job'[i].wiped
    BY DEF PublishesFit
  <2>1. \A k : Replaceable(k)' = Replaceable(k)
    BY <1>1 DEF Replaceable
  <2>2. /\ pc[i] \in {"wipe", "seed"}
        /\ job'[i].days = job[i].days /\ job[i].wiped \subseteq job'[i].wiped
        /\ IF i = h THEN job'[i].waits = {} ELSE job'[i] = job[i]
    BY <1>1, <1>4, <1>5
  <2>3. /\ job[i].waits = {}
        /\ \A k \in DOMAIN sessions : Replaceable(k) /\ DayOf(k) \in job[i].days => k \in job[i].wiped
    BY <1>1, <1>2, <2>2 DEF PublishesFit, Undisturbed
  <2> QED BY <1>1, <2>1, <2>2, <2>3
<1>7. LiveFit' /\ OneTemplate'
  BY <1>1, <1>2 DEF Undisturbed, LiveFit, OneTemplate, Live
<1> QED BY <1>6, <1>7 DEF Undisturbed

\* What a publish leaves on its days is marked, and of its own template.
LEMMA PublishKeeps ==
  ASSUME WeekFits, noise' = {}, NEW h \in Handlers, Publish(h)
  PROVE  Undisturbed'
<1> DEFINE t == job[h].template
           days == job[h].days
<1>1. TimetableTypeOK /\ GridTypeOK /\ SessionTypeOK /\ HandlerTypeOK /\ OneAtATime
  BY DEF WeekFits, GridFits, GridInv, TimetableTypeOK
<1>2. /\ pc[h] = "seed" /\ t \in Templates /\ End(h) /\ UNCHANGED grid
      /\ Note(Tag(\E o \in Left(h) : /\ sessions[o].status = "completed" /\ DayOf(o) \in days
                                     /\ o[2] # t, "switched"))
      /\ DOMAIN sessions' = Left(h) \cup New(h)
      /\ \A k \in Left(h) : sessions'[k] = sessions[k]
      /\ New(h) \subseteq Seeds(t, days)
      /\ \A k \in New(h) : /\ sessions'[k].entry = EntryOf(t, k[1], k[3])
                           /\ sessions'[k].span = grid[t].cells[<<k[1], k[3]>>].span
  BY <1>1, PublishEffect
<1>3. noise = {} /\ Undisturbed
  BY <1>2, NoteGrows DEF WeekFits
<1>4. \A o \in Left(h) : sessions[o].status = "completed" /\ DayOf(o) \in days => o[2] = t
  BY <1>2, NoteGrows DEF Tag
<1>5. \A k \in New(h) : /\ k[2] = t /\ k[1] \in days
                        /\ RowOf(k) \in RowsOf[grid[t].cells[<<k[1], k[3]>>].class]
  BY <1>1, <1>2, SeedFits
<1>6. ASSUME NEW k \in Live', k \notin New(h) PROVE k \in Left(h) /\ k \in Live
  <2>1. k \in DOMAIN sessions' /\ sessions'[k].status # "cancelled"
    BY <1>6 DEF Live
  <2>2. k \in Left(h)
    BY <1>2, <1>6, <2>1
  <2>3. k \in DOMAIN sessions /\ sessions[k].status # "cancelled"
    BY <1>2, <2>1, <2>2 DEF Left
  <2> QED BY <2>2, <2>3 DEF Live
<1>7. LiveFit'
  <2> SUFFICES ASSUME NEW k \in Live'
               PROVE  /\ sessions'[k].entry = EntryOf(k[2], k[1], k[3])
                      /\ sessions'[k].span = grid'[k[2]].cells[<<k[1], k[3]>>].span
                      /\ RowOf(k) \in RowsOf[grid'[k[2]].cells[<<k[1], k[3]>>].class]
    BY DEF LiveFit
  <2>1. CASE k \in New(h)
    BY <1>2, <1>5, <2>1
  <2>2. CASE k \notin New(h)
    BY <1>2, <1>3, <1>6, <2>2 DEF Undisturbed, LiveFit
  <2> QED BY <2>1, <2>2
<1>8. ASSUME NEW k \in Live', DayOf(k) \in days PROVE k[2] = t
  <2>1. CASE k \in New(h)
    BY <1>5, <2>1
  <2>2. CASE k \notin New(h)
    <3>1. k \in Left(h) /\ k \in Live /\ k \in DOMAIN sessions /\ k \notin job[h].wiped
      BY <1>6, <2>2 DEF Left
    <3>2. sessions[k].status # "scheduled"
      BY <1>2, <1>3, <1>8, <3>1 DEF Undisturbed, PublishesFit, Replaceable
    <3>3. sessions[k].status = "completed"
      BY <1>1, <3>1, <3>2, SessionFits DEF Live, Session, Statuses
    <3> QED BY <1>4, <1>8, <3>1, <3>3
  <2> QED BY <2>1, <2>2
<1>9. OneTemplate'
  <2> SUFFICES ASSUME NEW a \in Live', NEW b \in Live', DayOf(a) = DayOf(b) PROVE a[2] = b[2]
    BY DEF OneTemplate
  <2>1. CASE DayOf(a) \in days
    BY <1>8, <2>1
  <2>2. CASE DayOf(a) \notin days
    BY <1>3, <1>5, <1>6, <2>2 DEF Undisturbed, OneTemplate, DayOf
  <2> QED BY <2>1, <2>2
<1>10. PublishesFit'
  <2>1. \A i \in Handlers : pc'[i] = "idle"
    BY <1>1, <1>2, <1>3, EndMoves DEF OneAtATime
  <2> QED BY <2>1 DEF PublishesFit
<1> QED BY <1>7, <1>9, <1>10 DEF Undisturbed

LEMMA FailKeeps ==
  ASSUME WeekFits, noise = {}, NEW h \in Handlers, Fail(h)
  PROVE  Undisturbed'
<1>1. HandlerTypeOK /\ Undisturbed
  BY DEF WeekFits, GridFits, GridInv, TimetableTypeOK
<1>2. End(h) /\ UNCHANGED <<grid, sessions, holidays, calls, noise>>
  BY DEF Fail
<1>3. pc'[h] = "idle" /\ \A i \in Handlers \ {h} : pc'[i] = pc[i] /\ job'[i] = job[i]
  BY <1>1, <1>2, EndMoves
<1>4. PublishesFit'
  BY <1>1, <1>2, <1>3, PublishesKept DEF Undisturbed, Replaceable
<1>5. LiveFit' /\ OneTemplate'
  BY <1>1, <1>2 DEF Undisturbed, LiveFit, OneTemplate, Live
<1> QED BY <1>4, <1>5 DEF Undisturbed

LEMMA SetStatusKeeps ==
  ASSUME WeekFits, noise' = {}, NEW k \in DOMAIN sessions, NEW to \in {"completed", "cancelled"},
         SetStatus(k, "scheduled", to, {})
  PROVE  Undisturbed'
<1>1. /\ sessions' = [sessions EXCEPT ![k].status = to] /\ sessions[k].status = "scheduled"
      /\ UNCHANGED <<grid, holidays, pc, job>> /\ noise \subseteq noise'
  BY NoteGrows DEF SetStatus
<1>2. SessionTypeOK /\ Undisturbed
  BY <1>1 DEF WeekFits, GridFits, GridInv, TimetableTypeOK
<1>3. sessions[k] \in Session
  BY <1>2, SessionFits
<1>4. [sessions[k] EXCEPT !.status = to].entry = sessions[k].entry
      /\ [sessions[k] EXCEPT !.status = to].span = sessions[k].span
      /\ [sessions[k] EXCEPT !.status = to].status = to
  BY <1>3 DEF Session
<1>5. /\ DOMAIN sessions' = DOMAIN sessions
      /\ \A o \in DOMAIN sessions :
           /\ sessions'[o].entry = sessions[o].entry /\ sessions'[o].span = sessions[o].span
           /\ sessions'[o].status = IF o = k THEN to ELSE sessions[o].status
  BY <1>1, <1>2, <1>4 DEF SessionTypeOK
<1>6. Live' \subseteq Live
  BY <1>1, <1>5 DEF Live
<1>7. LiveFit' /\ OneTemplate'
  <2>1. Live' \subseteq DOMAIN sessions
    BY <1>5 DEF Live
  <2> QED BY <1>1, <1>2, <1>5, <1>6, <2>1, LiveKept DEF Undisturbed
<1>8. \A o \in DOMAIN sessions' : Replaceable(o)' => o \in DOMAIN sessions /\ Replaceable(o)
  BY <1>5 DEF Replaceable
<1>9. PublishesFit'
  BY <1>1, <1>2, <1>8, PublishesKept DEF Undisturbed
<1> QED BY <1>7, <1>9 DEF Undisturbed

LEMMA DeclareHolidayKeeps ==
  ASSUME WeekFits, noise' = {}, NEW from, NEW to, DeclareHoliday(from, to)
  PROVE  Undisturbed'
<1>1. UNCHANGED <<grid, pc, job, noise>>
  BY DEF DeclareHoliday
<1>2. SessionTypeOK /\ Undisturbed
  BY <1>1 DEF WeekFits, GridFits, GridInv, TimetableTypeOK
<1>3. /\ DOMAIN sessions' = DOMAIN sessions
      /\ \A o \in DOMAIN sessions :
           /\ sessions'[o].entry = sessions[o].entry /\ sessions'[o].span = sessions[o].span
           /\ sessions'[o] # sessions[o] => sessions'[o].status = "cancelled"
  BY <1>2, HolidayEffect
<1>4. Live' \subseteq Live /\ Live' \subseteq DOMAIN sessions
  BY <1>3 DEF Live
<1>5. LiveFit' /\ OneTemplate'
  BY <1>1, <1>2, <1>3, <1>4, LiveKept DEF Undisturbed
<1>6. \A o \in DOMAIN sessions' : Replaceable(o)' => o \in DOMAIN sessions /\ Replaceable(o)
  BY <1>3 DEF Replaceable
<1>7. PublishesFit'
  BY <1>1, <1>2, <1>6, PublishesKept DEF Undisturbed
<1> QED BY <1>5, <1>7 DEF Undisturbed

LEMMA SessionRequestKeeps ==
  ASSUME WeekFits, noise' = {}, SessionRequest
  PROVE  Undisturbed'
<1>1. ASSUME NEW k \in DOMAIN sessions, NEW to \in {"completed", "cancelled"},
             SetStatus(k, "scheduled", to, {})
      PROVE  Undisturbed'
  BY <1>1, SetStatusKeeps
<1>2. ASSUME NEW k \in DOMAIN sessions, SetStatus(k, "cancelled", "scheduled", {"reopened"})
      PROVE  FALSE
  BY <1>2, NoteGrows DEF SetStatus
<1>3. ASSUME NEW k \in DOMAIN sessions, NEW to \in Keys, Move(k, to) PROVE FALSE
  BY <1>3, NoteGrows DEF Move
<1>4. ASSUME NEW k \in Keys, CreateAdHoc(k) PROVE FALSE
  BY <1>4, NoteGrows DEF CreateAdHoc
<1>5. ASSUME NEW from, NEW to, DeclareHoliday(from, to) PROVE Undisturbed'
  BY <1>5, DeclareHolidayKeeps
<1>6. ASSUME NEW from, NEW to, RemoveHoliday(from, to) PROVE Undisturbed'
  <2>1. UNCHANGED <<grid, sessions, pc, job, noise>>
    BY <1>6 DEF RemoveHoliday
  <2>2. Undisturbed
    BY <2>1 DEF WeekFits
  <2> QED BY <2>1, <2>2 DEF Undisturbed, LiveFit, OneTemplate, Live, PublishesFit, Replaceable
<1> QED BY <1>1, <1>2, <1>3, <1>4, <1>5, <1>6 DEF SessionRequest

LEMMA TemplateRequestKeeps ==
  ASSUME WeekFits, noise' = {}, NEW t \in Templates, TemplateRequest(t)
  PROVE  Undisturbed'
<1>1. ASSUME NEW periods \in Orders, NEW breaks \in SUBSET Periods, SavePeriods(t, periods, breaks)
      PROVE  Undisturbed'
  BY <1>1, SavePeriodsKeeps
<1>2. ASSUME NEW breaks \in SUBSET ToSet(FirstPeriods), Create(t, breaks, Days)
      PROVE  Undisturbed'
  BY <1>2, NewKeeps DEF Create
<1>3. ASSUME NEW source \in Templates, Clone(t, source) PROVE Undisturbed'
  <2>1. /\ grid[t] = NoTemplate /\ UNCHANGED <<sessions, pc, job, noise>>
        /\ \E g : grid' = [grid EXCEPT ![t] = g]
    BY <1>3 DEF Clone
  <2> QED BY <2>1, NewKeeps
<1>4. ASSUME NEW days \in SUBSET Days, UpdateDays(t, days) PROVE Undisturbed'
  BY <1>4, UpdateDaysKeeps
<1>5. ASSUME NEW class \in Classes, RemoveCourse(t, class) PROVE Undisturbed'
  BY <1>5, PruneSameDaysKeeps DEF RemoveCourse
<1>6. ASSUME NEW today \in Days, RemoveTemplate(t, today) PROVE Undisturbed'
  BY <1>6, RemoveTemplateKeeps
<1>7. ASSUME NEW d \in Days, NEW p \in Periods, Clear(t, d, p) PROVE Undisturbed'
  BY <1>7, PruneSameDaysKeeps DEF Clear
<1> QED BY <1>1, <1>2, <1>3, <1>4, <1>5, <1>6, <1>7 DEF TemplateRequest

LEMMA WeekFitsStep == ASSUME WeekFits, TimetableNext PROVE WeekFits'
<1>1. GridFits'
  BY GridStep DEF WeekFits
<1> SUFFICES ASSUME noise' = {} PROVE Undisturbed'
  BY <1>1 DEF WeekFits
<1>2. ASSUME NEW t \in Templates, TemplateRequest(t) PROVE Undisturbed'
  BY <1>2, TemplateRequestKeeps
<1>3. ASSUME SessionRequest PROVE Undisturbed'
  BY <1>3, SessionRequestKeeps
<1>4. ASSUME NEW h \in Handlers, Start(h) PROVE Undisturbed'
  BY <1>4, StartPlaceKeeps, StartPublishKeeps DEF Start
<1>5. ASSUME NEW h \in Handlers, Place(h) PROVE Undisturbed'
  BY <1>5, PlaceKeeps
<1>6. ASSUME NEW h \in Handlers, Wipe(h) PROVE Undisturbed'
  BY <1>6, WipeKeeps DEF Wipe
<1>7. ASSUME NEW h \in Handlers, Publish(h) PROVE Undisturbed'
  BY <1>7, PublishKeeps
<1>8. ASSUME NEW h \in Handlers, Fail(h) PROVE Undisturbed'
  BY <1>8, FailKeeps DEF Fail
<1> QED BY <1>2, <1>3, <1>4, <1>5, <1>6, <1>7, <1>8 DEF TimetableNext

LEMMA WeekFitsInit == TimetableInit => WeekFits
<1> SUFFICES ASSUME TimetableInit PROVE WeekFits
  OBVIOUS
<1>1. Live = {}
  BY NoCells DEF TimetableInit, Live
<1>2. LiveFit /\ OneTemplate
  BY <1>1 DEF LiveFit, OneTemplate
<1>3. PublishesFit
  BY DEF TimetableInit, PublishesFit
<1> QED BY <1>2, <1>3, GridInit DEF WeekFits, Undisturbed

LEMMA WeekFitsStutter == ASSUME WeekFits, UNCHANGED timetableVars PROVE WeekFits'
<1>1. GridFits'
  BY GridStutter DEF WeekFits
<1>2. Undisturbed' = Undisturbed
  BY DEF timetableVars, Undisturbed, LiveFit, OneTemplate, Live, PublishesFit, Replaceable
<1> QED BY <1>1, <1>2 DEF WeekFits, timetableVars

LEMMA WeekInvariant == TimetableSpec => []WeekFits
<1>1. WeekFits /\ [TimetableNext]_timetableVars => WeekFits'
  BY WeekFitsStep, WeekFitsStutter
<1> QED BY <1>1, WeekFitsInit, PTL DEF TimetableSpec

\* Sessions of one day come from one well-formed grid: two at a time are of
\* one cell, and one cell has two rows only if they are cohorts.
LEMMA WeekIsOne == ASSUME WeekFits PROVE OneClassAtATime
<1> SUFFICES ASSUME noise = {}, NEW a \in Live, NEW b \in Live, Together(a, b)
             PROVE  SlotOf(a) = SlotOf(b) /\ {RowOf(a), RowOf(b)} \subseteq Electives
  BY DEF OneClassAtATime
<1> DEFINE t == a[2]
           g == grid[t]
           c == <<a[1], a[3]>>
           o == <<b[1], b[3]>>
<1>1. Undisturbed /\ SessionTypeOK /\ GridTypeOK /\ GridInv
  BY DEF WeekFits, GridFits, GridInv, TimetableTypeOK
<1>2. a # b /\ a[1] = b[1] /\ a[2] = b[2]
  BY <1>1 DEF Together, DayOf, Undisturbed, OneTemplate
<1>3. /\ a \in DOMAIN sessions /\ b \in DOMAIN sessions /\ t \in Templates
      /\ c \in DOMAIN g.cells /\ o \in DOMAIN g.cells
  BY <1>1, <1>2, LiveEntry DEF Undisturbed
<1>4. /\ sessions[a].span = g.cells[c].span /\ RowOf(a) \in RowsOf[g.cells[c].class]
      /\ sessions[b].span = g.cells[o].span /\ RowOf(b) \in RowsOf[g.cells[o].class]
  BY <1>1, <1>2 DEF Undisturbed, LiveFit
<1>5. WellFormed(g)
  BY <1>1, <1>3, SpansWell
<1>6. a[3] = b[3]
  <2> SUFFICES ASSUME a[3] # b[3] PROVE FALSE
    OBVIOUS
  <2>1. c[1] = o[1] /\ c[2] = a[3] /\ o[2] = b[3] /\ c # o
    BY <1>2
  <2>2. Run(g.periods, a[3], sessions[a].span) \cap Run(g.periods, b[3], sessions[b].span) # {}
    BY <1>2 DEF Together
  <2> HIDE DEF g, c, o
  <2>3. Run(g.periods, c[2], g.cells[c].span) \cap Run(g.periods, o[2], g.cells[o].span) = {}
    BY <1>3, <1>5, <2>1 DEF WellFormed
  <2> QED BY <1>4, <2>1, <2>2, <2>3
<1>7. a = <<a[1], a[2], a[3], a[4]>> /\ b = <<b[1], b[2], b[3], b[4]>>
  BY <1>1, <1>3, SessionFits
<1>8. RowOf(a) # RowOf(b)
  BY <1>2, <1>6, <1>7 DEF RowOf
<1>9. g.cells[c].class \in Classes
  BY <1>1, <1>3, TemplateFits, CellSpan
<1>10. {RowOf(a), RowOf(b)} \subseteq Electives
  <2>1. c = o
    BY <1>2, <1>6
  <2> HIDE DEF c, o, g
  <2> QED BY <1>4, <1>8, <1>9, <2>1, TimetableAssumption
<1> QED BY <1>2, <1>6, <1>10 DEF SlotOf

\* As long as nothing disturbs the week, any sequence of publishes, of templates
\* that come and go, of markings and cancellations leaves one class at a time
\* (publishWindow).
THEOREM WeekSound == TimetableSpec => []OneClassAtATime
<1>1. WeekFits => OneClassAtATime
  BY WeekIsOne
<1> QED BY <1>1, WeekInvariant, PTL

-----------------------------------------------------------------------------
(* What a publish deletes *)

Working(h) == pc[h] \in {"wipe", "seed"}

\* The rows a publish has deleted are its own, scheduled, from an entry and
\* of the days it was asked for, however the others race it.
WipesFit ==
  \A h \in Handlers : Working(h) =>
    /\ \A k \in job[h].wiped : /\ k \in DOMAIN sessions /\ Replaceable(k)
                               /\ sessions[k].entry # NoEntry
    /\ job[h].days \subseteq job[h].asked \cap Semester
    /\ \A k \in job[h].wiped \cup job[h].waits : DayOf(k) \in job[h].days
    /\ \A i \in Handlers \ {h} : Working(i) => job[h].wiped \cap job[i].wiped = {}

RowsKept == TimetableTypeOK /\ WipesFit

LEMMA WipesKept ==
  ASSUME WipesFit,
         \A h \in Handlers : Working(h)' =>
           /\ Working(h) /\ job'[h] = job[h]
           /\ \A k \in job[h].wiped : /\ k \in DOMAIN sessions'
                                      /\ sessions'[k].status = sessions[k].status
                                      /\ sessions'[k].entry = sessions[k].entry
  PROVE  WipesFit'
<1> SUFFICES ASSUME NEW h \in Handlers, Working(h)'
             PROVE  /\ \A k \in job'[h].wiped : /\ k \in DOMAIN sessions' /\ Replaceable(k)'
                                                /\ sessions'[k].entry # NoEntry
                    /\ job'[h].days \subseteq job'[h].asked \cap Semester
                    /\ \A k \in job'[h].wiped \cup job'[h].waits : DayOf(k) \in job'[h].days
                    /\ \A i \in Handlers \ {h} : Working(i)' => job'[h].wiped \cap job'[i].wiped = {}
  BY DEF WipesFit
<1>1. /\ \A k \in job[h].wiped : /\ k \in DOMAIN sessions /\ Replaceable(k)
                                 /\ sessions[k].entry # NoEntry
      /\ job[h].days \subseteq job[h].asked \cap Semester
      /\ \A k \in job[h].wiped \cup job[h].waits : DayOf(k) \in job[h].days
  BY DEF WipesFit
<1>2. \A k \in job'[h].wiped : /\ k \in DOMAIN sessions' /\ Replaceable(k)'
                               /\ sessions'[k].entry # NoEntry
  BY <1>1 DEF Replaceable
<1>3. ASSUME NEW i \in Handlers \ {h}, Working(i)' PROVE job'[h].wiped \cap job'[i].wiped = {}
  BY <1>3 DEF WipesFit
<1> QED BY <1>1, <1>2, <1>3

\* A step that leaves the handlers and the deleted rows alone.
LEMMA WipesLeft ==
  ASSUME WipesFit, UNCHANGED <<pc, job>>,
         \A k \in DOMAIN sessions : Wiped(k) =>
           /\ k \in DOMAIN sessions' /\ sessions'[k].status = sessions[k].status
           /\ sessions'[k].entry = sessions[k].entry
  PROVE  WipesFit'
<1>1. ASSUME NEW h \in Handlers, Working(h)'
      PROVE  /\ Working(h) /\ job'[h] = job[h]
             /\ \A k \in job[h].wiped : /\ k \in DOMAIN sessions'
                                        /\ sessions'[k].status = sessions[k].status
                                        /\ sessions'[k].entry = sessions[k].entry
  <2>1. Working(h) /\ job'[h] = job[h]
    BY <1>1 DEF Working
  <2>2. \A k \in job[h].wiped : k \in DOMAIN sessions /\ Wiped(k)
    BY <2>1 DEF WipesFit, Wiped, Working
  <2> QED BY <2>1, <2>2
<1> QED BY <1>1, WipesKept

\* An edit of a template at most takes the entry of a session away.
Entryless(k) == sessions'[k] \in {sessions[k], [sessions[k] EXCEPT !.entry = NoEntry]}

LEMMA ReplaceLeaves ==
  ASSUME SessionTypeOK, NEW t, NEW g, NEW gone, NEW tags, Replace(t, g, gone, tags)
  PROVE  /\ \A k \in DOMAIN sessions : Wiped(k) => k \in DOMAIN sessions' /\ sessions'[k] = sessions[k]
         /\ \A k \in DOMAIN sessions : k \in DOMAIN sessions' /\ Entryless(k)
BY ReplaceGrows, OrphanEffect DEF Orphan, Entryless

LEMMA RemoveTemplateLeaves ==
  ASSUME TimetableTypeOK, NEW t \in Templates, NEW today, RemoveTemplate(t, today)
  PROVE  /\ \A k \in DOMAIN sessions : Wiped(k) => k \in DOMAIN sessions' /\ sessions'[k] = sessions[k]
         /\ \A k \in DOMAIN sessions : Settled(k) =>
              k \in DOMAIN sessions' /\ Entryless(k)
<1> DEFINE cells == DOMAIN grid[t].cells
           future == {k \in Under(t, cells) : sessions[k].status = "scheduled" /\ DayOf(k) >= today}
<1>1. /\ sessions' = Without(Orphan(t, cells), future)
      /\ \A k \in Under(t, cells) : ~Wiped(k)
  BY DEF RemoveTemplate
<1>2. SessionTypeOK /\ cells \subseteq Days \X Periods
  BY TemplateFits DEF TimetableTypeOK
<1>3. \A k \in future : k \in Under(t, cells) /\ sessions[k].status = "scheduled"
  OBVIOUS
<1> HIDE DEF future
<1>4. /\ DOMAIN sessions' = DOMAIN sessions \ future
      /\ \A k \in DOMAIN sessions' : sessions'[k] = Orphan(t, cells)[k]
  <2>1. DOMAIN Orphan(t, cells) = DOMAIN sessions
    BY <1>2, OrphanEffect
  <2> HIDE DEF cells
  <2> QED BY <1>1, <2>1 DEF Without, Restrict
<1>5. ASSUME NEW k \in DOMAIN sessions, Wiped(k)
      PROVE  k \in DOMAIN sessions' /\ sessions'[k] = sessions[k]
  BY <1>1, <1>2, <1>3, <1>4, <1>5, OrphanEffect
<1>6. ASSUME NEW k \in DOMAIN sessions, Settled(k)
      PROVE  k \in DOMAIN sessions' /\ Entryless(k)
  <2>1. k \in Under(t, cells) => sessions[k].entry # NoEntry
    <3> HIDE DEF cells
    <3> QED BY <1>2, UnderEntry, EntryFacts DEF Under
  <2>2. k \notin future
    BY <1>3, <1>6, <2>1 DEF Settled
  <2> QED BY <1>2, <1>4, <2>2, OrphanEffect DEF Orphan, Entryless
<1> QED BY <1>5, <1>6

LEMMA TemplateRequestLeaves ==
  ASSUME TimetableTypeOK, NEW t \in Templates, TemplateRequest(t)
  PROVE  /\ UNCHANGED <<pc, job>>
         /\ \A k \in DOMAIN sessions : Wiped(k) => k \in DOMAIN sessions' /\ sessions'[k] = sessions[k]
         /\ \A k \in DOMAIN sessions : Settled(k) =>
              k \in DOMAIN sessions' /\ Entryless(k)
<1> DEFINE Leaves ==
      /\ UNCHANGED <<pc, job>>
      /\ \A k \in DOMAIN sessions : Wiped(k) => k \in DOMAIN sessions' /\ sessions'[k] = sessions[k]
      /\ \A k \in DOMAIN sessions : Settled(k) =>
           k \in DOMAIN sessions' /\ Entryless(k)
<1>1. SessionTypeOK
  BY DEF TimetableTypeOK
<1>2. ASSUME UNCHANGED <<pc, job>>, NEW u, NEW g, NEW gone, NEW tags, Replace(u, g, gone, tags)
      PROVE  Leaves
  BY <1>1, <1>2, ReplaceLeaves
<1>3. ASSUME UNCHANGED <<sessions, pc, job>> PROVE Leaves
  BY <1>3 DEF Entryless
<1>4. ASSUME NEW today, RemoveTemplate(t, today) PROVE Leaves
  <2>1. UNCHANGED <<pc, job>>
    BY <1>4 DEF RemoveTemplate
  <2> QED BY <1>4, <2>1, RemoveTemplateLeaves
<1>5. ASSUME NEW periods \in Orders, NEW breaks \in SUBSET Periods, SavePeriods(t, periods, breaks)
      PROVE  Leaves
  <2> HIDE DEF Leaves
  <2> QED BY <1>2, <1>5, SaveReplaces
<1>6. ASSUME NEW days, UpdateDays(t, days) PROVE Leaves
  <2> HIDE DEF Leaves
  <2> QED BY <1>2, <1>6 DEF UpdateDays
<1>7. ASSUME NEW class, RemoveCourse(t, class) PROVE Leaves
  <2> HIDE DEF Leaves
  <2> QED BY <1>2, <1>7 DEF RemoveCourse
<1>8. ASSUME NEW d, NEW p, Clear(t, d, p) PROVE Leaves
  <2> HIDE DEF Leaves
  <2> QED BY <1>2, <1>8 DEF Clear
<1>9. ASSUME NEW breaks, NEW days, Create(t, breaks, days) PROVE Leaves
  <2> HIDE DEF Leaves
  <2> QED BY <1>3, <1>9 DEF Create
<1>10. ASSUME NEW source, Clone(t, source) PROVE Leaves
  <2> HIDE DEF Leaves
  <2> QED BY <1>3, <1>10 DEF Clone
<1>11. Leaves
  <2> HIDE DEF Leaves
  <2> QED BY <1>4, <1>5, <1>6, <1>7, <1>8, <1>9, <1>10 DEF TemplateRequest
<1> QED BY <1>11

LEMMA SessionRequestLeaves ==
  ASSUME TimetableTypeOK, SessionRequest
  PROVE  /\ UNCHANGED <<grid, pc, job>>
         /\ \A k \in DOMAIN sessions : Wiped(k) => k \in DOMAIN sessions' /\ sessions'[k] = sessions[k]
<1> DEFINE Leaves ==
      /\ UNCHANGED <<grid, pc, job>>
      /\ \A k \in DOMAIN sessions : Wiped(k) => k \in DOMAIN sessions' /\ sessions'[k] = sessions[k]
<1>1. ASSUME NEW k \in DOMAIN sessions, NEW from, NEW to, NEW tags, SetStatus(k, from, to, tags)
      PROVE  Leaves
  BY <1>1 DEF SetStatus
<1>2. ASSUME NEW k \in DOMAIN sessions, NEW to \in Keys, Move(k, to) PROVE Leaves
  BY <1>2 DEF Move
<1>3. ASSUME NEW k \in Keys, CreateAdHoc(k) PROVE Leaves
  BY <1>3 DEF CreateAdHoc
<1>4. ASSUME NEW from, NEW to, DeclareHoliday(from, to) PROVE Leaves
  <2>1. SessionTypeOK /\ UNCHANGED <<grid, pc, job>>
    BY <1>4 DEF TimetableTypeOK, DeclareHoliday
  <2> QED BY <1>4, <2>1, HolidayEffect
<1>5. ASSUME NEW from, NEW to, RemoveHoliday(from, to) PROVE Leaves
  BY <1>5 DEF RemoveHoliday
<1>6. Leaves
  <2> HIDE DEF Leaves
  <2> QED BY <1>1, <1>2, <1>3, <1>4, <1>5 DEF SessionRequest
<1> QED BY <1>6

LEMMA IdleWipes ==
  ASSUME WipesFit, HandlerTypeOK, NEW h \in Handlers, NEW j, NEW label \in {"idle", "place"},
         Continue(h, j, label),
         \A k \in DOMAIN sessions : Wiped(k) /\ k \notin job[h].wiped =>
           k \in DOMAIN sessions' /\ sessions'[k] = sessions[k],
         Working(h) \/ (\A k \in DOMAIN sessions : Wiped(k) =>
           k \in DOMAIN sessions' /\ sessions'[k] = sessions[k])
  PROVE  WipesFit'
<1>1. /\ pc'[h] = label
      /\ \A i \in Handlers \ {h} : pc'[i] = pc[i] /\ job'[i] = job[i]
  BY HandlerMoves
<1>2. ASSUME NEW i \in Handlers, Working(i)'
      PROVE  /\ Working(i) /\ job'[i] = job[i]
             /\ \A k \in job[i].wiped : /\ k \in DOMAIN sessions'
                                        /\ sessions'[k].status = sessions[k].status
                                        /\ sessions'[k].entry = sessions[k].entry
  <2>1. i # h /\ Working(i) /\ job'[i] = job[i]
    BY <1>1, <1>2 DEF Working
  <2>2. \A k \in job[i].wiped : k \in DOMAIN sessions /\ Wiped(k) /\ (Working(h) => k \notin job[h].wiped)
    BY <2>1 DEF WipesFit, Wiped, Working
  <2> QED BY <2>1, <2>2
<1> QED BY <1>2, WipesKept

LEMMA StartPlaceWipes ==
  ASSUME RowsKept, NEW h \in Handlers, NEW t, NEW d, NEW p, NEW class, NEW span,
         StartPlace(h, t, d, p, class, span)
  PROVE  WipesFit'
<1>1. HandlerTypeOK /\ WipesFit
  BY DEF RowsKept, TimetableTypeOK
<1>2. UNCHANGED sessions
  BY DEF StartPlace
<1>3. PICK j : Begin(h, j, "place")
  BY DEF StartPlace
<1>4. Continue(h, j, "place")
  BY <1>3, BeginContinues
<1>5. \A k \in DOMAIN sessions : k \in DOMAIN sessions' /\ sessions'[k] = sessions[k]
  BY <1>2
<1> QED BY <1>1, <1>4, <1>5, IdleWipes

LEMMA PlaceLeaves ==
  ASSUME TimetableTypeOK, NEW h \in Handlers, Place(h)
  PROVE  /\ \A k \in DOMAIN sessions : Wiped(k) => k \in DOMAIN sessions' /\ sessions'[k] = sessions[k]
         /\ \A k \in DOMAIN sessions : k \in DOMAIN sessions' /\ Entryless(k)
<1>1. CASE Placeable(job[h])
  BY <1>1, PlaceReplaces, ReplaceLeaves DEF TimetableTypeOK
<1>2. CASE ~Placeable(job[h])
  BY <1>2, PlaceReplaces DEF Entryless
<1> QED BY <1>1, <1>2

LEMMA PlaceWipes ==
  ASSUME RowsKept, NEW h \in Handlers, Place(h)
  PROVE  WipesFit'
<1>1. HandlerTypeOK /\ WipesFit /\ TimetableTypeOK
  BY DEF RowsKept, TimetableTypeOK
<1>2. Continue(h, NoJob, "idle")
  BY <1>1, PlaceReplaces DEF End
<1>3. \A k \in DOMAIN sessions : Wiped(k) => k \in DOMAIN sessions' /\ sessions'[k] = sessions[k]
  BY <1>1, PlaceLeaves
<1> QED BY <1>1, <1>2, <1>3, IdleWipes

LEMMA FailWipes ==
  ASSUME RowsKept, NEW h \in Handlers, Fail(h)
  PROVE  WipesFit'
<1>1. HandlerTypeOK /\ WipesFit
  BY DEF RowsKept, TimetableTypeOK
<1>2. Continue(h, NoJob, "idle") /\ UNCHANGED sessions
  BY DEF Fail, End
<1>3. \A k \in DOMAIN sessions : k \in DOMAIN sessions' /\ sessions'[k] = sessions[k]
  BY <1>2
<1> QED BY <1>1, <1>2, <1>3, IdleWipes

LEMMA PublishWipes ==
  ASSUME RowsKept, NEW h \in Handlers, Publish(h)
  PROVE  WipesFit'
<1>1. HandlerTypeOK /\ WipesFit /\ TimetableTypeOK
  BY DEF RowsKept, TimetableTypeOK
<1>2. Continue(h, NoJob, "idle") /\ Working(h)
  BY <1>1, PublishEffect DEF End, Working
<1>3. \A k \in DOMAIN sessions : k \notin job[h].wiped =>
        k \in DOMAIN sessions' /\ sessions'[k] = sessions[k]
  BY <1>1, PublishEffect DEF Left
<1> QED BY <1>1, <1>2, <1>3, IdleWipes

\* A handler that takes rows takes those nobody has deleted.
LEMMA TakesWipes ==
  ASSUME WipesFit, HandlerTypeOK, NEW h \in Handlers, NEW j, NEW label \in {"wipe", "seed"},
         Continue(h, j, label), UNCHANGED sessions,
         \A k \in j.wiped : /\ k \in DOMAIN sessions /\ Replaceable(k)
                            /\ sessions[k].entry # NoEntry
                            /\ ~Wiped(k) \/ (Working(h) /\ k \in job[h].wiped),
         j.days \subseteq j.asked \cap Semester, \A k \in j.wiped \cup j.waits : DayOf(k) \in j.days
  PROVE  WipesFit'
<1>1. /\ pc'[h] = label /\ job'[h] = j
      /\ \A i \in Handlers \ {h} : pc'[i] = pc[i] /\ job'[i] = job[i]
  BY HandlerMoves
<1>2. ASSUME NEW i \in Handlers \ {h}, Working(i) PROVE j.wiped \cap job[i].wiped = {}
  <2> SUFFICES ASSUME NEW k \in j.wiped, k \in job[i].wiped PROVE FALSE
    OBVIOUS
  <2>1. Wiped(k)
    BY <1>2 DEF Wiped, Working
  <2> QED BY <1>2, <2>1 DEF WipesFit
<1> SUFFICES ASSUME NEW i \in Handlers, Working(i)'
             PROVE  /\ \A k \in job'[i].wiped : /\ k \in DOMAIN sessions' /\ Replaceable(k)'
                                                /\ sessions'[k].entry # NoEntry
                    /\ job'[i].days \subseteq job'[i].asked \cap Semester
                    /\ \A k \in job'[i].wiped \cup job'[i].waits : DayOf(k) \in job'[i].days
                    /\ \A o \in Handlers \ {i} : Working(o)' => job'[i].wiped \cap job'[o].wiped = {}
  BY DEF WipesFit
<1>3. \A k : Replaceable(k)' = Replaceable(k)
  BY DEF Replaceable
<1>4. \A o \in Handlers \ {h} : Working(o)' = Working(o)
  BY <1>1 DEF Working
<1>5. CASE i = h
  <2>1. \A o \in Handlers \ {h} : Working(o)' => j.wiped \cap job'[o].wiped = {}
    BY <1>1, <1>2, <1>4
  <2> QED BY <1>1, <1>3, <1>5, <2>1
<1>6. CASE i # h
  <2>1. Working(i) /\ job'[i] = job[i]
    BY <1>1, <1>4, <1>6
  <2>2. \A o \in Handlers \ {i} : Working(o)' => job[i].wiped \cap job'[o].wiped = {}
    BY <1>1, <1>2, <1>4, <1>6, <2>1 DEF WipesFit
  <2> QED BY <1>3, <2>1, <2>2 DEF WipesFit
<1> QED BY <1>5, <1>6

LEMMA StartPublishWipes ==
  ASSUME RowsKept, NEW h \in Handlers, NEW t, NEW days, NEW excluded,
         StartPublish(h, t, days, excluded)
  PROVE  WipesFit'
<1> DEFINE found == {k \in DOMAIN sessions :
                       DayOf(k) \in Window(days) /\ Replaceable(k) /\ Derived(k, t)}
           j == [op |-> "publish", template |-> t, asked |-> days, days |-> Window(days),
                 excluded |-> excluded, wiped |-> {k \in found : ~Wiped(k)},
                 waits |-> {k \in found : Wiped(k)}]
<1>1. HandlerTypeOK /\ WipesFit
  BY DEF RowsKept, TimetableTypeOK
<1>2. Begin(h, j, "wipe") /\ UNCHANGED sessions
  BY DEF StartPublish
<1>3. /\ j.wiped = {k \in found : ~Wiped(k)} /\ j.waits = {k \in found : Wiped(k)}
      /\ j.days = Window(days) /\ j.asked = days
  OBVIOUS
<1>4. \A k \in found : /\ k \in DOMAIN sessions /\ DayOf(k) \in Window(days)
                       /\ Replaceable(k) /\ sessions[k].entry # NoEntry
  BY DEF Derived
<1>5. Window(days) \subseteq days \cap Semester
  BY DEF Window
<1> HIDE DEF j, found
<1>6. Continue(h, j, "wipe")
  BY <1>2, BeginContinues
<1> QED BY <1>1, <1>2, <1>3, <1>4, <1>5, <1>6, TakesWipes

LEMMA WipeWipes ==
  ASSUME RowsKept, NEW h \in Handlers, Wipe(h)
  PROVE  WipesFit'
<1> DEFINE still == {k \in job[h].waits \cap DOMAIN sessions :
                       Replaceable(k) /\ Derived(k, job[h].template)}
           j == [job[h] EXCEPT !.wiped = @ \cup still, !.waits = {}]
<1>1. HandlerTypeOK /\ WipesFit
  BY DEF RowsKept, TimetableTypeOK
<1>2. /\ Continue(h, j, "seed") /\ pc[h] = "wipe" /\ UNCHANGED sessions
      /\ \A k \in job[h].waits : ~Wiped(k)
  BY DEF Wipe
<1>3. job[h] \in Publishing /\ Working(h)
  BY <1>1, <1>2, JobFits DEF Working
<1>4. /\ j.waits = {} /\ j.wiped = job[h].wiped \cup still
      /\ j.days = job[h].days /\ j.asked = job[h].asked
  <2> HIDE DEF still
  <2> QED BY <1>3 DEF Publishing
<1>5. \A k \in still : /\ k \in DOMAIN sessions /\ k \in job[h].waits
                       /\ Replaceable(k) /\ sessions[k].entry # NoEntry
  BY DEF Derived
<1> HIDE DEF j, still
<1>6. /\ \A k \in job[h].wiped : /\ k \in DOMAIN sessions /\ Replaceable(k)
                                 /\ sessions[k].entry # NoEntry
      /\ job[h].days \subseteq job[h].asked \cap Semester
      /\ \A k \in job[h].wiped \cup job[h].waits : DayOf(k) \in job[h].days
  BY <1>1, <1>3 DEF WipesFit
<1>7. \A k \in j.wiped : /\ k \in DOMAIN sessions /\ Replaceable(k)
                         /\ sessions[k].entry # NoEntry
                         /\ ~Wiped(k) \/ (Working(h) /\ k \in job[h].wiped)
  BY <1>2, <1>3, <1>4, <1>5, <1>6
<1>8. j.days \subseteq j.asked \cap Semester /\ \A k \in j.wiped \cup j.waits : DayOf(k) \in j.days
  BY <1>4, <1>5, <1>6
<1> QED BY <1>1, <1>2, <1>7, <1>8, TakesWipes

LEMMA RowsKeptStep == ASSUME RowsKept, TimetableNext PROVE RowsKept'
<1>1. TimetableTypeOK' /\ TimetableTypeOK /\ WipesFit
  BY TimetableTypeStep DEF RowsKept
<1> SUFFICES WipesFit'
  BY <1>1 DEF RowsKept
<1>2. ASSUME NEW t \in Templates, TemplateRequest(t) PROVE WipesFit'
  BY <1>1, <1>2, TemplateRequestLeaves, WipesLeft
<1>3. ASSUME SessionRequest PROVE WipesFit'
  BY <1>1, <1>3, SessionRequestLeaves, WipesLeft
<1>4. ASSUME NEW h \in Handlers, Start(h) PROVE WipesFit'
  BY <1>4, StartPlaceWipes, StartPublishWipes DEF Start
<1>5. ASSUME NEW h \in Handlers, Place(h) \/ Wipe(h) \/ Publish(h) \/ Fail(h) PROVE WipesFit'
  BY <1>5, PlaceWipes, WipeWipes, PublishWipes, FailWipes
<1> QED BY <1>2, <1>3, <1>4, <1>5 DEF TimetableNext

LEMMA RowsKeptInit == TimetableInit => RowsKept
BY TimetableTypeInit DEF TimetableInit, RowsKept, WipesFit, Working

LEMMA RowsKeptStutter == ASSUME RowsKept, UNCHANGED timetableVars PROVE RowsKept'
<1>1. TimetableTypeOK'
  BY TimetableTypeStutter DEF RowsKept
<1>2. WipesFit' = WipesFit
  BY DEF timetableVars, WipesFit, Working, Replaceable
<1> QED BY <1>1, <1>2 DEF RowsKept

LEMMA RowsKeptInvariant == TimetableSpec => []RowsKept
<1>1. RowsKept /\ [TimetableNext]_timetableVars => RowsKept'
  BY RowsKeptStep, RowsKeptStutter
<1> QED BY <1>1, RowsKeptInit, PTL DEF TimetableSpec

-----------------------------------------------------------------------------
(* What a publish leaves alone *)

LEMMA PublishLeaves ==
  ASSUME RowsKept, NEW h \in Handlers, Publish(h)
  PROVE  /\ \A k \in DOMAIN sessions : Settled(k) =>
              k \in DOMAIN sessions' /\ sessions'[k] = sessions[k]
         /\ \A k \in Keys : DayOf(k) \notin job[h].asked \cap Semester =>
              /\ (k \in DOMAIN sessions) <=> (k \in DOMAIN sessions')
              /\ k \in DOMAIN sessions => sessions'[k] = sessions[k]
<1>1. TimetableTypeOK /\ GridTypeOK /\ WipesFit
  BY DEF RowsKept, TimetableTypeOK
<1>2. /\ Working(h) /\ job[h].template \in Templates
      /\ DOMAIN sessions' = Left(h) \cup New(h) /\ \A k \in Left(h) : sessions'[k] = sessions[k]
      /\ New(h) \subseteq Seeds(job[h].template, job[h].days)
  BY <1>1, PublishEffect DEF Working
<1>3. \A k \in New(h) : DayOf(k) \in job[h].days
  BY <1>1, <1>2, SeedFits DEF DayOf
<1>4. /\ \A k \in job[h].wiped : Replaceable(k) /\ sessions[k].entry # NoEntry
      /\ job[h].days \subseteq job[h].asked \cap Semester /\ \A k \in job[h].wiped : DayOf(k) \in job[h].days
  BY <1>1, <1>2 DEF WipesFit
<1>5. ASSUME NEW k \in DOMAIN sessions, Settled(k)
      PROVE  k \in DOMAIN sessions' /\ sessions'[k] = sessions[k]
  <2>1. k \in Left(h)
    BY <1>4, <1>5 DEF Settled, Replaceable, Left
  <2> QED BY <1>2, <2>1
<1>6. ASSUME NEW k \in Keys, DayOf(k) \notin job[h].asked \cap Semester
      PROVE  /\ (k \in DOMAIN sessions) <=> (k \in DOMAIN sessions')
             /\ k \in DOMAIN sessions => sessions'[k] = sessions[k]
  <2>1. k \notin New(h) /\ k \notin job[h].wiped
    BY <1>3, <1>4, <1>6
  <2> QED BY <1>2, <2>1 DEF Left
<1> QED BY <1>5, <1>6

LEMMA StartMoves ==
  ASSUME HandlerTypeOK, NEW h \in Handlers, Start(h)
  PROVE  /\ UNCHANGED <<grid, sessions>>
         /\ \A i \in Handlers : pc[i] = "seed" => pc'[i] = "seed"
<1> DEFINE Begins == \E j : Begin(h, j, "place") \/ Begin(h, j, "wipe")
<1>1. ASSUME NEW t, NEW d, NEW p, NEW class, NEW span, StartPlace(h, t, d, p, class, span)
      PROVE  UNCHANGED <<grid, sessions>> /\ Begins
  BY <1>1 DEF StartPlace
<1>2. ASSUME NEW t, NEW days, NEW excluded, StartPublish(h, t, days, excluded)
      PROVE  UNCHANGED <<grid, sessions>> /\ Begins
  <2> DEFINE found == {k \in DOMAIN sessions :
                         DayOf(k) \in Window(days) /\ Replaceable(k) /\ Derived(k, t)}
             j == [op |-> "publish", template |-> t, asked |-> days, days |-> Window(days),
                   excluded |-> excluded, wiped |-> {k \in found : ~Wiped(k)},
                   waits |-> {k \in found : Wiped(k)}]
  <2>1. Begin(h, j, "wipe") /\ UNCHANGED <<grid, sessions>>
    BY <1>2 DEF StartPublish
  <2> HIDE DEF j
  <2> QED BY <2>1
<1> HIDE DEF Begins
<1>3. UNCHANGED <<grid, sessions>> /\ Begins
  BY <1>1, <1>2 DEF Start
<1>4. PICK j, label : Begin(h, j, label) /\ label \in {"place", "wipe"}
  BY <1>3 DEF Begins
<1>5. pc[h] = "idle" /\ \A i \in Handlers \ {h} : pc'[i] = pc[i]
  BY <1>4, BeginContinues, HandlerMoves
<1> QED BY <1>3, <1>5

\* Whatever races it, a publish, and an edit of a template too, leaves a marked, a
\* cancelled and an ad-hoc session as it is (publishWindow's DELETE).
THEOREM HistoryIsKept == TimetableSpec => HistoryStands
<1> DEFINE Published == \E h \in Handlers : pc[h] = "seed" /\ pc'[h] = "idle"
           Stands(k) == /\ k \in DOMAIN sessions'
                        /\ \/ sessions'[k] = sessions[k]
                           \/ grid' # grid /\ sessions'[k] = [sessions[k] EXCEPT !.entry = NoEntry]
<1>1. ASSUME RowsKept, TimetableNext, grid' # grid \/ Published, NEW k \in DOMAIN sessions, Settled(k)
      PROVE  Stands(k)
  <2>1. TimetableTypeOK /\ HandlerTypeOK
    BY <1>1 DEF RowsKept, TimetableTypeOK
  <2>2. CASE \E t \in Templates : TemplateRequest(t)
    <3>1. UNCHANGED pc /\ k \in DOMAIN sessions' /\ Entryless(k)
      BY <1>1, <2>1, <2>2, TemplateRequestLeaves
    <3>2. grid' # grid
      BY <1>1, <3>1
    <3> QED BY <3>1, <3>2 DEF Entryless
  <2>3. CASE SessionRequest
    <3>1. UNCHANGED <<grid, pc>>
      BY <2>1, <2>3, SessionRequestLeaves
    <3> QED BY <1>1, <3>1
  <2>4. CASE \E h \in Handlers : Start(h)
    <3>1. UNCHANGED <<grid, sessions>>
      BY <2>1, <2>4, StartMoves
    <3> QED BY <1>1, <3>1
  <2>5. CASE \E h \in Handlers : Place(h)
    <3>1. PICK h \in Handlers : Place(h)
      BY <2>5
    <3>2. pc[h] = "place" /\ End(h) /\ k \in DOMAIN sessions' /\ Entryless(k)
      BY <1>1, <2>1, <3>1, PlaceReplaces, PlaceLeaves
    <3>3. ~Published
      BY <2>1, <3>2, EndMoves
    <3>4. grid' # grid
      BY <1>1, <3>3
    <3> QED BY <3>2, <3>4 DEF Entryless
  <2>6. CASE \E h \in Handlers : Wipe(h) \/ Fail(h)
    BY <1>1, <2>6 DEF Wipe, Fail
  <2>7. CASE \E h \in Handlers : Publish(h)
    BY <1>1, <2>7, PublishLeaves
  <2> QED BY <1>1, <2>2, <2>3, <2>4, <2>5, <2>6, <2>7 DEF TimetableNext
<1>2. RowsKept /\ [TimetableNext]_timetableVars =>
        [grid' # grid \/ Published =>
           \A k \in DOMAIN sessions : Settled(k) => Stands(k)]_timetableVars
  BY <1>1
<1> QED BY <1>2, RowsKeptInvariant, PTL DEF TimetableSpec, HistoryStands

\* A publish adds nothing to a day it was not asked for, and takes nothing from
\* it, however the days are clamped to the semester (clampWindow).
THEOREM OtherDaysAreKept == TimetableSpec => OtherDaysStand
<1>1. ASSUME RowsKept, TimetableNext, NEW h \in Handlers, pc[h] = "seed", pc'[h] = "idle",
             NEW k \in Keys, DayOf(k) \notin job[h].asked \cap Semester
      PROVE  /\ (k \in DOMAIN sessions) <=> (k \in DOMAIN sessions')
             /\ k \in DOMAIN sessions => sessions'[k] = sessions[k]
  <2>1. TimetableTypeOK /\ HandlerTypeOK
    BY <1>1 DEF RowsKept, TimetableTypeOK
  <2>2. CASE \E t \in Templates : TemplateRequest(t)
    BY <1>1, <2>1, <2>2, TemplateRequestLeaves
  <2>3. CASE SessionRequest
    BY <1>1, <2>1, <2>3, SessionRequestLeaves
  <2>4. CASE \E i \in Handlers : Start(i)
    BY <1>1, <2>1, <2>4, StartMoves
  <2>5. CASE \E i \in Handlers : Place(i)
    <3>1. PICK i \in Handlers : Place(i)
      BY <2>5
    <3>2. pc[i] = "place" /\ End(i)
      BY <2>1, <3>1, PlaceReplaces
    <3>3. pc'[h] = pc[h]
      BY <1>1, <2>1, <3>2, EndMoves
    <3> QED BY <1>1, <3>3
  <2>6. CASE \E i \in Handlers : Wipe(i) \/ Fail(i)
    BY <1>1, <2>6 DEF Wipe, Fail
  <2>7. CASE \E i \in Handlers : Publish(i)
    <3>1. PICK i \in Handlers : Publish(i)
      BY <2>7
    <3>2. End(i)
      BY <2>1, <3>1, PublishEffect
    <3>3. i = h
      BY <1>1, <2>1, <3>2, EndMoves
    <3> QED BY <1>1, <3>1, <3>3, PublishLeaves
  <2> QED BY <1>1, <2>2, <2>3, <2>4, <2>5, <2>6, <2>7 DEF TimetableNext
<1>2. RowsKept /\ [TimetableNext]_timetableVars =>
        [\A h \in Handlers : pc[h] = "seed" /\ pc'[h] = "idle" =>
           \A k \in Keys : DayOf(k) \notin job[h].asked \cap Semester =>
             /\ (k \in DOMAIN sessions) <=> (k \in DOMAIN sessions')
             /\ k \in DOMAIN sessions => sessions'[k] = sessions[k]]_timetableVars
  BY <1>1
<1> QED BY <1>2, RowsKeptInvariant, PTL DEF TimetableSpec, OtherDaysStand

\* A publish touches what it is for and nothing else: history, and the days it
\* was not asked for, stay as they are (publishWindow).
THEOREM PublishSpares == TimetableSpec => PublishSparesTheRest
BY HistoryIsKept, OtherDaysAreKept DEF PublishSparesTheRest

=============================================================================
