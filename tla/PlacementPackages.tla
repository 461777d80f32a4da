------------------------- MODULE PlacementPackages -------------------------
(***************************************************************************)
(* What a placement drive advertises and what is recorded of a selected    *)
(* student (employee/drive-management/drives.service.ts,                   *)
(* drive-attributes.service.ts, drive-students.service.ts).                *)
(*                                                                         *)
(* An offer type's flags decide which figures apply: a CTC when it is full *)
(* time, a stipend when it is an internship.  Offer type and figures are   *)
(* on the drive or on each designation, as offer_type_scope says.  A       *)
(* selection is recorded through the form or a sheet, which fills its      *)
(* blanks from what the drive advertises.  What is compared is the number  *)
(* in the request; what is kept is that number rounded to a hundredth.     *)
(* Locations, placement categories and bonds, scoped in the same way, and  *)
(* names are left out.                                                     *)
(***************************************************************************)
EXTENDS Integers, FiniteSets

CONSTANTS Profiles,    \* the designations a drive can list
          Offers, NoOffer, NoProfile, NoDrive, NoSelection,
          MaxAmount, MaxListed,  \* the largest figure, the most designations
          Rounded                \* what a numeric(12,2) column keeps of a number

ASSUME PackageAssumption == MaxAmount \in Nat \ {0} /\ MaxListed \in Nat \ {0}

VARIABLES flags,        \* drive_offer_types: the figures each type carries
          drive,        \* one drive's scope and figures
          selection,    \* the package columns of one drive_students row
          reclassified  \* history: an offer type's flags changed under the drive

packageVars == <<flags, drive, selection, reclassified>>

Kinds == {"ctc", "stipend"}
Null == -1
Amounts == 0 .. MaxAmount

\* Rounding keeps the order of two numbers, but may make them equal, and a positive
\* one zero.
ASSUME RoundingAssumption ==
  /\ Rounded \in [Amounts -> Amounts]
  /\ \A a, b \in Amounts : a <= b => Rounded[a] <= Rounded[b]

Figures == [mode : {"none", "fixed", "range"}, min : Amounts \cup {Null}, max : Amounts \cup {Null}]

\* assertAmount: fixed has only the lower figure, a range has both in order.
\* Without a mode nothing reads the figures.
Complete(f) ==
  /\ f.min = Null <=> f.mode = "none"
  /\ f.max = Null <=> f.mode # "range"

AmountOK(f) == Complete(f) /\ (f.mode = "range" => f.min < f.max)

\* The figures a request may carry, and those a row may hold.
Requestable == {f \in Figures : AmountOK(f)}
Advertised == {f \in Figures : Complete(f) /\ (f.mode = "range" => f.min <= f.max)}
NoFigure == [mode |-> "none", min |-> Null, max |-> Null]

Sides == [offer : Offers \cup {NoOffer}, figure : [Kinds -> Advertised]]
Blank == [offer |-> NoOffer, figure |-> [k \in Kinds |-> NoFigure]]

PartialFunctions(S, T) == UNION {[R -> T] : R \in SUBSET S}
Drives == [scope : {"drive", "designation"}, side : Sides,
           sides : PartialFunctions(Profiles, Sides)]

\* Storing rounds: the numeric(12,2) columns of drives, drive_profiles and
\* drive_students.
Stored(a) == IF a = Null THEN Null ELSE Rounded[a]
StoredFigure(f) == [mode |-> f.mode, min |-> Stored(f.min), max |-> Stored(f.max)]
StoredSide(side) == [offer |-> side.offer, figure |-> [k \in Kinds |-> StoredFigure(side.figure[k])]]
StoredDrive(d) == [scope |-> d.scope, side |-> StoredSide(d.side),
                   sides |-> [p \in DOMAIN d.sides |-> StoredSide(d.sides[p])]]

Package == [main : [Kinds -> Amounts \cup {Null}], lower : [Kinds -> Amounts \cup {Null}]]

StoredPackage(package) == [main  |-> [k \in Kinds |-> Stored(package.main[k])],
                           lower |-> [k \in Kinds |-> Stored(package.lower[k])]]

\* Null is no row.
ASSUME NothingAssumption ==
  NoDrive \notin Drives /\ NoSelection \notin [profile : Profiles \cup {NoProfile}, package : Package]

PackagesTypeOK ==
  /\ flags \in [Offers -> (SUBSET Kinds) \ {{}}]
  /\ drive # NoDrive => drive.scope \in {"drive", "designation"} /\ DOMAIN drive.sides # {}
  /\ selection # NoSelection =>
       /\ drive # NoDrive /\ selection.profile \in DOMAIN drive.sides \cup {NoProfile}
       /\ selection.package \in Package

PackagesInit ==
  /\ flags \in [Offers -> (SUBSET Kinds) \ {{}}]
  /\ drive = NoDrive /\ selection = NoSelection /\ reclassified = FALSE

-----------------------------------------------------------------------------
(* DrivesService.validate *)

\* assertPackageMatchesOfferType, both ways round.
PackageMatches(side) ==
  /\ side.offer # NoOffer
  /\ \A k \in Kinds : (side.figure[k].mode # "none") <=> k \in flags[side.offer]

\* assertSide: what the scope does not name is absent.
Valid(d) ==
  /\ DOMAIN d.sides # {}
  /\ IF d.scope = "drive"
     THEN PackageMatches(d.side) /\ \A p \in DOMAIN d.sides : d.sides[p] = Blank
     ELSE d.side = Blank /\ \A p \in DOMAIN d.sides : PackageMatches(d.sides[p])

\* The drives a request can ask for: Valid picks among the sides that match.
Matching == {side \in [offer : Offers, figure : [Kinds -> Requestable]] : PackageMatches(side)}

Requested(listed) ==
  {[scope |-> "drive", side |-> side, sides |-> [p \in listed |-> Blank]] : side \in Matching}
  \cup {[scope |-> "designation", side |-> Blank, sides |-> f] : f \in [listed -> Matching]}

\* update deletes the designations left out; the foreign key of a selection
\* made for one is set null, and its amounts stay.  Mutant: it is left alone.
Dangling(listed) == selection
Detached(listed) == IF selection # NoSelection /\ selection.profile \notin listed
                    THEN [selection EXCEPT !.profile = NoProfile] ELSE selection

\* create and update alike store the merged request once it is valid, rounded.
SaveDrive(listed) ==
  /\ Cardinality(listed) \in 1 .. MaxListed
  /\ \E d \in Requested(listed) : Valid(d) /\ drive' = StoredDrive(d)
  /\ selection' = Detached(listed)
  /\ reclassified' = FALSE
  /\ UNCHANGED flags

\* DriveAttributesService.update: at least one flag stays set, and no drive of
\* the type is looked at.
EditOfferType(o, kinds) ==
  /\ kinds # {} /\ kinds # flags[o]
  /\ flags' = [flags EXCEPT ![o] = kinds]
  /\ reclassified' = (drive # NoDrive)
  /\ UNCHANGED <<drive, selection>>

-----------------------------------------------------------------------------
(* Recording a selection *)

\* packageSide.
Owner(p) == IF drive.scope = "designation" THEN drive.sides[p] ELSE drive.side

Carries(p) == IF Owner(p).offer = NoOffer THEN {} ELSE flags[Owner(p).offer]

\* refineSelectionPackage and assertSelection: the form.
FormAccepts(p, package) ==
  \A k \in Kinds :
    LET main == package.main[k]  lower == package.lower[k] IN
    /\ main # 0 /\ lower # 0
    /\ (main # Null) <=> k \in Carries(p)
    /\ lower # Null => /\ main # Null /\ lower < main
                       /\ Owner(p).figure[k].mode = "range"

Positive(a) == IF a > 0 THEN a ELSE Null

\* defaultPackageFor: a fixed figure is kept in min, a range's in max.
\* Mutant: the figure of either mode is looked for in max.
DefaultFromMax(f) ==
  IF f.mode # "none" /\ Positive(f.max) # Null
  THEN [main |-> f.max, lower |-> Positive(f.min)] ELSE [main |-> Null, lower |-> Null]
DefaultOf(f) ==
  IF f.mode = "fixed" THEN [main |-> Positive(f.min), lower |-> Null]
  ELSE IF f.mode = "range" /\ Positive(f.max) # Null
  THEN [main |-> f.max, lower |-> Positive(f.min)] ELSE [main |-> Null, lower |-> Null]

\* validateSelectionRows: a main figure the offer type wants and the sheet says
\* nothing of comes from the drive, with its lower bound.
Fills(p, k, row) == k \in Carries(p) /\ row.main[k] = Null /\ row.lower[k] = Null

Resolved(p, row) ==
  LET default(k) == DefaultOf(Owner(p).figure[k]) IN
  [main  |-> [k \in Kinds |-> IF Fills(p, k, row) THEN default(k).main ELSE row.main[k]],
   lower |-> [k \in Kinds |-> IF Fills(p, k, row) THEN default(k).lower ELSE row.lower[k]]]

LowerFits(p, k, main, lower) ==
  lower # Null => /\ Owner(p).figure[k].mode = "range"
                  /\ main # Null /\ lower < main

SheetAccepts(p, row) ==
  \A k \in Kinds :
    LET main == Resolved(p, row).main[k]  lower == Resolved(p, row).lower[k] IN
    /\ row.main[k] # 0 /\ row.lower[k] # 0
    /\ (main # Null) <=> k \in Carries(p)
    /\ LowerFits(p, k, main, lower)

\* The statuses that admit it are DriveStudents' subject.
RecordByForm(p, package) ==
  /\ FormAccepts(p, package)
  /\ selection' = [profile |-> p, package |-> StoredPackage(package)]
  /\ UNCHANGED <<flags, drive, reclassified>>

RecordBySheet(p, row) ==
  /\ SheetAccepts(p, row)
  /\ selection' = [profile |-> p, package |-> StoredPackage(Resolved(p, row))]
  /\ UNCHANGED <<flags, drive, reclassified>>

Listed == IF drive = NoDrive THEN {} ELSE DOMAIN drive.sides

PackagesNext ==
  \/ \E listed \in SUBSET Profiles : SaveDrive(listed)
  \/ \E o \in Offers, kinds \in SUBSET Kinds : EditOfferType(o, kinds)
  \/ \E p \in Listed, package \in Package : RecordByForm(p, package) \/ RecordBySheet(p, package)

PackagesSpec == PackagesInit /\ [][PackagesNext]_packageVars

-----------------------------------------------------------------------------
(* Properties *)

\* The sheet and the form are one rule written twice: a sheet row is accepted
\* exactly when the form accepts what it resolves to, cell errors aside, and
\* what the form accepts the sheet records unchanged.
SheetAgreesWithForm ==
  \A p \in Listed, row \in Package :
    /\ SheetAccepts(p, row) => FormAccepts(p, Resolved(p, row))
    /\ FormAccepts(p, row) => SheetAccepts(p, row) /\ Resolved(p, row) = row

BlankRow == [main |-> [k \in Kinds |-> Null], lower |-> [k \in Kinds |-> Null]]

\* A sheet of bare roll numbers is a valid upload, unless the offer type was edited
\* under the drive, or the drive holds a zero, which its own form admits, or a range
\* whose ends have become one when they were stored.
BareRollsSuffice ==
  ~reclassified =>
    \A p \in Listed :
      SheetAccepts(p, BlankRow) <=>
        \A k \in Carries(p) :
          LET f == Owner(p).figure[k] IN IF f.mode = "fixed" THEN f.min > 0 ELSE f.min < f.max

\* The sheet does what the form does, and fills in what the form would be given.
SheetFollowsForm == SheetAgreesWithForm /\ BareRollsSuffice

\* Whichever way it was recorded and whatever became of the drive since, a recorded
\* package has a figure, and a lower bound stands only beside its figure and not
\* above it.  More than that rounding does not leave: the bound that was below its
\* figure may have become equal to it, and either may have become zero.
RecordedInOrder ==
  selection # NoSelection =>
    /\ \E k \in Kinds : selection.package.main[k] # Null
    /\ \A k \in Kinds :
         selection.package.lower[k] # Null =>
           selection.package.main[k] # Null /\ selection.package.lower[k] <= selection.package.main[k]

\* The invariant of the rows: a selection refers to a designation the drive still
\* lists, or to none, and its figures are in order.
PackagesInv == PackagesTypeOK /\ RecordedInOrder
=============================================================================
