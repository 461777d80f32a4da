SPECIFICATION PackagesSpec
CONSTANTS
  Profiles = {p1, p2}
  Offers = {o1}
  NoOffer = NoOffer
  NoProfile = NoProfile
  NoDrive = NoDrive
  NoSelection = NoSelection
  MaxAmount = 3
  Rounded <- MCRounded
  MaxListed = 1
SYMMETRY MCSymmetry
INVARIANTS
  PackagesInv
  SheetFollowsForm
