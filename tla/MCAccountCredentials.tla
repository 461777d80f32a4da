------------------------ MODULE MCAccountCredentials ------------------------
EXTENDS AccountCredentials, TLC
MCSymmetry ==
  Permutations(Handlers) \cup Permutations(Sids) \cup Permutations(Invites) \cup Permutations(Tokens)
=============================================================================
