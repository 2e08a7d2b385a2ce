SPECIFICATION FocusSpec
CONSTANTS
  People = {a, b}
  None = None
  Houses = {1}
  MaxJoins = 1
  Calls = {c1, c2}
  Connected <- Everyone
  Home = 1
  Weights = {}
  DefaultIds = {1}
  Days = {1}
  MaxTime = 1
  MaxRounds = 1
  MaxVoteVersion = 1
  u1 = u1
  p1 = p1
  Users = {u1}
  Packs = {p1}
  Uses = {x1, x2}
  Instances = {i1, i2}
  Buyer <- OneBuyer
  FreeCredits = 1
  PackCredits = 1
  MaxActive = 1
INVARIANT CreditsAreSound
PROPERTIES RosterSpec VotesAreCounted EveryCallEnds EveryUseSettles
CHECK_DEADLOCK FALSE
