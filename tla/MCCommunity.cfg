SPECIFICATION FocusSpec
CONSTANTS
  People = {a, b}
  None = None
  Visits = {v1}
  Texts = {x1, x2}
  Keys = {k1}
  Starts = {1, 2}
  MaxDay = 1
  MaxMessages = 2
  MaxInvited = 4
  MaxMoved = 2
  Houses = {1, 2}
  MaxJoins = 1
  Calls = {c1, c2}
  Connected <- Everyone
  Home = 1
  Weights = {w1}
  DefaultIds = {1, 2}
  Days = {1}
  MaxTime = 1
  MaxRounds = 2
  MaxVoteVersion = 1
  Written = {x1}
  Attachments = {k1}
  Recordings = {v1}
  MaxAttachments = 3
  MaxSends = 3
  MaxDrops = 2
SYMMETRY Symmetry
INVARIANTS
  ReadMarkersFollowPeople RetryIsRecognised NothingOutlivesTheLink VisitsAreAgreed
  HousesAreSound VotesAreSound ComposerIsSound
PROPERTY AgreementStands
CHECK_DEADLOCK FALSE
