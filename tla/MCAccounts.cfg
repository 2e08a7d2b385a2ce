SPECIFICATION FocusSpec
CONSTANTS
  People = {}
  None = None
  Secrets = {x1, x2}
  ResetGrants = {g1, g2}
  Visitors = {c1, c2}
  MaxAttempts = 2
  MaxCodes <- CodeLimits
  Sessions = {x1, x2}
  Authorizations = {o1, o2}
  Grants = {g1, g2}
  Exchanges = {c1, c2}
  MaxGrants = 1
  MaxTokens = 3
  Debtors = {1, 2, 3}
  Unregistered = {2}
  Books <- SomeBooks
  Mails = {x1, x2}
  Mailers = {i1}
  Week = 2
  MaxPromise = 1
  MaxTries = 1
  Bills = {r1}
  Schedulers = {c1, c2}
  Lengths <- Calendar
  PayDays = {1, 2}
  CatchUp = 1
  Tabs = {c1, c2}
  Generations = {g1, g2}
  Saves = {x1, x2}
  Remarks = {r1}
  MaxFaults = 2
  Images = {x1, x2}
  Handlers = {c1, c2}
  MaxPhotos = 1
  MaxEdits = 2
  MaxMishaps = 1
SYMMETRY Symmetry
INVARIANTS
  SessionsAreCurrent ProofsActOnce TokensActOnce
  TransfersAreExact WaitingMailIsTrue NobodyIsForgotten EachMonthIsBilledOnce
  SummariesArePaid PicturesAreStored
PROPERTY NotesAreKept
CHECK_DEADLOCK FALSE
