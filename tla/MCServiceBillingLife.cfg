SPECIFICATION LiveSpec
CONSTANTS
  u1 = u1  l1 = l1  r1 = r1  r2 = r2  t1 = t1  t2 = t2
  Users = {u1}
  Listings = {l1}
  Owner <- OneListing
  Orders = {1}
  Requests = {r1}
  Worker = Worker
  Transfers = {t1}
  Providers = {"PAYOS", "MOMO_SANDBOX"}
  ReconcileEnabled = TRUE
  MaxRound = 2
  Explored = {"DRAFT", "PENDING", "PUBLISHED", "REJECTED", "CLOSED", "DELETED",
              "full", "locked", "closed"}
  Offered = {l1, u1}
  None = None
INVARIANT ClosedAccountIsQuiet
PROPERTIES PaidIsFinal PaidIsSettled
