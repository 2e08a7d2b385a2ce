SPECIFICATION FocusSpec
CONSTANTS
  u1 = u1  l1 = l1  r1 = r1  r2 = r2  t1 = t1  t2 = t2
  Users = {u1}
  Listings = {l1}
  Owner <- OneListing
  Orders = {1, 2}
  Requests = {r1, r2}
  Worker = Worker
  Transfers = {t1, t2}
  Providers = {"PAYOS"}
  ReconcileEnabled = FALSE
  MaxRound = 2
  Explored = {"PENDING", "PUBLISHED", "CLOSED"}
  Offered = {l1}
  None = None
SYMMETRY Symmetry
INVARIANTS OrdersAreExclusive OneBenefitPerRound MoneyAccounted BoostIsEarned
