SPECIFICATION FocusSpec
CONSTANTS
  a = a  b = b  c = c
  People = {a, b, c}
  Guests = {c}
  Movers = {a, c}
  Expenses = {e1, e2}
  Payments = {q1, q2}
  Amounts = {1, 2}
  Unpaid = 1
  MaxCorrections = 2
  None = None
SYMMETRY Symmetry
INVARIANTS WaitingIsCovered SupplierAccounted RoundsAddUp
PROPERTY KeepsBook
CHECK_DEADLOCK FALSE
