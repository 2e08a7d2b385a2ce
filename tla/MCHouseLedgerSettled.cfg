SPECIFICATION FocusSpec
CONSTANTS
  a = a  b = b  c = c
  People = {a, b}
  Guests = {}
  Movers = {}
  Expenses = {e1, e2}
  Payments = {q1}
  Amounts = {1}
  Unpaid = 0
  MaxCorrections = 0
  None = None
SYMMETRY Symmetry
INVARIANT SettledMeansBalanced
CHECK_DEADLOCK FALSE
