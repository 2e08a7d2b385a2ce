CONSTANTS
  m = m
  g = g
  h = h
  s1 = s1
  s2 = s2
  a1 = a1
  a2 = a2
  Refunds = {g}
  Manual = {}
  Legacy = {}
  Staff = {s1, s2}
  Buyer = Buyer
  Accounts = {a1, a2}
  References = {}
  Upper <- Capitals
  None = None
SPECIFICATION FocusSpec
PROPERTY UncertainResolves
