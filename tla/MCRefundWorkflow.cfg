CONSTANTS
  m = m  g = g  h = h
  s1 = s1  s2 = s2
  a1 = a1  a2 = a2
  Refunds = {m, g, h}
  Manual = {m, h}
  Legacy = {h}
  Staff = {s1, s2}
  Buyer = Buyer
  Accounts = {a1, a2}
  References = {"FT123456"}
  Upper <- Capitals
  None = None
SPECIFICATION FocusSpec
INVARIANTS OneCallPerRefund RecipientAttested
PROPERTIES KeepsPromise ReachedResolves
