SPECIFICATION Spec
CONSTANTS
  UserIds = {u1, u2}
  TokenIds = {t1}
  SessionIds = {s1, s2}
  Names = {n1, n2}
  Passwords = {p1}
  None = None
  Torn = Torn
  Faults <- UsersAndTokens
  MaxEvents = 1
  Handlers = {h1, h2}
  Requests <- AllRequests
  Bootstrap = {TRUE, FALSE}
SYMMETRY Symmetry
INVARIANTS TypeOK NamesAgree Synced DeletedStays RevokedStays
PROPERTY DeletedNeverCalls
CHECK_DEADLOCK FALSE
