SPECIFICATION RHSpec
CONSTANTS
  NoUser = NoUser
  NoToken = NoToken
  NoIP = NoIP
  Users = {u1}
  Tokens = {t1, t2, t3}
  Requests = {r1, r2, r3}
  IPs = {ip1}
  RefreshTtl = 1
  MaxTime = 0
  AdminStatuses = {}
  AdminLists = {}
SYMMETRY RequestsAndTokens
CHECK_DEADLOCK FALSE
INVARIANT
  ReuseClosesFamily
