SPECIFICATION PHSpec
CONSTANTS
  NoUser = NoUser
  NoToken = NoToken
  NoIP = NoIP
  NoJob = NoJob
  Users = {u1}
  Forgetful = {}
  Tokens = {t1, t2, t3}
  Requests = {r1, r2}
  IPs = {ip1}
  Jobs = {j1}
  RefreshTtl = 1
  LinkTtl = 1
  MaxTime = 0
  AdminStatuses = {}
  AdminLists = {}
SYMMETRY AnyNames
CHECK_DEADLOCK FALSE
INVARIANTS
  OneLiveToken
  OneRotation
  QuietChangeEndsSessions
PROPERTIES
  ImplementsTokenFamily
