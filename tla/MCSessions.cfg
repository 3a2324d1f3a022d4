SPECIFICATION FairHSpec
CONSTANTS
  ip1 = ip1
  NoUser = NoUser
  NoToken = NoToken
  NoIP = NoIP
  Users = {u1}
  Tokens = {t1, t2}
  Requests = {r1, r2}
  IPs = {ip1, ip2}
  RefreshTtl = 1
  MaxTime = 1
  AdminStatuses = {"disabled"}
  AdminLists <- OneAddress
CHECK_DEADLOCK FALSE
INVARIANTS
  TypeOK
  QuietRevocationIsFinal
PROPERTIES
  OnlyEarlierReadsEscape
  ImplementsFairTokenFamily
  RequestsEnd
