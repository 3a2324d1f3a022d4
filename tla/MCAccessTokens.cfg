SPECIFICATION FairSpec
CONSTANTS
  Users = {u1, u2}
  Listed = {u1}
  Deletable = {u1}
  RoleNames = {"admin"}
  Ips = {ip1}
  NoIp = NoIp
  Requests = {q1, q2}
  MaxTokens = 1
  Ttl = 1
  Leeway = 0
  MaxFlight = 1
  Headers = {"portail_home", "autre"}
  Portals = {"portail_home"}
INVARIANTS
  TokensTypeOK
  StalenessBounded
  AdministratorsRecent
PROPERTIES
  RevokedRightsFade
