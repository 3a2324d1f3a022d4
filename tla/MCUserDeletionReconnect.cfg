SPECIFICATION FairHSpec
CONSTANTS
  NoUser = NoUser
  Users = {u1}
  Requests = {q1}
  Capacity = 1
  TokenTtl = 1
  Modes = {"disabled", "connected"}
PROPERTY
  LoopReconnects
