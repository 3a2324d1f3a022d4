SPECIFICATION FairHSpec
CONSTANTS
  NoUser = NoUser
  Users = {u1, u2, u3}
  Requests = {q1, q2, q3}
  Capacity = 1
  TokenTtl = 1
  Modes = {"disabled", "connected"}
INVARIANTS
  DeletionTypeOK
  OneEventPerDeletion
  OnlyFailuresLoseEvents
PROPERTIES
  ImplementsDeletionEvents
  ConnectedDeletionsEnd
