SPECIFICATION HSpec
CONSTANTS
  NoAddress = NoAddress
  NoRequest = NoRequest
  Ids = {i1, i2, i3}
  Mailboxes = {m1, m2}
  Requests = {q1, q2}
  Kinds = {"register", "update_me", "update_user", "resolve"}
SYMMETRY Everything
CHECK_DEADLOCK FALSE
INVARIANTS
  AccountsTypeOK
  OneAccountPerMailbox
  OnlyOverlapsMixProfiles
  OnlyFreedAddressesRepeat
PROPERTIES
  OnlyEarlierRequestsRegister
