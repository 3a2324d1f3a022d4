SPECIFICATION FairHSpec
CONSTANTS
  NoUser = NoUser
  Users = {root}
  SeededAdmin = root
  Ids = {i1, i2, i3, i4, i5}
  Names = {"admin", "drive", "budgy", "editor"}
  SubNames = {"budgy", "editor"}
  Releases <- TwoReleases
  Lists <- PlainAndPadded
  Requests = {q1, q2}
INVARIANTS
  RolesTypeOK
  PortalRolesWhileListening
  CatalogueReadable
PROPERTIES
  StartRestoresAdmin
  StartEnds
  OnlyRacingDeletionsEscape
