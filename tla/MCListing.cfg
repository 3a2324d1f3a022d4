SPECIFICATION HSpec
CONSTANTS
  Ids = {1, 2}
  MaxTime = 1
  Statuses = {"pending_validation", "active"}
  DefaultLimit = 1
  MaxLimit = 2
  Absent = Absent
  Pages = {0, 2, 3, 5}
  Limits = {0, 7}
  Word = 3
INVARIANTS
  OnlyDeparturesHide
  OnlyLateArrivalsRepeat
  PagesAddUpToTotal
