SPECIFICATION FilesSpec
CONSTANTS
  Free = free
  NoUser = nouser
  Duration = 1
  Workers = {w1, w2}
  Users = {u1, u2}
  Paths = {p1, p2}
  Slots = 2
  MaxClock = 2
  MaxRequests = 3
  Runners = {1, 2}
  Below <- Names
  DirOf <- Parents
  Settings <- SomeSettings
  Disks <- SomeDisks
  Gets <- SomeGets
  Edits <- SomeEdits
  GzipFrom = 3
  MaxEdits = 1
  MaxGets = 1
  Hidden <- HiddenDef
  Kinds <- KindsDef
  Listings <- ListingsDef
  FirstSize = 1
INVARIANTS
  OneHolder
  AnswersAreTrue
  ContentIsAnnounced
  ListingIsWhole
PROPERTIES
  ChangesAreSafe
  RequestsEnd
CHECK_DEADLOCK FALSE
