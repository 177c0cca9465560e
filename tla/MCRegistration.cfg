SPECIFICATION Spec
CONSTANTS
  NULL = NULL
  Spellings <- SomeSpellings
  Canonical <- SomeCanonical
  Valid <- SomeValid
  Requests = {r1, r2, r3}
  MaxIds = 3
INVARIANTS TypeOK OneAccountPerAddress TakenIsTaken
PROPERTIES RegisteredCanLogin
