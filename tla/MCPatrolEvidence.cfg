CONSTANTS
  Events = {"deep", "long", "even", "big", "bad"}
  Characters <- SomeCharacters
  Nodes <- SomeNodes
  MaxEvents = 2
  MaxCharacters = 6
  MaxNodes = 6
  Invalid = {"bad"}
  Threads = {t1, t2}
  Protocols = {"sound", "faulty"}
  Faulty = {"faulty"}
  MaxErrors = 1
  MaxRegistered = 2
SPECIFICATION Spec
SYMMETRY AnyThread
INVARIANT SubscribedOnce
INVARIANT SumsAreTrue
PROPERTY EvidenceKept
CHECK_DEADLOCK FALSE
