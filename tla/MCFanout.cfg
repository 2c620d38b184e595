SPECIFICATION FairSpec
CONSTANTS
  a1 = a1  a2 = a2  a3 = a3  ghost = ghost
  AdapterSet <- MCAdapterSet
  Registered = {a1, a2, a3}
  Stubborn = {a1, a2}
  MaxParallel = 2
  PerAdapterTimeout = 2
  NoDeadline = NoDeadline
  ParentDeadlines <- MCDeadlines
  Replies <- MCReplies
  MaxNow = 4
CHECK_DEADLOCK FALSE
INVARIANTS TypeOK InflightBounded ResultIsTruthful ResultDocsCanonical
PROPERTIES ImplementsPromise Terminates
