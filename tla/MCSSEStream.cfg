SPECIFICATION Spec
CONSTANTS
  MaxSentences = 2
  MaxPings = 2
INVARIANT NoTornEvent
