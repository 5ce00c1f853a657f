SPECIFICATION RelayFairSpec
CONSTANTS
  Last = 3
  MaxBreaks = 2
INVARIANTS OnceInOrder CallersTold
PROPERTIES QueueMoves BrowserGoes
CHECK_DEADLOCK FALSE
