\* pool_size = 4 over the three default process types: 4 permits, 3 agents.
CONSTANTS
  c1 = c1
  c2 = c2
  c3 = c3
  c4 = c4
  Callers <- MCCallers
  PoolSize = 4
  NumTypes = 3
  MaxExec = 0
SYMMETRY MCSymmetry
SPECIFICATION Spec
INVARIANT NoPoolExhausted
