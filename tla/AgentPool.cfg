\* Two agents of one type, three callers contending for them; resets may
\* fail and acquires may be cancelled.
CONSTANTS
  c1 = c1
  c2 = c2
  c3 = c3
  Callers <- MCCallers
  PoolSize = 2
  NumTypes = 1
  MaxExec = 1
SYMMETRY MCSymmetry
SPECIFICATION Spec
INVARIANT TypeOK
INVARIANT PermitAccounting
INVARIANT ExclusiveOwnership
INVARIANT ExhaustedOnlyAfterLoss
PROPERTY ResetBeforeReuse
