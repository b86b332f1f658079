\* Routes over three domains with two targets and two priorities; five hosts
\* that exercise exact matches, nested wildcards and dot boundaries.
CONSTANTS
  Alphabet <- MCAlphabet
  Patterns <- MCPatterns
  Hosts <- MCHosts
  Targets <- MCTargets
  Priorities = {0, 1}
INIT Init
NEXT Next
INVARIANT NoFalseNoRoute
