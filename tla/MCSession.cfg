SPECIFICATION Spec
CONSTANTS
  MaxGroups = 4
  FirstFit = 1
INVARIANTS
  RoleFollowsToken
  NothingLeaked
CHECK_DEADLOCK FALSE
