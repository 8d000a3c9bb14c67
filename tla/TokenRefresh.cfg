SPECIFICATION FairSpec
CONSTANTS
  Loops = {l1, l2}
  Handlers = {h1}
  Instances = {{l1, h1}, {l2}}
  NoProc = NoProc
  Ops = {"refresh", "manual", "edit", "authorise"}
  MaxTokens = 2
  MaxFaults = 2
CHECK_DEADLOCK FALSE
INVARIANTS
  IInv
  RefreshersExclude
  RowUsableOrOverwritten
  ErrorIsReal
PROPERTY DueIsRefreshed
