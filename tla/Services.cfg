SPECIFICATION MCSpec
CONSTANTS
  None = None
  NameOrder <- names
  Regexps = {"~^.*$", "~^cam"}
  Matched <- matched
  Invalid = {"cam/../x"}
  Requested <- requested
  Files <- files
  GlobalPatches <- globalPatches
  DefaultPatches <- defaultPatches
  PathPatches <- pathPatches
  MaxEdits = 2
  Managers <- managers
  UserLists <- userLists
  Inquiries <- inquiries
  Requests = {r1, r2}
  Period = 2
  MaxTime = 2
  MaxKey = 2
  r1 = r1
  HookConfs <- hookConfs
  Hooks = {h1}
  Systems = {"unix", "windows"}
  MaxLaunches = 2
INVARIANTS TypesOK ServicesAreRight
PROPERTIES EditsTakeEffect ServicesEnd
CHECK_DEADLOCK FALSE
