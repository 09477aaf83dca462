SPECIFICATION SandboxSpec
CONSTANTS
  Box1 = Box1
  Box2 = Box2
  Call1 = Call1
  Call2 = Call2
  None = None
  Handles = {Box1, Box2}
  Calls = {Call1, Call2}
  Menu <- MenuMixed
  Busy = {"gone", "stopping"}
  Expired = {"unavailable", "snapshotGone"}
  MaxOthers = 1
  MaxFails = 1
  MaxCuts = 1
CHECK_DEADLOCK FALSE
INVARIANTS RepeatsOnlyLost OneHookPerSession HookBeforeRetry
PROPERTIES SessionsForward CallsEnd
