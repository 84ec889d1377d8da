SPECIFICATION Spec
CONSTANTS
  t1 = t1
  t2 = t2
  a1 = a1
  a2 = a2
  x1 = x1
  NULL = NULL
  Threads = {t1, t2}
  Adapters = {a1, a2}
  Driver <- Drivers
  Addresses = {x1}
  Heap <- OneUser
  Apis <- ContextApis
  Failing = {"urContextCreate"}
  EnabledLayers = {"UR_LAYER_FULL_VALIDATION", "UR_LAYER_TRACING"}
  ForceIntercept = FALSE
  Misuse = FALSE
  MaxRefs = 2
  MaxEntries = 2
INVARIANTS
  HandlesDispatch
  CountsExact
  LeakReportExact
  NoFalseAlarm
  TraceMatched
PROPERTY CountsInStep
CHECK_DEADLOCK FALSE
