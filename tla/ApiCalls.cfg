SPECIFICATION Spec
CONSTANTS
  t1 = t1
  t2 = t2
  a1 = a1
  a2 = a2
  x1 = x1
  NULL = NULL
  Threads = {t1}
  Adapters = {a1}
  Driver <- NativeDriver
  Addresses = {x1}
  Heap <- OneHeap
  Apis <- AllApis
  Failing <- MayFail
  EnabledLayers = {"UR_LAYER_PARAMETER_VALIDATION", "UR_LAYER_BOUNDS_CHECKING"}
  ForceIntercept = TRUE
  Misuse = TRUE
  MaxRefs = 1
  MaxEntries = 1
INVARIANTS
  TypeOK
  NullSafe
  RightError
  HandlesDispatch
CHECK_DEADLOCK FALSE
