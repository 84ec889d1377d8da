------------------------------- MODULE UrConfig -------------------------------
(***************************************************************************)
(* The configuration of the loader and its layers, fixed by urLoaderInit.  *)
(***************************************************************************)
EXTENDS Naturals, FiniteSets

CONSTANTS
  Adapters,       \* the adapters the loader has loaded
  EnabledLayers,  \* the names of UR_ENABLE_LAYERS and the loader configuration
  ForceIntercept  \* UR_ENABLE_LOADER_INTERCEPT

Enabled(names) == EnabledLayers \cap names # {}

\* The init functions of the validation and the tracing layer.
enableParameterValidation ==
  Enabled({"UR_LAYER_FULL_VALIDATION", "UR_LAYER_PARAMETER_VALIDATION"})
enableBoundsChecking == Enabled({"UR_LAYER_FULL_VALIDATION", "UR_LAYER_BOUNDS_CHECKING"})
enableLifetimeValidation ==
  Enabled({"UR_LAYER_FULL_VALIDATION", "UR_LAYER_LIFETIME_VALIDATION"})
enableLeakChecking ==
  Enabled({"UR_LAYER_FULL_VALIDATION", "UR_LAYER_LEAK_CHECKING",
           "UR_LAYER_LIFETIME_VALIDATION"})
Validating == enableParameterValidation \/ enableLeakChecking \/ enableLifetimeValidation
Tracing == Enabled({"UR_LAYER_TRACING"})

\* The loader stands between the layers and the adapters.
intercept_enabled == ForceIntercept \/ Cardinality(Adapters) > 1
===============================================================================
