----------------------------- MODULE MCEventPool -----------------------------
(* EventPool for TLC: the instance is all in EventPool.cfg.  Symmetry of the  *)
(* threads would not be sound for its liveness property.                      *)
EXTENDS EventPool
==============================================================================
