-------------------------- MODULE MCMappingWorkspace --------------------------
(* Small instances of MappingWorkspace: two documents, of which the second  *)
(* cannot keep a layout; MCSampleOf gives them different sample events.     *)
EXTENDS MappingWorkspace, TLC

CONSTANTS d1, d2, e1, e2

MCSampleOf == d1 :> e1 @@ d2 :> e2
==============================================================================
