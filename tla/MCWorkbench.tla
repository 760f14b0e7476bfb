---------------------------- MODULE MCWorkbench -----------------------------
(* Connect, choose and launch, and one click more to get in their way.     *)
EXTENDS Workbench

CONSTANTS scene, tool, other
=============================================================================
