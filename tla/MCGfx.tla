--------------------------------- MODULE MCGfx ---------------------------------
(* The graphics task manager alone, with the fairness of its threads: the    *)
(* manager and the scheduler run when they can, retraces come and are        *)
(* handled, and the application gets the CPU again and again.                *)
EXTENDS GfxTasks

GfxFairSpec ==
  /\ GfxSpec
  /\ WF_gfxVars(SchedStep) /\ WF_gfxVars(Retrace_) /\ WF_gfxVars(\E gate \in BOOLEAN : HandleRetrace(gate))
  /\ SF_gfxVars(AppStep) /\ SF_gfxVars(MgrStep)
================================================================================
