------------------------------ MODULE MCNuSched ------------------------------
(* Small instances of NuSched.  The large one has a ring of three graphics   *)
(* tasks on two framebuffers, the first of which is half a frame (it swaps   *)
(* nothing and does not wait for the RDP), and one audio task; the small     *)
(* ones have a ring of two, a whole frame each.                              *)
EXTENDS NuSched

CONSTANTS g1, g2, g3, fbA, fbB

RingOf == [t \in GfxTasks |-> CASE t = g1 -> g2 [] t = g2 -> g3 [] t = g3 -> g1]
RingOfTwo == [t \in GfxTasks |-> IF t = g1 THEN g2 ELSE g1]
FramebufferOf == [t \in GfxTasks |-> IF t = g3 THEN fbB ELSE fbA]
FramebufferOfTwo == [t \in GfxTasks |-> IF t = g1 THEN fbA ELSE fbB]
===============================================================================
