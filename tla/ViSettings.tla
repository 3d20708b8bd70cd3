------------------------------- MODULE ViSettings -------------------------------
(***************************************************************************)
(* What the calls of the VI manager promise: one set of settings, which a  *)
(* program changes step by step, and a display that takes them over, as    *)
(* they are, once for each retrace.                                        *)
(***************************************************************************)
CONSTANTS Settings, Fields, Programmed(_, _)
VARIABLES asked, shown

Ask == asked' \in Settings /\ UNCHANGED shown
Show == \E f \in Fields : shown' = Programmed(asked, f) /\ UNCHANGED asked

DisplaySpec == asked \in Settings /\ [][Ask \/ Show]_<<asked, shown>>
================================================================================
