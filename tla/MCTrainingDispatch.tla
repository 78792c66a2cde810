------------------------- MODULE MCTrainingDispatch -------------------------
(* Two dispatches of one run.                                                *)
EXTENDS TrainingDispatch

CONSTANTS d1, d2, r1
=============================================================================
