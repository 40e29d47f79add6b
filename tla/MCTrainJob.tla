----------------------------- MODULE MCTrainJob -----------------------------
(* Model-checking instances of TrainJob; the constants are in the .cfg files. *)
EXTENDS TrainJob
=============================================================================
