---------------------------- MODULE MCSmallRings ----------------------------
(***************************************************************************)
(* Processor with rings smaller than the plan, as a test of the repository *)
(* sets them up: the admission check turns packets away and the processor  *)
(* fails open.                                                             *)
(***************************************************************************)
EXTENDS ProcessorParts

MC_Rates        == {44, 48}
MC_Frames       == {1, 3, 4, 5}
MC_Disturbances == {"jump", "resamplers", "overload", "inference fails",
                    "input resampler fails", "output resampler fails",
                    "reset", "format"}

\* The rings are small but not too small for the prefill.
ASSUME RoomyHere == RoomyRings
=============================================================================
