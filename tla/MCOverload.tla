----------------------------- MODULE MCOverload -----------------------------
(***************************************************************************)
(* Processor on the native path, where overload pauses, retries, controls, *)
(* resets and runs of the model that throw interleave with the audio.      *)
(***************************************************************************)
EXTENDS ProcessorParts

MC_Rates        == {48}
MC_Frames       == {1, 3, 4}
MC_Disturbances == {"overload", "boundary", "controls", "inference fails"}

\* The theorems on the parts assume no more of the rings.
ASSUME RoomyHere == RoomyRings
=============================================================================
