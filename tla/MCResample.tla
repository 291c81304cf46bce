----------------------------- MODULE MCResample -----------------------------
(***************************************************************************)
(* Processor with a stateful resampler pair: jumps, failures, oversized    *)
(* packets and format changes interleave with the filter's operations.     *)
(* The capacity plan, a pure function, is tested before the run begins.    *)
(***************************************************************************)
EXTENDS ProcessorKeepsPromise, CapacityPlan

MC_Rates        == {44, 48}
MC_Frames       == {1, 4, 5}
MC_Disturbances == AllDisturbances \ {"controls"}
MC_Least        == [input |-> 0, output |-> 0, dry |-> 0, infos |-> 0]

\* The rings are as the plan makes them, which is what rules out a
\* CapacityInvariantFailure.
ASSUME PlannedHere == PlannedRings

\* The fullest rings that Waiting allows, with so much waiting in input.
Fullest(input, native, model, window, delay, spare) ==
    LET output == (window * native + spare * model - input * native) \div model
        dry    == ((MaxPrefill + output + spare) * model
                     + (input + delay) * native) \div model
    IN  [input |-> input, output |-> output, dry |-> dry, infos |-> dry]

ASSUME PlanAccepts ==
    \A model \in MinRate .. MaxRate, native \in MinRate .. MaxRate,
       window \in 1 .. MaxWindow, delay \in 0 .. 2, frames \in 1 .. MaxPacket :
      Covers(native, model) =>
        \A input \in 0 .. window - 1 :
          LET q == Fullest(input, native, model, window, delay, 0)
          IN  /\ Spare(0) /\ Waiting(q, native, model, window, delay, 0)
              /\ Accepts(Plan(model, window, delay), q, frames, native, model)
=============================================================================
