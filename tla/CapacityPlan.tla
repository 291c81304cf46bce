---------------------------- MODULE CapacityPlan ----------------------------
(***************************************************************************)
(* plan_dpdfnet_realtime_capacity (src/src/dpdfnet-processor.cpp): how     *)
(* large the rings of a model are made before it is known at which rate    *)
(* OBS will run, and what buffers_can_accept asks of them at one rate.     *)
(* Lanes counts frames at one rate; here native and model rates differ.    *)
(***************************************************************************)
EXTENDS Lanes

CONSTANTS MinRate,     \* MIN_SUPPORTED_SAMPLE_RATE
          MaxRate,     \* MAX_SUPPORTED_SAMPLE_RATE
          MaxWindow,   \* MAX_SUPPORTED_NFFT
          MaxPrefill,  \* MAX_RESAMPLER_PREFILL_FRAMES
          LeastPlan    \* the capacities of a plan that knows nothing

ASSUME PlanAssumption ==
    /\ MinRate \in Nat \ {0} /\ MaxRate \in Nat /\ MinRate < MaxRate
    /\ MaxWindow \in Nat /\ MaxPrefill \in Nat
    /\ LeastPlan \in [input : Nat, output : Nat, dry : Nat, infos : Nat]

ScaleCeil(frames, num, den) == (frames * num + den - 1) \div den

\* Slip: a resampler delivers no more than the ratio of the rates says.
ModelFramesWithoutSlack(frames, native, model) ==
    IF native = model THEN frames ELSE ScaleCeil(frames, model, native)

\* to_model_frames and to_native_frames, without resamplers the identity
ModelFrames(frames, native, model) ==
    IF native = model THEN frames ELSE ScaleCeil(frames, model, native) + Slack
NativeFrames(frames, native, model) ==
    IF native = model THEN frames ELSE ScaleCeil(frames, native, model) + Slack

\* Slip: input that waits for a whole window is not counted.
InputSamplesOfOnePacket(native, model, window) ==
    ModelFrames(MaxPacket, native, model)

InputSamples(native, model, window) ==
    window + ModelFrames(MaxPacket, native, model)
OutputSamples(native, model, window) ==
    MaxPacket + NativeFrames(InputSamples(native, model, window), native, model)
DrySamples(native, model, window, delay) ==
    MaxPrefill + MaxPacket + OutputSamples(native, model, window)
      + ScaleCeil(delay, native, model)

Longer(a, b) == IF a < b THEN b ELSE a

\* include_capacity_for_rate
Include(plan, native, model, window, delay) ==
    LET dry == DrySamples(native, model, window, delay)
    IN  [input  |-> Longer(plan.input, InputSamples(native, model, window)),
         output |-> Longer(plan.output, OutputSamples(native, model, window)),
         dry    |-> Longer(plan.dry, dry),
         infos  |-> Longer(plan.infos, dry)]

Supported(model, window) ==
    model \in MinRate .. MaxRate /\ window \in 1 .. MaxWindow

Plan(model, window, delay) ==
    IF ~Supported(model, window) THEN LeastPlan
    ELSE Include(Include(Include(LeastPlan, MinRate, model, window, delay),
                         model, model, window, delay),
                 MaxRate, model, window, delay)

\* buffers_can_accept, at any pair of rates: q is how much each ring holds.
Accepts(plan, q, frames, native, model) ==
    LET arriving == q.input + ModelFrames(frames, native, model)
    IN  /\ q.infos + 1 <= plan.infos
        /\ arriving <= plan.input
        /\ q.output + NativeFrames(arriving, native, model) <= plan.output
        /\ q.dry + frames <= plan.dry

(***************************************************************************)
(* What waits in the rings of a stream between two calls.  All hops have   *)
(* been processed.  In time, what waits in input and output is no more     *)
(* than a window and what the resamplers may run ahead, `spare' native     *)
(* frames; the dry lane also has the zero prefill and what the model       *)
(* delays.  A packet info stands for at least one frame of the dry lane.   *)
(***************************************************************************)
Waiting(q, native, model, window, delay, spare) ==
    /\ q.input < window
    /\ q.output * model + q.input * native <= window * native + spare * model
    /\ q.dry * model <= (MaxPrefill + q.output + spare) * model
                          + (q.input + delay) * native
    /\ q.infos <= q.dry

\* Just above the lowest rate, the slack of a model at that rate is missing.
Covers(native, model) ==
    \/ native = model \/ model > MinRate
    \/ MaxPacket * model <= (MaxPacket - Slack) * native

\* The largest spare for which the room for one packet more is enough.
Spare(spare) ==
    /\ spare + 2 * Slack + 2 <= MaxPacket
    /\ (spare + 1) * MinRate + MaxRate <= MaxPacket * MinRate
=============================================================================
