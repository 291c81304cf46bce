--------------------------- MODULE ProcessorParts ---------------------------
(***************************************************************************)
(* DpdfnetProcessor put together with the objects it owns: the tensors of  *)
(* DpdfnetModel, the overlap-add buffer of StreamingStft and two of the    *)
(* rings of DpdfnetRealtimeStorage.  Processor keeps of these only what    *)
(* they are meant to hold (the model's line, the hop handed to synthesis,  *)
(* frame counts, a queue); here each step of Processor also does what the  *)
(* code does to the objects, and the properties say that they hold it.     *)
(*                                                                         *)
(* A frame in input_mono is named by its position since the lanes were     *)
(* reset, so hop h is analysed from the Window frames from Hop * h on.     *)
(***************************************************************************)
EXTENDS Processor, ModelState, Ring, Stft

VARIABLES tensors,  \* the state of model_
          overlap,  \* ola_buffer_ of stft_
          rings     \* input_mono and info_queue of realtime_

parts     == <<tensors, overlap, rings>>
partsVars == <<vars, parts>>

Same == UNCHANGED parts

Blank       == -1
BlankPacket == [frames |-> 0, start |-> 0]

\* Before the first model the rings have no buffer.
PartsInit ==
    /\ Init
    /\ tensors = ReadyTensors
    /\ overlap = EmptyOverlap
    /\ rings = [input |-> NewRing, info |-> NewRing]

\* Slip: the overlap-add buffer keeps the tail of the last hop.
ResetKeepingOverlap ==
    /\ rings' = [input |-> Clear(rings.input), info |-> Clear(rings.info)]
    /\ tensors' = ResetTensors(tensors)
    /\ UNCHANGED overlap

\* reset_audio_state.
ResetParts ==
    /\ rings' = [input |-> Clear(rings.input), info |-> Clear(rings.info)]
    /\ tensors' = ResetTensors(tensors)
    /\ overlap' = EmptyOverlap

\* capacity_failure_result resets the lanes on the first failure of a row.
CapacityParts == IF gate.recovering THEN Same ELSE ResetParts

\* The bundle that prepare_dpdfnet_model has made comes with its own rings.
ActivateParts ==
    /\ rings' = [input |-> Reserve(NewRing, InCap, Blank),
                 info  |-> Reserve(NewRing, InfoCap, BlankPacket)]
    /\ tensors' = ReadyTensors
    /\ overlap' = EmptyOverlap

\* process_packet and push_input.
TakeInputParts ==
    /\ LET next    == Hop * spectrum.hops + lanes.input
           arrived == lanes'.input - lanes.input
       IN  rings' = [input |-> TryPush(rings.input,
                                       [i \in 1 .. arrived |-> next + i - 1]),
                     info  |-> TryPush(rings.info,
                                       <<[frames |-> call.frames,
                                          start |-> lanes.taken]>>)]
    /\ UNCHANGED <<tensors, overlap>>

\* One hop: analysis of the window in front, the model, synthesis, pop.
HopParts ==
    /\ tensors' = IF ModelRuns(spectrum, Paused, audible)
                  THEN Enhanced(tensors, Peek(rings.input, Window)[1] \div Hop)
                  ELSE tensors
    /\ overlap' = IF Discarded(spectrum) THEN overlap
                  ELSE Synthesis(overlap, spectrum.emitted)
    /\ rings' = [rings EXCEPT !.input = Pop(rings.input, Hop)]

\* pop_output_packet retires the packet in front when it is used up.
DrainParts ==
    /\ rings' = IF lanes.offset + Share(lanes, call.missing)
                     = Front(rings.info).frames
                THEN [rings EXCEPT !.info = Pop(rings.info, 1)]
                ELSE rings
    /\ UNCHANGED <<tensors, overlap>>

\* A run that throws leaves its output state written and the flags alone;
\* failure_result resets the model.
InferenceFailsParts ==
    /\ rings' = [input |-> Clear(rings.input), info |-> Clear(rings.info)]
    /\ tensors' = ResetTensors(EnhanceThrew(tensors))
    /\ overlap' = EmptyOverlap

\* resume_after_overload restarts a model that has stopped.
ResumeParts ==
    /\ tensors' = IF spectrum.depth = 0 THEN ResetTensors(tensors) ELSE tensors
    /\ UNCHANGED <<overlap, rings>>

\* replace_resamplers does nothing more when there is no pair before or after.
ReplaceResamplersParts(pair) ==
    IF resampler.pair = NoRate /\ pair = NoPair THEN Same ELSE ResetParts

PartsArrive ==
    \/ PassUntouched /\ Same
    \/ \E frames \in Frames :
          \/ RejectOversized(frames) /\ CapacityParts
          \/ PassRateMismatch(frames) /\ Same
          \/ AcceptTimestamp(frames) /\ Same
          \/ JumpNative(frames) /\ ResetParts
          \/ JumpResampled(frames) /\ ResetParts

PartsContinue ==
    \/ RejectCapacity /\ CapacityParts
    \/ InputResamplerFails /\ ResetParts
    \/ TakeInput /\ TakeInputParts
    \/ DiscardHop /\ HopParts
    \/ EmitHop /\ HopParts
    \/ InferenceFails /\ InferenceFailsParts
    \/ OutputResamplerFails /\ ResetParts
    \/ ReturnPending /\ Same
    \/ StartDrain /\ Same
    \/ DrainInfo /\ DrainParts
    \/ EmitPacket /\ Same

PartsOthers ==
    \/ DisableForRealtimeOverload /\ Same
    \/ ResumeAfterOverload /\ ResumeParts
    \/ ResetState /\ ResetParts
    \/ EndStream /\ ResetParts
    \/ SetControls /\ Same
    \/ \E rate \in Rates : SetFormat(rate) /\ ResetParts
    \/ ReplaceResamplers(NoPair) /\ ReplaceResamplersParts(NoPair)
    \/ \E rate \in Rates \ {ModelRate} : \E pair \in FreshPairs(rate) :
          ReplaceResamplers(pair) /\ ReplaceResamplersParts(pair)
    \/ ReleaseInvalidResamplers /\ Same
    \/ ActivateModel(NoPair) /\ ActivateParts
    \/ \E pair \in FreshPairs(resampler.rate) :
          ActivateModel(pair) /\ ActivateParts

PartsNext == PartsArrive \/ PartsContinue \/ PartsOthers

PartsSpec == PartsInit /\ [][PartsNext]_partsVars

\* The audio thread finishes the call it has started.
PartsFairSpec == PartsSpec /\ WF_partsVars(PartsContinue)
-----------------------------------------------------------------------------
(***************************************************************************)
(* Properties.                                                             *)
(***************************************************************************)

\* The network's next run reads the state of exactly the hops it has run on
\* since it was last reset, oldest first, whichever of the three bindings
\* that is: through warm-up, pauses, retries, failed runs and resets no run
\* reads a tensor of an earlier stream or misses one of its own.
TensorsCarryLine == StateRead(tensors) = spectrum.line

\* What the rings hold, from the front, is what the lanes say is waiting:
\* the frames that follow the last hop, without gap or repetition, and the
\* packet infos in the order they came, also across the end of the buffer.
InputFrames == [i \in 1 .. lanes.input |-> Hop * spectrum.hops + i - 1]

RingsCarryLanes ==
    /\ Peek(rings.input, rings.input.count) = InputFrames
    /\ Contents(rings.info) = lanes.info
    /\ lanes.info # <<>> => Front(rings.info) = lanes.info[1]

\* A hop that goes out is the sum of exactly two neighbouring frames (the
\* first of a stream has only its own), whatever was discarded, bypassed or
\* reset before: no audio of an earlier stream rings into a new one.
OverlapComplete ==
    voice # NoVoice =>
        overlap.front = {voice.index} \cup {i \in {voice.index - 1} : i >= 0}
=============================================================================
