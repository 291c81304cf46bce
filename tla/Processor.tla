----------------------------- MODULE Processor -----------------------------
(***************************************************************************)
(* DpdfnetProcessor (src/src/dpdfnet-processor.cpp): the object that takes *)
(* audio packets in and puts processed packets out, behind the filter's    *)
(* audio mutex.                                                            *)
(*                                                                         *)
(* process() is stepped: a packet arrives and is checked (Arrive...),      *)
(* admitted (TakeInput), turned into hops (RunHop), and an output packet   *)
(* is assembled (DrainInfo, EmitPacket).  The other methods run between    *)
(* calls, because every caller holds the audio mutex.  Which of them the   *)
(* filter may call at which moment is stated at each action.               *)
(***************************************************************************)
EXTENDS Suppression, Lanes

CONSTANTS Rates,         \* OBS sample rates
          ModelRate,     \* the model's sample rate
          NoRate,        \* native_rate_ of an empty DpdfnetResamplers
          Holdback,      \* most frames one resampler holds back
          PeakDelay,     \* position of the probe's impulse peak
          Frames,        \* packet sizes OBS delivers
          Disturbances,  \* what else may happen: a subset of AllDisturbances
          MaxTaken       \* bound: frames accepted between two resets

AllDisturbances ==
    {"jump", "input resampler fails", "output resampler fails",
     "inference fails", "overload", "reset", "boundary", "controls",
     "format", "resamplers", "model"}

MaxFailures == 3    \* MAX_CONSECUTIVE_FAILURES

ASSUME ProcessorAssumption ==
    /\ Rates \subseteq Nat /\ ModelRate \in Nat
    /\ NoRate \in Nat /\ NoRate \notin Rates /\ NoRate # ModelRate
    /\ Holdback \in Nat /\ PeakDelay \in Nat
    /\ Frames \subseteq Nat \ {0} /\ MaxTaken \in Nat
    /\ Disturbances \subseteq AllDisturbances

VARIABLES lanes,      \* realtime_ and output_packet_offset_
          spectrum,   \* history, model line, warm-up, bridge, depth
          resampler,  \* sample_rate_, resamplers_ and the flags about them
          gate,       \* what stops or reports processing
          loaded,     \* model_ is set
          audible,    \* bypass, mix and limit let the enhancement be heard
          haveTs,     \* have_timestamp_
          call,       \* where the process() call in progress is
          result,     \* what the last process() call returned
          voice       \* the last hop handed to synthesis

audio == <<lanes, spectrum, resampler, haveTs, voice>>
vars  == <<lanes, spectrum, resampler, gate, loaded, audible, haveTs, call,
           result, voice>>

Pcs          == {"idle", "admit", "hops", "drain"}
Reasons      == {"None", "RepeatedProcessingFailures", "RealtimeOverload"}
Dispositions == {"NoCall", "Passthrough", "Pending", "Processed"}
Events == {"None", "RateMismatch", "ResamplerRefreshNeeded",
           "ProcessingFailure", "CircuitOpened", "OversizedPacket",
           "CapacityInvariantFailure", "TimestampDiscontinuity"}

ResamplerType == [rate : Rates, valid : BOOLEAN, path : BOOLEAN,
                  pair : Rates \cup {NoRate},
                  inHeld : Nat, outHeld : Nat,
                  inPrimed : Nat, outPrimed : Nat]

GateType == [reason : Reasons, failures : 0 .. MaxFailures,
             reported : BOOLEAN, recovering : BOOLEAN, oversized : BOOLEAN,
             capacity : BOOLEAN, jumps : BOOLEAN, jumpPending : BOOLEAN,
             rateWarned : BOOLEAN]

CallType == [pc : Pcs, frames : Nat, hops : Nat, missing : Nat,
             start : Nat, popped : Nat]

ResultType == [disposition : Dispositions, event : Events,
               refresh : BOOLEAN, hops : Nat, frames : Nat, start : Int]

NoCall   == [pc |-> "idle", frames |-> 0, hops |-> 0, missing |-> 0,
             start |-> 0, popped |-> 0]
NoResult == [disposition |-> "NoCall", event |-> "None", refresh |-> FALSE,
             hops |-> 0, frames |-> 0, start |-> 0]
NoVoice  == [index |-> -1, sources |-> {}, level |-> 0, audible |-> FALSE]

\* The counters of oversized packets, capacity failures and jumps only
\* matter as zero or not zero.
FreshGate == [reason |-> "None", failures |-> 0, reported |-> FALSE,
              recovering |-> FALSE, oversized |-> FALSE, capacity |-> FALSE,
              jumps |-> FALSE, jumpPending |-> FALSE, rateWarned |-> FALSE]

Idle   == call.pc = "idle"
Paused == gate.reason # "None"

(***************************************************************************)
(* Resamplers.  A pair comes out of probe_resampler_pair primed: it holds  *)
(* some of the probe's trailing zeros, and the dry lane is prefilled with  *)
(* the delay the probe measured, that holdback plus the impulse's peak.    *)
(***************************************************************************)
NoPair == [pair |-> NoRate, inHeld |-> 0, outHeld |-> 0,
           inPrimed |-> 0, outPrimed |-> 0]

FreshPairs(rate) ==
    {[pair |-> rate, inHeld |-> i, outHeld |-> o,
      inPrimed |-> i, outPrimed |-> o] : i \in 0 .. Holdback,
                                         o \in 0 .. Holdback}

PathOf(r, isLoaded) ==
    isLoaded /\ r.valid /\ r.pair # NoRate /\ r.pair = r.rate

\* recompute_path and recompute_latency
Recomputed(r, isLoaded) == [r EXCEPT !.path = PathOf(r, isLoaded)]

WithPair(r, p) ==
    [rate |-> r.rate, valid |-> TRUE, path |-> r.path, pair |-> p.pair,
     inHeld |-> p.inHeld, outHeld |-> p.outHeld,
     inPrimed |-> p.inPrimed, outPrimed |-> p.outPrimed]

ProbeDelay(r) == r.inPrimed + r.outPrimed + PeakDelay

\* Zeros in front of the dry lane, and output_latency_ns_: the same delay.
Prefill(r) == IF r.path THEN ProbeDelay(r) ELSE 0
Latency(r) == IF r.path THEN ProbeDelay(r) ELSE 0

\* How many of the frames a resampler has come out, when it holds `held' and
\* is fed `frames'.
Deliveries(held, frames) ==
    Greatest(0, held + frames - Holdback) .. held + frames

RateMismatch == resampler.rate # ModelRate /\ ~resampler.path

(***************************************************************************)
(* reset_audio_state, with the resamplers as the caller has just set them. *)
(***************************************************************************)
StartDepth(reason) == IF reason = "RealtimeOverload" THEN 0 ELSE FullDepth

\* Slip: the cached path is not recomputed.
ResetAudioStalePath(r, reason, isLoaded) ==
    /\ resampler' = r
    /\ lanes'     = EmptyLanes(Prefill(r))
    /\ spectrum'  = FreshSpectrum(StartDepth(reason))
    /\ voice'     = NoVoice

ResetAudio(r, reason, isLoaded) ==
    LET now == Recomputed(r, isLoaded)
    IN  /\ resampler' = now
        /\ lanes'     = EmptyLanes(Prefill(now))
        /\ spectrum'  = FreshSpectrum(StartDepth(reason))
        /\ voice'     = NoVoice

(***************************************************************************)
(* The end of process(): a pending jump is reported on the first result    *)
(* that carries no other event.                                            *)
(***************************************************************************)
JumpReport(g, event) == g.jumpPending /\ event = "None"

\* Slip: a pending jump is dropped when another event is reported.
ReturnForgettingJump(g, disposition, event, refresh, hops, frames, start) ==
    /\ gate'   = [g EXCEPT !.jumpPending = FALSE]
    /\ result' = [disposition |-> disposition,
                  event       |-> IF JumpReport(g, event)
                                  THEN "TimestampDiscontinuity" ELSE event,
                  refresh |-> refresh, hops |-> hops, frames |-> frames,
                  start |-> start]
    /\ call'   = NoCall

Return(g, disposition, event, refresh, hops, frames, start) ==
    /\ gate'   = [g EXCEPT !.jumpPending =
                              g.jumpPending /\ ~JumpReport(g, event)]
    /\ result' = [disposition |-> disposition,
                  event       |-> IF JumpReport(g, event)
                                  THEN "TimestampDiscontinuity" ELSE event,
                  refresh |-> refresh, hops |-> hops, frames |-> frames,
                  start |-> start]
    /\ call'   = NoCall

PassThrough(g, event, refresh, hops) ==
    Return(g, "Passthrough", event, refresh, hops, 0, 0)

\* The pair has to be replaced before it is used again.
Invalidated(stale) ==
    [resampler EXCEPT !.valid = resampler.valid /\ ~stale]

\* failure_result
FailureResult(hops) ==
    LET failures == gate.failures + 1
        opened   == failures >= MaxFailures
        reason   == IF opened THEN "RepeatedProcessingFailures"
                    ELSE gate.reason
        fresh    == resampler.path
    IN  /\ ResetAudio(Invalidated(fresh), reason, loaded)
        /\ haveTs' = FALSE
        /\ PassThrough([gate EXCEPT !.failures = failures, !.reported = TRUE,
                                    !.reason = reason],
                       IF opened THEN "CircuitOpened"
                       ELSE IF gate.reported THEN "None"
                       ELSE "ProcessingFailure",
                       fresh /\ ~opened, hops)
        /\ UNCHANGED <<loaded, audible>>

\* Slip: the lanes keep what they hold when a packet is turned away.
CapacityFailureWithoutReset(oversized) ==
    /\ PassThrough([gate EXCEPT !.recovering = TRUE,
                                !.oversized  = gate.oversized \/ oversized,
                                !.capacity   = gate.capacity \/ ~oversized],
                   "None", FALSE, 0)
    /\ UNCHANGED <<audio, loaded, audible>>

\* capacity_failure_result: only the first failure in a row resets the lanes.
CapacityFailure(oversized) ==
    LET fresh == ~gate.recovering /\ resampler.path
        seen  == IF oversized THEN gate.oversized ELSE gate.capacity
    IN  /\ IF gate.recovering THEN UNCHANGED audio
           ELSE /\ ResetAudio(Invalidated(fresh), gate.reason, loaded)
                /\ haveTs' = FALSE
        /\ PassThrough([gate EXCEPT !.recovering = TRUE,
                                    !.oversized  = gate.oversized \/ oversized,
                                    !.capacity   = gate.capacity \/ ~oversized,
                                    !.rateWarned = gate.rateWarned \/ fresh],
                       IF seen THEN "None"
                       ELSE IF oversized THEN "OversizedPacket"
                       ELSE "CapacityInvariantFailure",
                       fresh, 0)
        /\ UNCHANGED <<loaded, audible>>

(***************************************************************************)
(* process_packet up to the admission check.                               *)
(***************************************************************************)
Stopped == ~loaded \/ gate.reason = "RepeatedProcessingFailures"

PassUntouched ==
    /\ Idle /\ Stopped
    /\ PassThrough(gate, "None", FALSE, 0)
    /\ UNCHANGED <<audio, loaded, audible>>

RejectOversized(frames) ==
    /\ Idle /\ ~Stopped /\ frames > MaxPacket
    /\ CapacityFailure(TRUE)

PassRateMismatch(frames) ==
    /\ Idle /\ ~Stopped /\ frames <= MaxPacket /\ RateMismatch
    /\ PassThrough([gate EXCEPT !.rateWarned = TRUE],
                   IF gate.rateWarned THEN "None" ELSE "RateMismatch",
                   FALSE, 0)
    /\ UNCHANGED <<audio, loaded, audible>>

Admissible(frames) ==
    Idle /\ ~Stopped /\ frames <= MaxPacket /\ ~RateMismatch

Admit(frames) == call' = [NoCall EXCEPT !.pc = "admit", !.frames = frames]

\* The timestamp continues the stream.  MaxTaken bounds the run.
AcceptTimestamp(frames) ==
    /\ Admissible(frames) /\ lanes.taken + frames <= MaxTaken
    /\ haveTs' = TRUE
    /\ Admit(frames)
    /\ result' = NoResult
    /\ UNCHANGED <<lanes, spectrum, resampler, voice, gate, loaded, audible>>

Jumps == "jump" \in Disturbances /\ haveTs

\* A jump on the native path drops what is buffered and goes on with the
\* packet in the same call.
JumpNative(frames) ==
    /\ Admissible(frames) /\ Jumps /\ ~resampler.path
    /\ gate' = [gate EXCEPT !.jumps = TRUE,
                            !.jumpPending = gate.jumpPending \/ ~gate.jumps]
    /\ ResetAudio(resampler, gate.reason, loaded)
    /\ haveTs' = TRUE
    /\ Admit(frames)
    /\ result' = NoResult
    /\ UNCHANGED <<loaded, audible>>

\* A jump on the resampled path gives up the pair with the buffered audio.
JumpResampled(frames) ==
    /\ Admissible(frames) /\ Jumps /\ resampler.path
    /\ ResetAudio(Invalidated(TRUE), gate.reason, loaded)
    /\ haveTs' = FALSE
    /\ PassThrough([gate EXCEPT !.jumps = TRUE, !.jumpPending = FALSE,
                                !.rateWarned = TRUE],
                   "ResamplerRefreshNeeded", TRUE, 0)
    /\ UNCHANGED <<loaded, audible>>

(***************************************************************************)
(* Admission and push_input.                                               *)
(***************************************************************************)
Admitting == call.pc = "admit"

RejectCapacity ==
    /\ Admitting /\ ~CanAccept(lanes, call.frames, resampler.path)
    /\ CapacityFailure(FALSE)

InputResamplerFails ==
    /\ "input resampler fails" \in Disturbances
    /\ Admitting /\ CanAccept(lanes, call.frames, resampler.path)
    /\ resampler.path
    /\ FailureResult(0)

FedInput(r, frames, arrived) ==
    [r EXCEPT !.inHeld = r.inHeld + frames - arrived]

TakeInput ==
    /\ Admitting /\ CanAccept(lanes, call.frames, resampler.path)
    /\ \E arrived \in IF resampler.path
                      THEN Deliveries(resampler.inHeld, call.frames)
                      ELSE {call.frames} :
         /\ lanes'     = Pushed(lanes, call.frames, arrived)
         /\ resampler' = FedInput(resampler, call.frames, arrived)
    /\ gate' = [gate EXCEPT !.recovering = FALSE]
    /\ call' = [call EXCEPT !.pc = "hops"]
    /\ UNCHANGED <<spectrum, voice, haveTs, loaded, audible, result>>

(***************************************************************************)
(* process_available_hops.  The rings were admitted for all that a hop can *)
(* deliver (RingsHold), so its own try_push never fails.                   *)
(***************************************************************************)
Hopping == call.pc = "hops" /\ HopReady(lanes)

FedOutput(r, synthesised) ==
    [r EXCEPT !.outHeld = r.outHeld + Hop - synthesised]

DiscardHop ==
    /\ Hopping /\ Discarded(spectrum)
    /\ spectrum' = HopAfter(spectrum, Paused, audible)
    /\ lanes'    = Hopped(lanes, 0)
    /\ call'     = [call EXCEPT !.hops = call.hops + 1]
    /\ UNCHANGED <<resampler, voice, haveTs, gate, loaded, audible, result>>

EmitHop ==
    /\ Hopping /\ ~Discarded(spectrum)
    /\ spectrum' = HopAfter(spectrum, Paused, audible)
    /\ voice'    = Emission(spectrum, Paused, audible)
    /\ \E synthesised \in IF resampler.path
                          THEN Deliveries(resampler.outHeld, Hop)
                          ELSE {Hop} :
         /\ lanes'     = Hopped(lanes, synthesised)
         /\ resampler' = FedOutput(resampler, synthesised)
    /\ call' = [call EXCEPT !.hops = call.hops + 1]
    /\ UNCHANGED <<haveTs, gate, loaded, audible, result>>

InferenceFails ==
    /\ "inference fails" \in Disturbances
    /\ Hopping /\ ModelRuns(spectrum, Paused, audible)
    /\ FailureResult(call.hops)

OutputResamplerFails ==
    /\ "output resampler fails" \in Disturbances
    /\ Hopping /\ resampler.path /\ ~Discarded(spectrum)
    /\ FailureResult(call.hops)

(***************************************************************************)
(* pop_output_packet.                                                      *)
(***************************************************************************)
HopsDone == call.pc = "hops" /\ ~HopReady(lanes)

\* Slip: a success forgets the row of failures but not that one was reported.
AfterHopsStillReported ==
    IF call.hops > 0 THEN [gate EXCEPT !.failures = 0] ELSE gate

\* A hop that went through ends a row of failures.
AfterHops ==
    IF call.hops > 0 THEN [gate EXCEPT !.failures = 0, !.reported = FALSE]
    ELSE gate

ReturnPending ==
    /\ HopsDone /\ NothingToPop(lanes)
    /\ Return(AfterHops, "Pending", "None", FALSE, call.hops, 0, 0)
    /\ UNCHANGED <<audio, loaded, audible>>

StartDrain ==
    /\ HopsDone /\ ~NothingToPop(lanes)
    /\ gate' = AfterHops
    /\ call' = [call EXCEPT !.pc = "drain", !.missing = Available(lanes),
                            !.start = OutputStart(lanes), !.popped = 0]
    /\ UNCHANGED <<audio, loaded, audible, result>>

MoreToDrain == call.missing > 0 /\ lanes.info # <<>>

DrainInfo ==
    /\ call.pc = "drain" /\ MoreToDrain
    /\ lanes' = Drained(lanes, call.missing)
    /\ LET share == Share(lanes, call.missing)
       IN  call' = [call EXCEPT !.missing = call.missing - share,
                                !.popped  = call.popped + share]
    /\ UNCHANGED <<spectrum, resampler, haveTs, voice, gate, loaded, audible,
                   result>>

EmitPacket ==
    /\ call.pc = "drain" /\ ~MoreToDrain
    /\ lanes' = Popped(lanes, call.popped)
    /\ Return(gate, "Processed", "None", FALSE, call.hops, call.popped,
              call.start - Latency(resampler))
    /\ UNCHANGED <<spectrum, resampler, haveTs, voice, loaded, audible>>

(***************************************************************************)
(* The other methods.  result is what the filter holds while it still owns *)
(* the audio mutex of a process() call, so each of them clears it.         *)
(***************************************************************************)
Between(disturbance) ==
    Idle /\ disturbance \in Disturbances /\ result' = NoResult

\* The filter trips its guard right after a call that processed hops
\* (filter_audio observes nothing else), before it lets go of the mutex.
DisableForRealtimeOverload ==
    /\ Between("overload")
    /\ result.disposition \in {"Pending", "Processed"} /\ result.hops > 0
    /\ gate.reason = "None"
    /\ gate' = [gate EXCEPT !.reason = "RealtimeOverload", !.failures = 0,
                            !.reported = FALSE]
    /\ UNCHANGED <<audio, loaded, audible, call>>

ResumeAfterOverload ==
    /\ Between("overload")
    /\ gate.reason = "RealtimeOverload"
    /\ gate' = [gate EXCEPT !.reason = "None", !.failures = 0,
                            !.reported = FALSE]
    /\ spectrum' = Resumed(spectrum)
    /\ UNCHANGED <<lanes, resampler, haveTs, voice, loaded, audible, call>>

\* Whoever ends a stream installs a fresh pair first, under the same lock
\* (update, reset_state and reset_stream_boundary of the filter): a pair in
\* use has not been fed when the lanes are reset under it.
PairUnfed == resampler.path => lanes.taken = 0

ResetState ==
    /\ Between("reset") /\ PairUnfed
    /\ gate' = [FreshGate EXCEPT !.rateWarned = gate.rateWarned]
    /\ ResetAudio(resampler, "None", loaded)
    /\ haveTs' = FALSE
    /\ UNCHANGED <<loaded, audible, call>>

\* reset_stream, and set_controls when the input channel changes.
EndStream ==
    /\ Between("boundary") /\ PairUnfed
    /\ ResetAudio(resampler, gate.reason, loaded)
    /\ haveTs' = FALSE
    /\ UNCHANGED <<gate, loaded, audible, call>>

\* set_controls: bypass, mix and limit decide whether the model is heard.
SetControls ==
    /\ Between("controls")
    /\ audible' = ~audible
    /\ UNCHANGED <<audio, gate, loaded, call>>

\* Slip: a new format keeps the audio of the old one.
SetFormatKeepingLanes(rate) ==
    /\ Between("format")
    /\ LET stale == loaded /\ (rate # ModelRate \/ resampler.pair # NoRate)
       IN  resampler' = Recomputed([resampler EXCEPT
                          !.rate = rate, !.valid = resampler.valid /\ ~stale],
                                   loaded)
    /\ gate' = [gate EXCEPT !.rateWarned = FALSE]
    /\ haveTs' = FALSE
    /\ UNCHANGED <<lanes, spectrum, voice, loaded, audible, call>>

\* set_format, for a new rate or for a new channel count at the same rate.
SetFormat(rate) ==
    /\ Between("format")
    /\ LET stale == loaded /\ (rate # ModelRate \/ resampler.pair # NoRate)
       IN  ResetAudio([Invalidated(stale) EXCEPT !.rate = rate], gate.reason,
                      loaded)
    /\ gate' = [gate EXCEPT !.rateWarned = FALSE]
    /\ haveTs' = FALSE
    /\ UNCHANGED <<loaded, audible, call>>

\* Slip: a fresh pair is put under a running stream.
HotSwapResamplers(pair) ==
    /\ Between("resamplers") /\ loaded
    /\ resampler' = Recomputed(WithPair(resampler, pair), loaded)
    /\ gate' = [gate EXCEPT !.rateWarned = FALSE]
    /\ haveTs' = FALSE
    /\ UNCHANGED <<lanes, spectrum, voice, loaded, audible, call>>

\* replace_resamplers.  The filter prepares a pair outside the audio mutex,
\* so it may be for a rate that has changed since; without one, preparation
\* failed or the native rate needs none.
ReplaceResamplers(pair) ==
    /\ Between("resamplers") /\ loaded
    /\ IF resampler.pair = NoRate /\ pair = NoPair
       THEN /\ resampler' = [resampler EXCEPT !.valid = TRUE]
            /\ UNCHANGED <<lanes, spectrum, haveTs, voice, gate>>
       ELSE /\ ResetAudio(WithPair(resampler, pair), gate.reason, loaded)
            /\ gate' = [gate EXCEPT !.rateWarned = FALSE]
            /\ haveTs' = FALSE
    /\ UNCHANGED <<loaded, audible, call>>

\* release_invalid_resamplers: the lanes run natively and keep running.
ReleaseInvalidResamplers ==
    /\ Between("resamplers")
    /\ ~resampler.valid /\ resampler.rate = ModelRate
    /\ resampler' = Recomputed(WithPair(resampler, NoPair), loaded)
    /\ gate' = [gate EXCEPT !.rateWarned = FALSE]
    /\ UNCHANGED <<lanes, spectrum, haveTs, voice, loaded, audible, call>>

\* update: replace_model with a bundle prefilled for the pair that
\* replace_resamplers(pair, false) installs next, under one lock.
ActivateModel(pair) ==
    /\ Idle /\ (loaded => "model" \in Disturbances) /\ result' = NoResult
    /\ pair = NoPair <=> resampler.rate = ModelRate
    /\ loaded' = TRUE
    /\ ResetAudio(WithPair(resampler, pair), "None", TRUE)
    /\ gate' = [FreshGate EXCEPT !.rateWarned =
                   gate.rateWarned /\ resampler.pair = NoRate /\ pair = NoPair]
    /\ haveTs' = FALSE
    /\ UNCHANGED <<audible, call>>

(***************************************************************************)
(* update() has called set_format before the first packet, so the          *)
(* processor starts with a format and without a model.                     *)
(***************************************************************************)
Init ==
    /\ lanes = EmptyLanes(0)
    /\ spectrum = FreshSpectrum(FullDepth)
    /\ resampler \in {[rate |-> r, valid |-> TRUE, path |-> FALSE,
                       pair |-> NoRate, inHeld |-> 0, outHeld |-> 0,
                       inPrimed |-> 0, outPrimed |-> 0] : r \in Rates}
    /\ gate = FreshGate
    /\ loaded = FALSE /\ audible = TRUE /\ haveTs = FALSE
    /\ call = NoCall /\ result = NoResult /\ voice = NoVoice

Arrive ==
    \/ PassUntouched
    \/ \E frames \in Frames :
          \/ RejectOversized(frames)
          \/ PassRateMismatch(frames)
          \/ AcceptTimestamp(frames)
          \/ JumpNative(frames)
          \/ JumpResampled(frames)

Continue ==
    \/ RejectCapacity \/ InputResamplerFails \/ TakeInput
    \/ DiscardHop \/ EmitHop \/ InferenceFails \/ OutputResamplerFails
    \/ ReturnPending \/ StartDrain \/ DrainInfo \/ EmitPacket

Others ==
    \/ DisableForRealtimeOverload \/ ResumeAfterOverload
    \/ ResetState \/ EndStream \/ SetControls
    \/ \E rate \in Rates : SetFormat(rate)
    \/ ReplaceResamplers(NoPair)
    \/ \E rate \in Rates \ {ModelRate} :
          \E pair \in FreshPairs(rate) : ReplaceResamplers(pair)
    \/ ReleaseInvalidResamplers
    \/ ActivateModel(NoPair)
    \/ \E pair \in FreshPairs(resampler.rate) : ActivateModel(pair)

Next == Arrive \/ Continue \/ Others

Spec == Init /\ [][Next]_vars

\* The audio thread finishes the call it has started.
FairSpec == Spec /\ WF_vars(Continue)
-----------------------------------------------------------------------------
(***************************************************************************)
(* Properties.                                                             *)
(***************************************************************************)

VoiceType == [index : Int, sources : SUBSET Int, level : 0 .. FullDepth,
              audible : BOOLEAN]

TypeOK ==
    /\ lanes \in LanesType
    /\ spectrum \in SpectrumType
    /\ resampler \in ResamplerType
    /\ gate \in GateType
    /\ loaded \in BOOLEAN /\ audible \in BOOLEAN /\ haveTs \in BOOLEAN
    /\ call \in CallType
    /\ result \in ResultType
    /\ voice \in VoiceType

\* Every hop handed to synthesis is made of the audio of that very hop, from
\* the noisy history and from the model alike: never of start-up output, of
\* audio from before a reset, or of a neighbouring hop, whatever pauses,
\* retries and resets came before.  This is what warm-up, bridge and history
\* ring are for in process_available_hops and resume_after_overload.
Aligned == voice # NoVoice => voice.sources = {voice.index}

\* Between two neighbouring hops in which the enhancement can be heard, the
\* suppression never rises by more than one step of a fade-in of fade_in_hops_
\* hops nor falls by more than one step of a fade-out of fade_out_hops_: a
\* pause or a retry, also in the middle of a fade, never clicks.
Fades(before, after) ==
    /\ after.level <= before.level + FadeOut
    /\ before.level <= after.level + FadeIn

SmoothFade ==
    [][/\ voice # NoVoice /\ voice' # NoVoice
       /\ voice.audible /\ voice'.audible
       => Fades(voice, voice')]_vars

\* Frames in flight on each side of the model, counted against the hops: a
\* pair in use adds what it holds beyond the zeros it was primed with.
InFlightIn  == IF resampler.path THEN resampler.inHeld - resampler.inPrimed
               ELSE 0
InFlightOut == IF resampler.path THEN resampler.outHeld - resampler.outPrimed
               ELSE 0

\* No frame is lost or invented: what was taken is in flight, waiting, or was
\* consumed by hops; what hops emitted is in flight, waiting, or was sent;
\* and the dry lane is exactly the resampler delay behind the voice lane, so
\* that dry mix and bypass stay aligned with the enhanced voice.
LanesInSync ==
    /\ lanes.taken = InFlightIn + lanes.input + Hop * spectrum.hops
    /\ Hop * spectrum.emitted = InFlightOut + lanes.output + lanes.sent
    /\ lanes.dry = Prefill(resampler) + lanes.taken - lanes.sent
    /\ spectrum.emitted = Greatest(0, spectrum.hops - Delay)

\* An output packet carries the timestamp its dry audio came in with, across
\* packets merged, split and partly used by pop_output_packet and the latency
\* of the resamplers: the next dry frame is the one its timestamp and length
\* lead up to.
OutputStamped ==
    result.disposition = "Processed" =>
        /\ result.frames > 0
        /\ result.start + result.frames = lanes.taken - lanes.dry

\* A packet that passes through untouched leaves no audio behind that a later
\* call could send after it: streams are never interleaved or reordered.
PassthroughLeavesNothing ==
    result.disposition = "Passthrough" => lanes.taken = 0

\* Between calls at most one window less a frame, the model's delay and what
\* the resamplers hold is waiting: latency does not grow with jittered packet
\* sizes, pauses or retries.
BoundedLatency ==
    Idle => lanes.taken - lanes.sent <
              Window + Delay * Hop
                + (IF resampler.path THEN 2 * Holdback ELSE 0)

\* With the capacities of plan_dpdfnet_realtime_capacity the admission check
\* never turns a packet away: a CapacityInvariantFailure cannot happen.
NoCapacityFailure == ~gate.capacity

\* The capacities include_capacity_for_rate plans, in frames of one rate and
\* with the prefill of the pair in place of the largest one, and what it takes
\* for granted: RESAMPLE_BOUND_SLACK bounds what a resampler holds back.
PlannedInput  == Window + MaxPacket + Slack
PlannedOutput == MaxPacket + PlannedInput + Slack
PlannedDry    == 2 * Holdback + PeakDelay + MaxPacket + PlannedOutput
                   + Delay * Hop

PlannedRings ==
    /\ Holdback <= Slack /\ 2 * Slack <= MaxPacket
    /\ PlannedInput <= InCap /\ PlannedOutput <= OutCap
    /\ PlannedDry <= DryCap /\ PlannedDry <= InfoCap

\* The try_push calls after the admission check never fail.
RingsHold ==
    /\ lanes.input <= InCap /\ lanes.output <= OutCap
    /\ lanes.dry <= DryCap /\ Len(lanes.info) <= InfoCap

\* All that RingsHold needs of the rings: the admission check does the rest.
RoomyRings == Holdback <= Slack /\ 2 * Holdback + PeakDelay <= DryCap

\* The first failure of a row, and the failure that opens the circuit, reach
\* the log as an event, however failures, successes and pauses alternate.
FailuresReported ==
    [][/\ gate'.failures > gate.failures
       /\ gate.failures = 0 \/ gate'.failures = MaxFailures
       => result'.event \in {"ProcessingFailure", "CircuitOpened"}]_vars

\* A jump that is pending is reported by some later result, unless a reset or
\* a new model clears the count of jumps with it.
JumpsReported ==
    [][/\ gate.jumpPending /\ ~gate'.jumpPending
       => \/ ~gate'.jumps
          \/ result'.event \in {"TimestampDiscontinuity",
                                "ResamplerRefreshNeeded"}]_vars

\* The cached resample_path_ is what its inputs say, after every operation
\* that changes one of them.
PathIsCurrent == resampler.path = PathOf(resampler, loaded)

\* process() comes back: neither the hop loop nor the packet loop spins.
CallReturns == ~Idle ~> Idle
-----------------------------------------------------------------------------
(***************************************************************************)
(* The inductive invariant behind the properties, part by part.            *)
(***************************************************************************)

\* The packet info in front has frames left.
FrontOpen(l) ==
    /\ l.info = <<>> => l.offset = 0
    /\ l.info # <<>> => l.offset < l.info[1].frames

\* A call in progress has passed the checks of process_packet, and a pop in
\* progress has as much to take as it set out to take.
CallInv ==
    /\ gate.failures = MaxFailures =>
         gate.reason = "RepeatedProcessingFailures"
    /\ ~Idle => ~Stopped /\ call.frames \in 1 .. MaxPacket
    /\ call.pc = "drain" =>
         /\ call.popped + call.missing = Available(lanes)
         /\ Available(lanes) <= lanes.dry
    /\ FrontOpen(lanes)

\* Where the processor lets audio pass, nothing is buffered.
QuietInv ==
    /\ Stopped \/ RateMismatch \/ gate.recovering => lanes.taken = 0
    /\ ~Idle => ~RateMismatch /\ result.disposition = "NoCall"
    /\ call.pc \in {"hops", "drain"} => lanes.taken > 0
    /\ PassthroughLeavesNothing

\* A pair holds at most Holdback on each side, and as primed until it is fed.
WithinHoldback(r) ==
    /\ r.inHeld <= Holdback /\ r.outHeld <= Holdback
    /\ r.inPrimed <= Holdback /\ r.outPrimed <= Holdback

AsPrimed(r) == r.inHeld = r.inPrimed /\ r.outHeld = r.outPrimed

PairInv ==
    /\ PathIsCurrent
    /\ WithinHoldback(resampler)
    /\ resampler.path /\ lanes.taken = 0 => AsPrimed(resampler)

\* The frames between the two ends of the voice lane.
Held  == IF resampler.path THEN resampler.inHeld + resampler.outHeld ELSE 0
Slop  == IF resampler.path THEN 2 * Holdback ELSE 0
InLane == lanes.input + lanes.output + Held

LoadInv ==
    /\ call.pc # "hops" => lanes.input < Window
    /\ call.pc \in {"idle", "admit"} => InLane < Window + Slop
    /\ call.pc \in {"hops", "drain"} => InLane < Window + Slop + call.frames

\* The packet infos cover, without gap or overlap, what was taken and is not
\* yet sent.
Finish(packet) == packet.start + packet.frames

InfoInv ==
    /\ call.pc # "drain" => call.popped = 0 /\ call.missing = 0
    /\ call.pc = "drain" =>
         /\ call.start = lanes.sent
         /\ call.popped = 0 => call.missing > 0 /\ lanes.info # <<>>
    /\ lanes.info = <<>> => lanes.taken = lanes.sent + call.popped
    /\ lanes.info # <<>> =>
         /\ lanes.info[1].start + lanes.offset = lanes.sent + call.popped
         /\ Finish(lanes.info[Len(lanes.info)]) = lanes.taken
    /\ \A i \in 1 .. Len(lanes.info) :
         /\ Finish(lanes.info[i]) + (Len(lanes.info) - i) <= lanes.taken
         /\ i > 1 => lanes.info[i].start = Finish(lanes.info[i - 1])

SpectrumInv == InStep(spectrum, gate.reason = "RealtimeOverload")

VoiceInv ==
    /\ Aligned
    /\ voice # NoVoice => /\ voice.level = spectrum.depth
                          /\ spectrum.emitted > 0

IInv == /\ TypeOK /\ CallInv /\ QuietInv /\ PairInv /\ LanesInSync
        /\ LoadInv /\ InfoInv /\ SpectrumInv /\ VoiceInv /\ OutputStamped
=============================================================================
