------------------------------ MODULE TwoRates ------------------------------
(***************************************************************************)
(* The audio lanes of DpdfnetProcessor between two sample rates, in rings  *)
(* made by plan_dpdfnet_realtime_capacity.  Processor counts the frames of *)
(* one rate and has everything that can interrupt a stream; here nothing   *)
(* interrupts it but a restart, and the rates differ.                      *)
(*                                                                         *)
(* Time is counted in ticks, sampleRate * ModelRate of them to a second: a *)
(* native frame lasts ModelRate ticks and a model frame sampleRate ticks.  *)
(***************************************************************************)
EXTENDS CapacityPlan

CONSTANTS ModelRate,  \* DpdfnetModel::sample_rate()
          Rates,      \* OBS sample rates
          Delay,      \* DpdfnetModel::output_delay_hops()
          Jitter,     \* ticks by which what a resampler holds back varies
          Frames,     \* packet sizes OBS delivers
          MaxTaken    \* bound: frames accepted between two restarts

\* RESAMPLE_BOUND_SLACK is chosen to cover the jitter at every rate.
ASSUME TwoRatesAssumption ==
    /\ ModelRate \in MinRate .. MaxRate /\ Window <= MaxWindow
    /\ Rates \subseteq MinRate .. MaxRate
    /\ \A rate \in Rates : Covers(rate, ModelRate)
    /\ Delay \in Nat /\ Jitter \in Nat /\ Jitter <= Slack * MinRate
    /\ Spare(2 * Slack)
    /\ Frames \subseteq 1 .. MaxPacket /\ MaxTaken \in Nat

VARIABLES sampleRate,  \* sample_rate_
          pair,        \* resamplers_: ticks held beyond the least, and lag
          lanes,       \* realtime_ and output_packet_offset_, see Lanes
          warmup,      \* warmup_hops_
          call         \* where the process() call in progress is

vars == <<sampleRate, pair, lanes, warmup, call>>

Idle   == call.pc = "idle"
NoCall == [pc |-> "idle", frames |-> 0, missing |-> 0, popped |-> 0]

\* The rings of the model bundle.  That prefill_dpdfnet_model_bundle makes the
\* dry ring longer still by the prefill is not counted on.
Rings == Plan(ModelRate, Window, Delay * Hop)

\* How full the rings are.
Fill == [input |-> lanes.input, output |-> lanes.output, dry |-> lanes.dry,
         infos |-> Len(lanes.info)]

(***************************************************************************)
(* Resamplers.  A pair delays the voice by its lag, that is the impulse's  *)
(* peak and the least that the two hold back, and by what they hold beyond *)
(* that.  The probe, which leaves the pair full of silence, measures the   *)
(* sum in whole native frames, and the dry lane starts with as many zeros. *)
(***************************************************************************)
NoPair == [input |-> 0, output |-> 0, lag |-> 0]

\* Slip: what the probe's resamplers still hold is not counted.
PrefillOfLag(p) == p.lag \div ModelRate

Prefill(p) == (p.lag + p.input + p.output) \div ModelRate

FreshPairs(rate) ==
    IF rate = ModelRate THEN {NoPair}
    ELSE {p \in [input : 0 .. Jitter, output : 0 .. Jitter,
                 lag : 0 .. MaxPrefill * ModelRate] :
            \E frames \in 0 .. MaxPrefill :
               p.lag + p.input + p.output = frames * ModelRate}

Play == IF sampleRate = ModelRate THEN 0 ELSE Jitter

\* How many frames of `unit' ticks come out of a resampler that holds `held'
\* ticks and is fed `fed' ticks.
Deliveries(held, fed, unit) ==
    {n \in 0 .. (held + fed) \div unit : held + fed - n * unit <= Play}

(***************************************************************************)
(* set_format, replace_resamplers, and the resets, which come with a pair  *)
(* that has not been fed.                                                  *)
(***************************************************************************)
Restart(rate) ==
    /\ Idle
    /\ sampleRate' = rate
    /\ pair' \in FreshPairs(rate)
    /\ lanes' = EmptyLanes(Prefill(pair'))
    /\ warmup' = Delay
    /\ UNCHANGED call

TakeInput(frames) ==
    /\ Idle /\ lanes.taken + frames <= MaxTaken
    /\ Accepts(Rings, Fill, frames, sampleRate, ModelRate)
    /\ \E arrived \in Deliveries(pair.input, frames * ModelRate, sampleRate) :
         /\ lanes' = Pushed(lanes, frames, arrived)
         /\ pair' = [pair EXCEPT !.input = pair.input + frames * ModelRate
                                             - arrived * sampleRate]
    /\ call' = [NoCall EXCEPT !.pc = "hops", !.frames = frames]
    /\ UNCHANGED <<sampleRate, warmup>>

Hopping == call.pc = "hops" /\ HopReady(lanes)

\* Slip: one hop too many is discarded.
StartingUpLate == warmup >= 0

StartingUp == warmup > 0

DiscardHop ==
    /\ Hopping /\ StartingUp
    /\ warmup' = warmup - 1
    /\ lanes' = Hopped(lanes, 0)
    /\ UNCHANGED <<sampleRate, pair, call>>

EmitHop ==
    /\ Hopping /\ ~StartingUp
    /\ \E synthesised \in Deliveries(pair.output, Hop * sampleRate, ModelRate) :
         /\ lanes' = Hopped(lanes, synthesised)
         /\ pair' = [pair EXCEPT !.output = pair.output + Hop * sampleRate
                                              - synthesised * ModelRate]
    /\ UNCHANGED <<sampleRate, warmup, call>>

HopsDone == call.pc = "hops" /\ ~HopReady(lanes)

ReturnPending ==
    /\ HopsDone /\ NothingToPop(lanes)
    /\ call' = NoCall
    /\ UNCHANGED <<sampleRate, pair, lanes, warmup>>

StartDrain ==
    /\ HopsDone /\ ~NothingToPop(lanes)
    /\ call' = [call EXCEPT !.pc = "drain", !.missing = Available(lanes)]
    /\ UNCHANGED <<sampleRate, pair, lanes, warmup>>

MoreToDrain == call.missing > 0 /\ lanes.info # <<>>

DrainInfo ==
    /\ call.pc = "drain" /\ MoreToDrain
    /\ lanes' = Drained(lanes, call.missing)
    /\ LET share == Share(lanes, call.missing)
       IN  call' = [call EXCEPT !.missing = call.missing - share,
                                !.popped  = call.popped + share]
    /\ UNCHANGED <<sampleRate, pair, warmup>>

EmitPacket ==
    /\ call.pc = "drain" /\ ~MoreToDrain
    /\ lanes' = Popped(lanes, call.popped)
    /\ call' = NoCall
    /\ UNCHANGED <<sampleRate, pair, warmup>>

Init ==
    /\ sampleRate \in Rates
    /\ pair \in FreshPairs(sampleRate)
    /\ lanes = EmptyLanes(Prefill(pair))
    /\ warmup = Delay
    /\ call = NoCall

Next ==
    \/ \E rate \in Rates : Restart(rate)
    \/ \E frames \in Frames : TakeInput(frames)
    \/ DiscardHop \/ EmitHop \/ ReturnPending
    \/ StartDrain \/ DrainInfo \/ EmitPacket

Spec == Init /\ [][Next]_vars
-----------------------------------------------------------------------------
TypeOK ==
    /\ sampleRate \in Rates
    /\ pair \in [input : 0 .. Play, output : 0 .. Play,
                 lag : 0 .. MaxPrefill * ModelRate]
    /\ lanes \in LanesType
    /\ warmup \in 0 .. Delay
    /\ call \in [pc : {"idle", "hops", "drain"}, frames : 0 .. MaxPacket,
                 missing : Nat, popped : Nat]

\* The dry lane is behind the voice lane by what the resamplers and the model
\* delay the voice, to the tick: no rounding from one rate to the other ever
\* adds up, however packets, hops and what the resamplers deliver fall.
InTime ==
    lanes.dry * ModelRate =
        pair.lag + pair.input + pair.output + lanes.output * ModelRate
          + (lanes.input + (Delay - warmup) * Hop) * sampleRate

\* What waits between two calls, at any two rates, is what the capacity plan
\* was made for: it does not build up with jitter and rounding.
LoadBounded ==
    Idle => Waiting(Fill, sampleRate, ModelRate, Window, Delay * Hop, 2 * Slack)

\* In rings made before the rate of OBS was known, buffers_can_accept never
\* refuses a packet of legal size: no CapacityInvariantFailure.
PacketsFit ==
    Idle => \A frames \in 1 .. MaxPacket :
               Accepts(Rings, Fill, frames, sampleRate, ModelRate)

\* The try_push calls after that test, of as many frames as the resamplers
\* happen to deliver, never fail.
PushesFit ==
    /\ lanes.input <= Rings.input /\ lanes.output <= Rings.output
    /\ lanes.dry <= Rings.dry /\ Len(lanes.info) <= Rings.infos
-----------------------------------------------------------------------------
(***************************************************************************)
(* The inductive invariant behind the properties, part by part.            *)
(***************************************************************************)

\* A pop in progress has as much to take as it set out to take, and the
\* packet info in front has frames left.
CallInv ==
    /\ Idle <=> call.frames = 0
    /\ call.pc # "drain" => call.missing = 0 /\ call.popped = 0
    /\ call.pc = "drain" =>
         /\ call.popped + call.missing = Available(lanes)
         /\ Available(lanes) <= lanes.dry

\* The infos cover, without a gap, what was taken and is not yet sent.
Finish(packet) == packet.start + packet.frames

InfoInv ==
    /\ lanes.info = <<>> =>
         lanes.offset = 0 /\ lanes.taken = lanes.sent + call.popped
    /\ lanes.info # <<>> =>
         /\ lanes.offset < lanes.info[1].frames
         /\ lanes.info[1].start + lanes.offset = lanes.sent + call.popped
         /\ Finish(lanes.info[Len(lanes.info)]) = lanes.taken
    /\ \A i \in 1 .. Len(lanes.info) :
         /\ Finish(lanes.info[i]) + (Len(lanes.info) - i) <= lanes.taken
         /\ i > 1 => lanes.info[i].start = Finish(lanes.info[i - 1])

\* The zeros the dry lane began with.
Zeros == lanes.dry + lanes.sent - lanes.taken

ZerosInv ==
    /\ Zeros <= MaxPrefill
    /\ pair.lag <= Zeros * ModelRate
    /\ Zeros * ModelRate <= pair.lag + 2 * Play

\* The ticks of audio between the two ends of the voice lane.
InLane == lanes.input * sampleRate + lanes.output * ModelRate
            + pair.input + pair.output

LoadInv ==
    /\ call.pc # "hops" => lanes.input < Window
    /\ InLane <= Window * sampleRate + call.frames * ModelRate + 2 * Play

\* In the hop loop all that can still come out fits.
RoomInv ==
    /\ PushesFit
    /\ call.pc = "hops" =>
         lanes.input * sampleRate + lanes.output * ModelRate + pair.output
           <= Rings.output * ModelRate

IInv == /\ TypeOK /\ InTime /\ CallInv /\ InfoInv /\ ZerosInv /\ LoadInv
        /\ RoomInv
=============================================================================
