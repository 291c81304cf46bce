---------------------------- MODULE Suppression ----------------------------
(***************************************************************************)
(* The spectral side of DpdfnetProcessor (src/src/dpdfnet-processor.cpp):  *)
(* what one model hop does to the noisy history, the model's delay line,   *)
(* the warm-up and bridge counters and the suppression depth.              *)
(*                                                                         *)
(* A spectrum is named by the hop it was analysed in, counted from the     *)
(* last reset of the audio lanes.  The network behind DpdfnetModel is      *)
(* external: its output belongs to the spectrum it was given Delay hops    *)
(* ago (output_delay_hops), whatever arithmetic it does.                   *)
(***************************************************************************)
EXTENDS Integers

CONSTANTS Delay,    \* DpdfnetModel::output_delay_hops()
          FadeIn,   \* fade_in_hops_
          FadeOut   \* fade_out_hops_

ASSUME SuppressionAssumption ==
    Delay \in Nat /\ FadeIn \in Nat \ {0} /\ FadeOut \in Nat \ {0}

FullDepth == FadeIn * FadeOut
Slots     == 0 .. Delay - 1     \* entries of noisy_history_
Taps      == 1 .. Delay         \* entries of the network's delay line

\* Contents that belong to no hop of the current stream.
Stale   == -1    \* a history entry written before the last reset
Startup == -2    \* what a freshly reset network puts out

Least(a, b)    == IF a < b THEN a ELSE b
Greatest(a, b) == IF a > b THEN a ELSE b

(***************************************************************************)
(* The spectral state.  hops and emitted count the hops since the reset;   *)
(* the code keeps emitted > 0 as emitted_since_reset_.                     *)
(***************************************************************************)
SpectrumType == [warmup  : 0 .. Delay,
                 bridge  : 0 .. Delay,
                 depth   : 0 .. FullDepth,
                 slot    : Slots \cup {0},
                 history : [Slots -> Int],
                 line    : [Taps -> Int],
                 hops    : Nat,
                 emitted : Nat]

StartupLine == [t \in Taps |-> Startup]

\* The part of reset_audio_state that touches the spectral state.  The
\* history keeps its floats, which now belong to an earlier stream.
FreshSpectrum(depth) ==
    [warmup |-> Delay, bridge |-> 0, depth |-> depth, slot |-> 0,
     history |-> [s \in Slots |-> Stale], line |-> StartupLine,
     hops |-> 0, emitted |-> 0]

(***************************************************************************)
(* One turn of the loop in process_available_hops.                         *)
(***************************************************************************)

\* Slip: a pause stops the model at once, heard or not.
FadedDepthAtOnce(sp, paused, audible) == IF paused THEN 0 ELSE sp.depth

\* A paused hop steps the depth down before anything else looks at it.
FadedDepth(sp, paused, audible) ==
    IF ~paused THEN sp.depth
    ELSE IF sp.emitted > 0 /\ audible THEN Greatest(0, sp.depth - FadeIn)
    ELSE 0

ModelRuns(sp, paused, audible) ==
    ~paused \/ FadedDepth(sp, paused, audible) > 0

ModelHeard(sp, paused, audible) ==
    ModelRuns(sp, paused, audible) /\ sp.bridge = 0

\* Slip: the fade-in does not stop at full depth.
NextDepthUncapped(sp, paused, audible) ==
    IF ~paused /\ sp.warmup = 0 /\ ModelHeard(sp, paused, audible)
    THEN sp.depth + FadeOut
    ELSE FadedDepth(sp, paused, audible)

NextDepth(sp, paused, audible) ==
    IF ~paused /\ sp.warmup = 0 /\ ModelHeard(sp, paused, audible)
    THEN Least(FullDepth, sp.depth + FadeOut)
    ELSE FadedDepth(sp, paused, audible)

Discarded(sp) == sp.warmup > 0

DelayedSpectrum(sp) == IF Delay = 0 THEN sp.hops ELSE sp.history[sp.slot]
ModelOutput(sp)     == IF Delay = 0 THEN sp.hops ELSE sp.line[Delay]

\* The external network takes in the current hop when it runs.
LineAfter(sp, paused, audible) ==
    IF ModelRuns(sp, paused, audible)
    THEN [t \in Taps |-> IF t = 1 THEN sp.hops ELSE sp.line[t - 1]]
    ELSE sp.line

NextSlot(sp) ==
    IF Delay = 0 THEN 0 ELSE IF sp.slot + 1 = Delay THEN 0 ELSE sp.slot + 1

HopAfter(sp, paused, audible) ==
    [warmup  |-> Greatest(0, sp.warmup - 1),
     bridge  |-> Greatest(0, sp.bridge - 1),
     depth   |-> NextDepth(sp, paused, audible),
     slot    |-> NextSlot(sp),
     history |-> [s \in Slots |-> IF s = sp.slot THEN sp.hops
                                  ELSE sp.history[s]],
     line    |-> LineAfter(sp, paused, audible),
     hops    |-> sp.hops + 1,
     emitted |-> IF Discarded(sp) THEN sp.emitted ELSE sp.emitted + 1]

\* What a hop that is not discarded hands to synthesis: the hops its
\* spectrum is made of, and how much of the suppression depth it carries.
Emission(sp, paused, audible) ==
    LET heard == ModelHeard(sp, paused, audible)
    IN  [index   |-> sp.emitted,
         sources |-> {DelayedSpectrum(sp)}
                       \cup (IF heard THEN {ModelOutput(sp)} ELSE {}),
         level   |-> IF heard THEN NextDepth(sp, paused, audible) ELSE 0,
         audible |-> audible]

\* Slip: a stopped model goes on where it stopped.
ResumedInPlace(sp) == sp

(***************************************************************************)
(* resume_after_overload: a model that kept running through an unfinished  *)
(* fade-out continues in place; one that stopped restarts, and its first   *)
(* Delay outputs are bridged with the noisy spectrum.                      *)
(***************************************************************************)
Resumed(sp) ==
    IF sp.depth = 0
    THEN [sp EXCEPT !.bridge = Delay, !.line = StartupLine]
    ELSE sp

(***************************************************************************)
(* What keeps history and model in step.  The history holds the last Delay *)
(* hops, oldest at the slot.  The model's line holds them too, except for  *)
(* the taps that warm-up or bridge still hide, and except while an         *)
(* overload pause has stopped the model.                                   *)
(***************************************************************************)
HistoryInStep(sp) ==
    /\ sp.hops < Delay => sp.slot = sp.hops
    /\ \A s \in Slots :
         /\ s < sp.slot => sp.history[s] = sp.hops - sp.slot + s
         /\ s >= sp.slot /\ sp.hops >= Delay =>
              sp.history[s] = sp.hops - sp.slot + s - Delay

Hidden(sp) == Greatest(sp.bridge, sp.warmup)

LineInStep(sp) ==
    \A t \in Taps : t <= Delay - Hidden(sp) => sp.line[t] = sp.hops - t

InStep(sp, overloaded) ==
    /\ sp.warmup  = Greatest(0, Delay - sp.hops)
    /\ sp.emitted = Greatest(0, sp.hops - Delay)
    /\ HistoryInStep(sp)
    /\ ~(overloaded /\ sp.depth = 0) => LineInStep(sp)
    /\ sp.bridge > 0 => sp.depth = 0
=============================================================================
