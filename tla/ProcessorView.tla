--------------------------- MODULE ProcessorView ---------------------------
(***************************************************************************)
(* DpdfnetProcessor as DpdfnetFilter sees it (src/src/dpdfnet-processor):  *)
(* the format, the model, the resampler pair, whether audio is in the      *)
(* lanes, and why processing is off.  Each method is one step here, since  *)
(* the filter runs it behind its audio mutex; the module Processor has     *)
(* what happens inside.                                                    *)
(***************************************************************************)
EXTENDS Naturals

CONSTANTS Formats,    \* OBS audio formats: a sample rate and a channel count
          RateOf,     \* the sample rate of each
          Models,     \* model files
          ModelRate,  \* the sample rate of each
          NoModel,    \* no model, and the empty path
          NoPair      \* an empty DpdfnetResamplers

ASSUME ViewAssumption ==
    /\ RateOf \in [Formats -> Nat] /\ ModelRate \in [Models -> Nat]
    /\ NoModel \notin Models

Reasons == {"None", "RepeatedProcessingFailures", "RealtimeOverload"}

\* A pair is known by the two rates it was prepared for.
PairFor(format, model) ==
    [native |-> RateOf[format], model |-> ModelRate[model]]

Pairs == {PairFor(f, m) : f \in Formats, m \in Models} \cup {NoPair}

\* An empty pair matches nothing: resampler_matches asks for one first.
ASSUME NoPairAssumption ==
    NoPair \notin {PairFor(f, m) : f \in Formats, m \in Models}

(***************************************************************************)
(* used: audio is in the lanes.  fed: the pair has taken in audio since it *)
(* was prepared, so it no longer holds what the zero prefill mirrors.      *)
(* failing: consecutive_failures_ > 0.                                     *)
(***************************************************************************)
ViewType == [format : Formats, model : Models \cup {NoModel},
             valid : BOOLEAN, pair : Pairs, used : BOOLEAN, fed : BOOLEAN,
             reason : Reasons, failing : BOOLEAN]

FirstView(format) ==
    [format |-> format, model |-> NoModel, valid |-> TRUE, pair |-> NoPair,
     used |-> FALSE, fed |-> FALSE, reason |-> "None", failing |-> FALSE]

Loaded(v) == v.model # NoModel

\* The rates differ, so a pair is needed.
Resamples(format, model) ==
    model # NoModel /\ RateOf[format] # ModelRate[model]

ResamplerMatches(v, format, model) ==
    v.valid /\ v.pair = PairFor(format, model)

Path(v)     == Loaded(v) /\ ResamplerMatches(v, v.format, v.model)
Mismatch(v) == Resamples(v.format, v.model) /\ ~Path(v)

\* resampler_refresh_required
Stale(v) == Loaded(v) /\ ~v.valid

SetFormat(v, format) ==
    IF format = v.format THEN v
    ELSE [v EXCEPT !.format = format, !.used = FALSE,
                   !.valid = v.valid /\ ~(/\ Loaded(v)
                                          /\ \/ Resamples(format, v.model)
                                             \/ v.pair # NoPair)]

ReplaceModel(v, model) ==
    [v EXCEPT !.model = model, !.used = FALSE, !.reason = "None",
              !.failing = FALSE]

ReplaceResamplers(v, pair) ==
    IF v.pair = NoPair /\ pair = NoPair
    THEN [v EXCEPT !.valid = TRUE]
    ELSE [v EXCEPT !.pair = pair, !.valid = TRUE, !.used = FALSE,
                   !.fed = FALSE]

ReleaseInvalidResamplers(v) ==
    IF v.valid \/ Resamples(v.format, v.model) THEN v
    ELSE [v EXCEPT !.pair = NoPair, !.valid = TRUE, !.fed = FALSE]

ResetState(v) ==
    [v EXCEPT !.used = FALSE, !.reason = "None", !.failing = FALSE]

ResetStream(v) == [v EXCEPT !.used = FALSE]

DisableForRealtimeOverload(v) ==
    [v EXCEPT !.reason = "RealtimeOverload", !.failing = FALSE]

ResumeAfterOverload(v) == [v EXCEPT !.reason = "None", !.failing = FALSE]

(***************************************************************************)
(* What process() may come back with.  event: some event is reported;      *)
(* refresh: a fresh pair is asked for; hops: it processed hops and did not *)
(* pass the packet through, so the guard measures it.                      *)
(***************************************************************************)
Outcome(v, event, refresh, hops) ==
    [view |-> v, event |-> event, refresh |-> refresh, hops |-> hops]

\* A pair in use is given up with the buffered audio.
GivenUp(v) == [v EXCEPT !.valid = v.valid /\ ~Path(v), !.used = FALSE]

PassedThrough(v) == {Outcome(v, event, FALSE, FALSE) : event \in BOOLEAN}

\* Oversized, or no room: only the first of a row resets the lanes, and no
\* audio is taken in between.
TurnedAway(v) ==
    {Outcome(w, event, w.valid # v.valid, FALSE) :
        event \in BOOLEAN, w \in {GivenUp(v)} \cup {u \in {v} : ~u.used}}

\* Without a pair the packet that jumped is processed after the reset.
Jumped(v) ==
    IF Path(v) THEN {Outcome(GivenUp(v), TRUE, TRUE, FALSE)} ELSE {}

\* The first failure of a row is reported.
Failed(v) ==
    {Outcome([GivenUp(v) EXCEPT !.failing = TRUE], event, Path(v), FALSE) :
        event \in IF v.failing THEN BOOLEAN ELSE {TRUE}}

\* A further failure in a row opens the circuit.
Opened(v) ==
    IF v.failing
    THEN {Outcome([GivenUp(v) EXCEPT !.reason = "RepeatedProcessingFailures"],
                  TRUE, FALSE, FALSE)}
    ELSE {}

TakenIn(v) == [v EXCEPT !.used = TRUE, !.fed = v.fed \/ Path(v)]

Succeeded(v) ==
    {Outcome(TakenIn(v), event, FALSE, FALSE) : event \in BOOLEAN}
    \cup {Outcome([TakenIn(v) EXCEPT !.failing = FALSE], event, FALSE, TRUE) :
            event \in BOOLEAN}

PassesThrough(v) ==
    ~Loaded(v) \/ v.reason = "RepeatedProcessingFailures" \/ Mismatch(v)

\* What it comes back with when nothing goes wrong.
Ordinary(v) == IF PassesThrough(v) THEN PassedThrough(v) ELSE Succeeded(v)

\* An oversized packet is turned away before the rates are compared.
Setbacks(v) ==
    IF ~Loaded(v) \/ v.reason = "RepeatedProcessingFailures" THEN {}
    ELSE TurnedAway(v) \cup
         IF Mismatch(v) THEN {} ELSE Jumped(v) \cup Failed(v) \cup Opened(v)
=============================================================================
