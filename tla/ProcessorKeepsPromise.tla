----------------------- MODULE ProcessorKeepsPromise -----------------------
(***************************************************************************)
(* Processor implements ProcessorPromise.  A call of process() takes many  *)
(* steps in Processor and one in the promise, so the view is taken when no *)
(* call is in progress and remembered while one is; two history variables  *)
(* record what the promise knows and the steps of Processor leave out.     *)
(***************************************************************************)
EXTENDS Processor

VARIABLES layout,  \* changes with a new channel count at the same rate
          fed,     \* a call has come back that fed the pair now installed
          known    \* view and answer when the processor was last idle

history     == <<layout, fed, known>>
historyVars == <<vars, history>>

AnyModel   == "model"
EmptyPair  == [native |-> NoRate, model |-> NoRate]

AsPair(pair) ==
    IF pair = NoRate THEN EmptyPair ELSE [native |-> pair, model |-> ModelRate]

ViewNow ==
    [format |-> <<resampler.rate, layout>>,
     model  |-> IF loaded THEN AnyModel ELSE "none",
     valid  |-> resampler.valid, pair |-> AsPair(resampler.pair),
     used   |-> lanes.taken > 0, fed |-> fed,
     reason |-> gate.reason, failing |-> gate.failures > 0]

Measured(r) == r.disposition \in {"Pending", "Processed"} /\ r.hops > 0

AnswerNow == [event |-> result.event # "None", refresh |-> result.refresh,
              hops |-> Measured(result)]

Now == [view |-> ViewNow, answer |-> AnswerNow]

Promise ==
    INSTANCE ProcessorPromise WITH
        Formats   <- Rates \X BOOLEAN,
        RateOf    <- [f \in Rates \X BOOLEAN |-> f[1]],
        Models    <- {AnyModel},
        ModelRate <- [m \in {AnyModel} |-> ModelRate],
        NoModel   <- "none",
        NoPair    <- EmptyPair,
        view      <- IF Idle THEN ViewNow ELSE known.view,
        answer    <- IF Idle THEN AnswerNow ELSE known.answer

HistoryInit ==
    /\ Init
    /\ layout = FALSE /\ fed = FALSE
    /\ known = Now

Stream ==
    /\ Arrive \/ Continue
    /\ fed' = (fed \/ /\ result'.disposition \in {"Pending", "Processed"}
                      /\ resampler.path)
    /\ UNCHANGED layout

Upkeep ==
    /\ \/ DisableForRealtimeOverload \/ ResumeAfterOverload
       \/ ResetState \/ EndStream \/ SetControls
    /\ UNCHANGED <<layout, fed>>

NewFormat ==
    /\ \E rate \in Rates :
         SetFormat(rate) /\ layout' = (layout # (rate = resampler.rate))
    /\ UNCHANGED fed

NewPair ==
    /\ \/ ReplaceResamplers(NoPair)
       \/ \E rate \in Rates \ {ModelRate} :
             \E pair \in FreshPairs(rate) : ReplaceResamplers(pair)
       \/ ReleaseInvalidResamplers
       \/ ActivateModel(NoPair)
       \/ \E pair \in FreshPairs(resampler.rate) : ActivateModel(pair)
    /\ fed' = FALSE
    /\ UNCHANGED layout

HistoryNext ==
    /\ Stream \/ Upkeep \/ NewFormat \/ NewPair
    /\ known' = IF Idle' THEN Now' ELSE known

HistorySpec == HistoryInit /\ [][HistoryNext]_historyVars
-----------------------------------------------------------------------------
\* Whatever happens inside a call, its caller sees one of the outcomes it is
\* built for: audio stays in the lanes only of a call that took it in, a pair
\* that may have been fed is given up with the audio of a failed call, a jump
\* or a packet turned away, a further failure in a row opens the circuit and
\* only a call with hops may be measured.
KeepsPromise == Promise!PromiseSpec
=============================================================================
