-------------------------- MODULE ProcessorPromise --------------------------
(***************************************************************************)
(* What DpdfnetProcessor promises its owner, as a state machine: each      *)
(* method is one atomic step on the view of it that the filter reasons     *)
(* with, and process() comes back with one of the outcomes that            *)
(* ProcessorView lists.  Filter is built on these outcomes; Processor is   *)
(* shown to keep to them.                                                  *)
(***************************************************************************)
EXTENDS ProcessorView

VARIABLES view,   \* what the processor is, between two calls
          answer  \* what the last call of process() told the filter

AnswerType == [event : BOOLEAN, refresh : BOOLEAN, hops : BOOLEAN]
NoAnswer   == [event |-> FALSE, refresh |-> FALSE, hops |-> FALSE]

PromiseInit ==
    /\ \E format \in Formats : view = FirstView(format)
    /\ answer = NoAnswer

Process ==
    \E outcome \in Ordinary(view) \cup Setbacks(view) :
        /\ view'   = outcome.view
        /\ answer' = [event |-> outcome.event, refresh |-> outcome.refresh,
                      hops |-> outcome.hops]

\* The other methods answer nothing.
Becomes(v) == view' = v /\ answer' = NoAnswer

\* The filter measures a call that processed hops and may stop on it.
Disable == /\ answer.hops /\ view.reason = "None"
           /\ Becomes(DisableForRealtimeOverload(view))
Resume  == /\ view.reason = "RealtimeOverload"
           /\ Becomes(ResumeAfterOverload(view))

Activate(model, pair) ==
    Becomes(ReplaceResamplers(ReplaceModel(view, model), pair))

PromiseNext ==
    \/ Process \/ Disable \/ Resume
    \/ Becomes(ResetState(view))
    \/ Becomes(ResetStream(view))
    \/ Becomes(view)                  \* controls that change no stream
    \/ \E format \in Formats : Becomes(SetFormat(view, format))
    \/ \E pair \in Pairs : Becomes(ReplaceResamplers(view, pair))
    \/ Becomes(ReleaseInvalidResamplers(view))
    \/ \E model \in Models, pair \in Pairs : Activate(model, pair)

PromiseSpec == PromiseInit /\ [][PromiseNext]_<<view, answer>>
=============================================================================
