----------------------------- MODULE ModelState -----------------------------
(***************************************************************************)
(* The recurrent state of DpdfnetModel (src/src/dpdfnet-model.cpp): the    *)
(* immutable initial tensor, the two tensors a and b that successive runs  *)
(* write in turn, and the flags that choose the binding of the next run.   *)
(*                                                                         *)
(* What a tensor holds is abstracted to the delay line it encodes: the     *)
(* hops the network has yet to answer, as in Suppression.                  *)
(***************************************************************************)
EXTENDS Suppression

Lines == [Taps -> Int]

TensorsType == [useInitial : BOOLEAN, parity : 0 .. 1, a : Lines, b : Lines]

\* Written before a reset or by a run that threw: the state of no stream.
Leftover == [t \in Taps |-> Stale]

\* Slip: only the parity goes back, so the next run reads an old tensor.
ResetKeepingBinding(x) == [x EXCEPT !.parity = 0, !.a = Leftover, !.b = Leftover]

\* reset() keeps the floats of both tensors, which nobody may read again.
ResetTensors(x) ==
    [useInitial |-> TRUE, parity |-> 0, a |-> Leftover, b |-> Leftover]

\* prepare_dpdfnet_model runs the network once on silence and resets it.
ReadyTensors ==
    ResetTensors([useInitial |-> FALSE, parity |-> 0,
                  a |-> StartupLine, b |-> StartupLine])

\* The input and the output state of binding_initial_, binding_a_, binding_b_.
StateRead(x) ==
    IF x.useInitial THEN StartupLine ELSE IF x.parity = 0 THEN x.a ELSE x.b

Written(x, state) ==
    IF x.useInitial \/ x.parity = 1 THEN [x EXCEPT !.a = state]
                                    ELSE [x EXCEPT !.b = state]

\* The flags after a run whose output was finite.
Turned(x) ==
    IF x.useInitial THEN [x EXCEPT !.useInitial = FALSE]
    ELSE [x EXCEPT !.parity = 1 - x.parity]

\* enhance(): the network shifts the hop into the line it was given.
Enhanced(x, hop) ==
    LET line == StateRead(x)
    IN  Turned(Written(x, [t \in Taps |-> IF t = 1 THEN hop ELSE line[t - 1]]))

\* enhance() threw, on a failed run or a non-finite output.
EnhanceThrew(x) == Written(x, Leftover)
=============================================================================
