----------------------------- MODULE MCTwoRates -----------------------------
(***************************************************************************)
(* TwoRates with a model between the lowest and the highest rate of OBS.   *)
(***************************************************************************)
EXTENDS TwoRates

MC_Least == [input |-> 0, output |-> 0, dry |-> 0, infos |-> 0]
=============================================================================
