------------------------------ MODULE MCFilter ------------------------------
(***************************************************************************)
(* Rates for named formats and model files; the configurations choose the  *)
(* formats, files, calls and failures.  "full" is a 48 kHz model as the    *)
(* bundled ones, "narrow" a custom one.                                    *)
(***************************************************************************)
EXTENDS Filter

MCRateOf    == [f \in Formats |-> CASE f \in {"44k1", "44k1 surround"} -> 441
                                    [] f = "96k" -> 960
                                    [] OTHER -> 480]
MCModelRate == [m \in Models |-> IF m = "narrow" THEN 160 ELSE 480]
MCNoPair    == [native |-> 0, model |-> 0]
=============================================================================
