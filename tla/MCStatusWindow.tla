--------------------------- MODULE MCStatusWindow ---------------------------
(***************************************************************************)
(* One 48 kHz model on 48 kHz audio: no resamplers come in between.        *)
(***************************************************************************)
EXTENDS StatusWindow

MCRateOf    == [f \in Formats |-> 480]
MCModelRate == [m \in Models |-> 480]
MCNoPair    == [native |-> 0, model |-> 0]
=============================================================================
