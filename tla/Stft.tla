-------------------------------- MODULE Stft --------------------------------
(***************************************************************************)
(* The overlap-add buffer of StreamingStft (src/src/stft.cpp).  Each half  *)
(* of it is one hop long and named by the hops whose frames are summed in  *)
(* it; the windows and transforms in between are not modelled.             *)
(***************************************************************************)
EXTENDS Naturals

EmptyOverlap == [front |-> {}, back |-> {}]

\* synthesis: move the buffer on by a hop, add the frame, and the front half
\* is the hop that goes out.
Synthesis(overlap, index) ==
    [front |-> overlap.back \cup {index}, back |-> {index}]
=============================================================================
