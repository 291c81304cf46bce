------------------------------- MODULE Lanes -------------------------------
(***************************************************************************)
(* The audio lanes of DpdfnetProcessor: the rings of                       *)
(* DpdfnetRealtimeStorage as frame counts, and the queue of packet infos   *)
(* that gives an output packet its length and its timestamp.               *)
(*                                                                         *)
(* Frames are counted at one rate: a resampler is an external object that  *)
(* holds some frames back and hands out the rest, so native and model      *)
(* frames are the same unit here and only the frames in flight differ.     *)
(* A packet's timestamp is the number of frames accepted before it since   *)
(* the lanes were reset, which is what a steady clock would stamp on it.   *)
(***************************************************************************)
EXTENDS Integers, Sequences

CONSTANTS Hop,        \* DpdfnetModel::hop_size()
          MaxPacket,  \* MAX_AUDIO_PACKET_FRAMES
          Slack,      \* RESAMPLE_BOUND_SLACK
          InCap,      \* capacity of input_mono
          OutCap,     \* capacity of output_mono
          DryCap,     \* capacity of each dry buffer
          InfoCap     \* capacity of info_queue

ASSUME LanesAssumption ==
    /\ Hop \in Nat \ {0} /\ MaxPacket \in Nat \ {0} /\ Slack \in Nat
    /\ InCap \in Nat /\ OutCap \in Nat /\ DryCap \in Nat /\ InfoCap \in Nat

Window == 2 * Hop    \* n_fft(): StreamingStft requires half overlap

Shorter(a, b) == IF a < b THEN a ELSE b

Packets == [frames : Nat \ {0}, start : Nat]    \* DpdfnetPacketInfo

(***************************************************************************)
(* taken and sent count the frames accepted and emitted since the reset.   *)
(***************************************************************************)
LanesType == [input : Nat, output : Nat, dry : Nat,
              info : Seq(Packets), offset : Nat,
              taken : Nat, sent : Nat]

\* reset_audio_state: everything is dropped and the dry lane is filled with
\* as many zeros as the resampler pair delays the voice.
EmptyLanes(prefill) ==
    [input |-> 0, output |-> 0, dry |-> prefill, info |-> <<>>, offset |-> 0,
     taken |-> 0, sent |-> 0]

InputGain(frames, path)        == IF path THEN frames + Slack ELSE frames
SynthesisGain(l, frames, path) ==
    IF path THEN l.input + InputGain(frames, path) + Slack
    ELSE l.input + frames

\* Slip: the room for one more packet info is not checked.
CanAcceptAnyInfo(l, frames, path) ==
    /\ l.input + InputGain(frames, path) <= InCap
    /\ l.output + SynthesisGain(l, frames, path) <= OutCap
    /\ l.dry + frames <= DryCap

\* buffers_can_accept
CanAccept(l, frames, path) ==
    /\ Len(l.info) + 1 <= InfoCap
    /\ l.input + InputGain(frames, path) <= InCap
    /\ l.output + SynthesisGain(l, frames, path) <= OutCap
    /\ l.dry + frames <= DryCap

\* process_packet and push_input: `arrived' frames reach the voice lane.
Pushed(l, frames, arrived) ==
    [l EXCEPT !.info  = Append(l.info, [frames |-> frames, start |-> l.taken]),
              !.dry   = l.dry + frames,
              !.input = l.input + arrived,
              !.taken = l.taken + frames]

\* Slip: a hop waits for more input than one window.
HopReadyLate(l) == l.input >= Window + Hop

HopReady(l) == l.input >= Window

\* A hop frees one hop of input and adds what came out of synthesis.
Hopped(l, synthesised) ==
    [l EXCEPT !.input = l.input - Hop, !.output = l.output + synthesised]

(***************************************************************************)
(* pop_output_packet.                                                      *)
(***************************************************************************)
\* Slip: only whole input packets go out.
AvailableWholePackets(l) ==
    IF l.info # <<>> /\ l.output >= l.info[1].frames
    THEN l.info[1].frames ELSE 0

Available(l) == Shorter(l.output, MaxPacket)

NothingToPop(l) ==
    Available(l) = 0 \/ l.info = <<>> \/ l.dry < Available(l)

\* Slip: the part of the packet that went out earlier is forgotten.
OutputStartOfPacket(l) == l.info[1].start

OutputStart(l) == l.info[1].start + l.offset

\* One turn of the loop over the packet infos: take what is still missing
\* from the packet in front, and retire it when it is used up.
Share(l, missing) == Shorter(missing, l.info[1].frames - l.offset)

\* Slip: a used up packet info stays in front.
DrainedWithoutRetiring(l, missing) ==
    [l EXCEPT !.offset = l.offset + Share(l, missing)]

Drained(l, missing) ==
    IF l.offset + Share(l, missing) = l.info[1].frames
    THEN [l EXCEPT !.info = Tail(l.info), !.offset = 0]
    ELSE [l EXCEPT !.offset = l.offset + Share(l, missing)]

Popped(l, frames) ==
    [l EXCEPT !.output = l.output - frames, !.dry = l.dry - frames,
              !.sent = l.sent + frames]
=============================================================================
