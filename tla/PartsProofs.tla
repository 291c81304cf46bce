----------------------------- MODULE PartsProofs -----------------------------
(***************************************************************************)
(* The objects DpdfnetProcessor owns hold what the processor takes them to *)
(* hold, for every size of packet, hop, ring, delay and fade: the tensors  *)
(* of the model, the overlap-add buffer, the input ring and the ring of    *)
(* packet infos.                                                           *)
(*                                                                         *)
(* Each invariant is shown on a coarser set of steps (PartsSteps): what a  *)
(* step does to the objects, and to the counts they are compared with.     *)
(***************************************************************************)
EXTENDS ProcessorParts, StreamProofs, RingProofs

\* With its parts the processor does nothing else than without them.
LEMMA PartsStep == [PartsNext]_partsVars => [Next]_vars
<1>1. UNCHANGED partsVars => UNCHANGED vars
  BY DEF partsVars
<1>2. PartsArrive => Arrive
  BY Zenon DEF PartsArrive, Arrive
<1>3. PartsContinue => Continue
  BY Zenon DEF PartsContinue, Continue
<1>4. PartsOthers => Others
  BY Zenon DEF PartsOthers, Others
<1>5. QED
  BY <1>1, <1>2, <1>3, <1>4 DEF PartsNext, Next

\* So what is proved of the processor holds of it with its parts.
LEMMA PartsRefine == PartsSpec => Spec
<1>1. PartsInit => Init
  BY DEF PartsInit
<1>2. QED
  BY <1>1, PartsStep, PTL DEF PartsSpec, Spec

-----------------------------------------------------------------------------
(***************************************************************************)
(* The steps, by what they do to the parts.                                *)
(***************************************************************************)
\* The parts, and what they are compared with, stay.
KeptStep ==
    /\ Same /\ loaded' = loaded /\ spectrum' = spectrum /\ voice' = voice
    /\ lanes'.input = lanes.input /\ lanes'.info = lanes.info

\* The lanes and spectra start over, and tensors and overlap with them.
BlankLanes ==
    /\ tensors' = ResetTensors(tensors) /\ overlap' = EmptyOverlap
    /\ lanes'.input = 0 /\ lanes'.info = <<>> /\ voice' = NoVoice
    /\ \E depth \in Nat : spectrum' = FreshSpectrum(depth)

\* A reset empties the rings.
ClearedStep ==
    /\ BlankLanes /\ loaded' = loaded
    /\ rings' = [input |-> Clear(rings.input), info |-> Clear(rings.info)]

\* A new model comes with rings of its own.
ActivatedStep == BlankLanes /\ ActivateParts

\* A retry restarts the model if it has stopped.
ResumedStep ==
    /\ ResumeParts /\ loaded' = loaded /\ voice' = voice /\ lanes' = lanes
    /\ spectrum' = Resumed(spectrum)

\* reset_audio_state starts lanes and spectra over.
LEMMA ResetBlank ==
    ASSUME NEW r, NEW reason, NEW l, ResetAudio(r, reason, l),
           tensors' = ResetTensors(tensors), overlap' = EmptyOverlap
    PROVE  BlankLanes
<1>1. StartDepth(reason) \in Nat
  BY SuppressionAssumption, SMT DEF StartDepth, FullDepth
<1>2. /\ \E p : lanes' = EmptyLanes(p)
      /\ spectrum' = FreshSpectrum(StartDepth(reason)) /\ voice' = NoVoice
  BY Zenon DEF ResetAudio
<1>3. lanes'.input = 0 /\ lanes'.info = <<>>
  BY <1>2 DEF EmptyLanes
<1>4. QED
  BY <1>1, <1>2, <1>3 DEF BlankLanes

\* ... and clears the rings, whoever calls it.
LEMMA ResetStep ==
    ASSUME NEW r, NEW reason, NEW l, ResetAudio(r, reason, l), ResetParts,
           loaded' = loaded
    PROVE  ClearedStep
BY ResetBlank DEF ResetParts, ClearedStep

\* failure_result resets.
LEMMA FailureCleared ==
    ASSUME NEW n, FailureResult(n), ResetParts
    PROVE  ClearedStep
<1>1. /\ \E r, reason : ResetAudio(r, reason, loaded)
      /\ loaded' = loaded
  BY Zenon DEF FailureResult
<1>2. QED
  BY <1>1, ResetStep

\* capacity_failure_result resets on the first failure of a row.
LEMMA CapacityCleared ==
    ASSUME NEW o, CapacityFailure(o), CapacityParts
    PROVE  ClearedStep \/ KeptStep
<1>1. CASE gate.recovering
  BY <1>1 DEF CapacityFailure, CapacityParts, KeptStep, audio
<1>2. CASE ~gate.recovering
  <2>1. /\ \E r, reason : ResetAudio(r, reason, loaded)
        /\ loaded' = loaded /\ ResetParts
    BY <1>2, Zenon DEF CapacityFailure, CapacityParts
  <2>2. QED
    BY <2>1, ResetStep
<1>3. QED
  BY <1>1, <1>2

\* Every step is one of these kinds, or one of the three that move audio.
LEMMA PartsSteps ==
    ASSUME TypeOK, [PartsNext]_partsVars
    PROVE  \/ KeptStep \/ ClearedStep \/ ActivatedStep \/ ResumedStep
           \/ TakeInput /\ TakeInputParts
           \/ (DiscardHop \/ EmitHop) /\ HopParts
           \/ DrainInfo /\ DrainParts
<1>1. CASE UNCHANGED partsVars
  BY <1>1 DEF partsVars, vars, KeptStep, Same
<1>2. CASE PartsArrive
  <2>1. CASE PassUntouched /\ Same
    BY <2>1 DEF PassUntouched, KeptStep, audio
  <2>2. CASE \E frames \in Frames : RejectOversized(frames) /\ CapacityParts
    BY <2>2, CapacityCleared DEF RejectOversized
  <2>3. CASE \E frames \in Frames : PassRateMismatch(frames) /\ Same
    BY <2>3 DEF PassRateMismatch, KeptStep, audio
  <2>4. CASE \E frames \in Frames : AcceptTimestamp(frames) /\ Same
    BY <2>4 DEF AcceptTimestamp, KeptStep
  <2>5. CASE \E frames \in Frames : JumpNative(frames) /\ ResetParts
    BY <2>5, ResetStep DEF JumpNative
  <2>6. CASE \E frames \in Frames : JumpResampled(frames) /\ ResetParts
    BY <2>6, ResetStep DEF JumpResampled
  <2>7. QED
    BY <1>2, <2>1, <2>2, <2>3, <2>4, <2>5, <2>6, Zenon DEF PartsArrive
<1>3. CASE PartsContinue
  <2>1. CASE RejectCapacity /\ CapacityParts
    BY <2>1, CapacityCleared DEF RejectCapacity
  <2>2. CASE (InputResamplerFails \/ OutputResamplerFails) /\ ResetParts
    BY <2>2, FailureCleared DEF InputResamplerFails, OutputResamplerFails
  <2>3. CASE InferenceFails /\ InferenceFailsParts
    <3>1. FailureResult(call.hops) /\ ResetParts
      BY <2>3 DEF InferenceFails, InferenceFailsParts, ResetParts,
                  ResetTensors
    <3>2. QED
      BY <3>1, FailureCleared
  <2>4. CASE (ReturnPending \/ StartDrain) /\ Same
    BY <2>4 DEF ReturnPending, StartDrain, KeptStep, audio
  <2>5. CASE EmitPacket /\ Same
    <3>1. lanes' = Popped(lanes, call.popped) /\ lanes \in LanesType
      BY <2>5 DEF EmitPacket, TypeOK
    <3>2. lanes'.input = lanes.input /\ lanes'.info = lanes.info
      BY <3>1, SMT DEF Popped, LanesType
    <3>3. QED
      BY <2>5, <3>2 DEF EmitPacket, KeptStep
  <2>6. QED
    BY <1>3, <2>1, <2>2, <2>3, <2>4, <2>5 DEF PartsContinue
<1>4. CASE PartsOthers
  <2>1. CASE (DisableForRealtimeOverload \/ SetControls
                \/ ReleaseInvalidResamplers) /\ Same
    BY <2>1 DEF DisableForRealtimeOverload, SetControls,
                ReleaseInvalidResamplers, KeptStep, audio
  <2>2. CASE ResumeAfterOverload /\ ResumeParts
    BY <2>2 DEF ResumeAfterOverload, ResumedStep
  <2>3. CASE (ResetState \/ EndStream) /\ ResetParts
    BY <2>3, ResetStep DEF ResetState, EndStream
  <2>4. CASE \E rate \in Rates : SetFormat(rate) /\ ResetParts
    BY <2>4, ResetStep DEF SetFormat
  <2>5. ASSUME NEW pair, ReplaceResamplers(pair) /\ ReplaceResamplersParts(pair)
        PROVE  KeptStep \/ ClearedStep
    <3>1. CASE resampler.pair = NoRate /\ pair = NoPair
      BY <2>5, <3>1 DEF ReplaceResamplers, ReplaceResamplersParts, KeptStep
    <3>2. CASE ~(resampler.pair = NoRate /\ pair = NoPair)
      <4>1. /\ ResetAudio(WithPair(resampler, pair), gate.reason, loaded)
            /\ ResetParts /\ loaded' = loaded
        BY <2>5, <3>2, Zenon DEF ReplaceResamplers, ReplaceResamplersParts
      <4>2. QED
        BY <4>1, ResetStep
    <3>3. QED
      BY <3>1, <3>2
  <2>6. ASSUME NEW pair, ActivateModel(pair) /\ ActivateParts
        PROVE  ActivatedStep
    <3>1. ResetAudio(WithPair(resampler, pair), "None", TRUE)
      BY <2>6 DEF ActivateModel
    <3>2. tensors' = ResetTensors(tensors) /\ overlap' = EmptyOverlap
      BY <2>6 DEF ActivateParts, ReadyTensors, ResetTensors
    <3>3. QED
      BY <2>6, <3>1, <3>2, ResetBlank DEF ActivatedStep
  <2>7. QED
    BY <1>4, <2>1, <2>2, <2>3, <2>4, <2>5, <2>6, Zenon DEF PartsOthers
<1>5. QED
  BY <1>1, <1>2, <1>3, <1>4 DEF PartsNext
-----------------------------------------------------------------------------
(***************************************************************************)
(* The overlap-add buffer.                                                 *)
(***************************************************************************)
\* The back half holds the last hop that went out, and that one only; before
\* the first one it is empty.
OverlapInv ==
    IF voice = NoVoice
    THEN spectrum.emitted = 0 /\ overlap.back = {}
    ELSE /\ voice.index \in Nat /\ spectrum.emitted = voice.index + 1
         /\ overlap.back = {voice.index} /\ OverlapComplete

\* What the properties read of a fresh spectrum, ...
LEMMA FreshFields ==
    ASSUME NEW depth
    PROVE  /\ FreshSpectrum(depth).emitted = 0 /\ FreshSpectrum(depth).hops = 0
           /\ FreshSpectrum(depth).line = StartupLine
BY DEF FreshSpectrum

\* ... of a resumed one, ...
LEMMA ResumedFields ==
    ASSUME TypeOK
    PROVE  /\ Resumed(spectrum).emitted = spectrum.emitted
           /\ Resumed(spectrum).hops = spectrum.hops
           /\ Resumed(spectrum).line = IF spectrum.depth = 0 THEN StartupLine
                                       ELSE spectrum.line
<1>1. spectrum \in SpectrumType
  BY DEF TypeOK
<1>2. QED
  BY <1>1, SMT DEF Resumed, SpectrumType

\* ... and of spectrum and lanes after a hop.
LEMMA HopFields ==
    ASSUME TypeOK, DiscardHop \/ EmitHop
    PROVE  /\ spectrum'.hops = spectrum.hops + 1
           /\ spectrum'.line = LineAfter(spectrum, Paused, audible)
           /\ spectrum'.emitted = IF Discarded(spectrum) THEN spectrum.emitted
                                  ELSE spectrum.emitted + 1
           /\ lanes'.input = lanes.input - Hop /\ lanes'.info = lanes.info
           /\ lanes.input \in Nat /\ lanes.input >= Window /\ ~Idle
           /\ loaded' = loaded
<1>1. lanes \in LanesType
  BY DEF TypeOK
<1>2. PICK n : lanes' = Hopped(lanes, n)
  BY DEF DiscardHop, EmitHop
<1>3. lanes'.input = lanes.input - Hop /\ lanes'.info = lanes.info
  BY <1>1, <1>2, SMT DEF Hopped, LanesType
<1>4. call.pc = "hops" /\ lanes.input >= Window /\ loaded' = loaded
  BY DEF DiscardHop, EmitHop, Hopping, HopReady
<1>5. spectrum' = HopAfter(spectrum, Paused, audible)
  BY DEF DiscardHop, EmitHop
<1>6. lanes.input \in Nat
  BY <1>1, Zenon DEF LanesType
<1>7. QED
  BY <1>3, <1>4, <1>5, <1>6 DEF HopAfter, Idle

\* The hop that goes out meets the frame of the hop before it.
LEMMA OverlapHop ==
    ASSUME TypeOK, OverlapInv, DiscardHop \/ EmitHop, HopParts
    PROVE  OverlapInv'
<1>1. CASE Discarded(spectrum)
  <2>1. voice' = voice /\ overlap' = overlap
    BY <1>1 DEF DiscardHop, EmitHop, HopParts
  <2>2. spectrum'.emitted = spectrum.emitted
    BY <1>1, HopFields
  <2>3. QED
    BY <2>1, <2>2 DEF OverlapInv, OverlapComplete
<1>2. CASE ~Discarded(spectrum)
  <2> DEFINE n == spectrum.emitted
  <2>1. n \in Nat
    BY DEF TypeOK, SpectrumType
  <2>2. /\ voice' = Emission(spectrum, Paused, audible)
        /\ overlap' = Synthesis(overlap, n)
    BY <1>2 DEF DiscardHop, EmitHop, HopParts
  <2>3. voice'.index = n
    BY <2>2 DEF Emission
  <2>4. spectrum'.emitted = n + 1
    BY <1>2, HopFields
  <2>5. overlap'.front = overlap.back \cup {n} /\ overlap'.back = {n}
    BY <2>2 DEF Synthesis
  <2>6. voice' # NoVoice
    BY <2>1, <2>3, SMT DEF NoVoice
  <2>7. overlap.back = {i \in {n - 1} : i >= 0}
    <3>1. CASE voice = NoVoice
      <4>1. n = 0 /\ overlap.back = {}
        BY <3>1 DEF OverlapInv
      <4> HIDE DEF n
      <4>2. {i \in {n - 1} : i >= 0} = {}
        BY <4>1, SMT
      <4>3. QED
        BY <4>1, <4>2
    <3>2. CASE voice # NoVoice
      <4>1. voice.index \in Nat /\ n = voice.index + 1
            /\ overlap.back = {voice.index}
        BY <3>2 DEF OverlapInv
      <4> HIDE DEF n
      <4>2. n - 1 = voice.index /\ n - 1 >= 0
        BY <4>1, SMT
      <4>3. QED
        BY <4>1, <4>2
    <3>3. QED
      BY <3>1, <3>2
  <2> HIDE DEF n
  <2>8. overlap'.front = {voice'.index} \cup {i \in {voice'.index - 1} : i >= 0}
    BY <2>3, <2>5, <2>7
  <2>9. QED
    BY <2>1, <2>3, <2>4, <2>5, <2>6, <2>8 DEF OverlapInv, OverlapComplete
<1>3. QED
  BY <1>1, <1>2

\* Nothing else than a hop or a reset touches the buffer.
LEMMA OverlapStep ==
    ASSUME TypeOK, OverlapInv, [PartsNext]_partsVars
    PROVE  OverlapInv'
<1>1. CASE \/ KeptStep \/ ResumedStep
           \/ TakeInput /\ TakeInputParts
           \/ DrainInfo /\ DrainParts
  <2>1. voice' = voice /\ overlap' = overlap
        /\ (spectrum' = spectrum \/ spectrum' = Resumed(spectrum))
    BY <1>1 DEF KeptStep, Same, parts, ResumedStep, ResumeParts, TakeInput,
                TakeInputParts, DrainInfo, DrainParts
  <2>2. spectrum'.emitted = spectrum.emitted
    BY <2>1, ResumedFields
  <2>3. QED
    BY <2>1, <2>2 DEF OverlapInv, OverlapComplete
<1>2. CASE ClearedStep \/ ActivatedStep
  <2>1. /\ voice' = NoVoice /\ overlap' = EmptyOverlap
        /\ \E depth \in Nat : spectrum' = FreshSpectrum(depth)
    BY <1>2, Zenon DEF ClearedStep, ActivatedStep, BlankLanes
  <2>2. spectrum'.emitted = 0 /\ overlap'.back = {}
    BY <2>1, FreshFields DEF EmptyOverlap
  <2>3. QED
    BY <2>1, <2>2 DEF OverlapInv
<1>3. CASE (DiscardHop \/ EmitHop) /\ HopParts
  BY <1>3, OverlapHop
<1>4. QED
  BY <1>1, <1>2, <1>3, PartsSteps, Zenon

\* For every delay, fade and disturbance, a hop that goes out is the sum of the
\* frames of two neighbouring hops of its own stream: reset_audio_state and
\* synthesis (stft.cpp) never let an earlier stream ring into it.
THEOREM OverlapsAreComplete == PartsSpec => []OverlapComplete
<1>1. PartsInit => OverlapInv
  <2>1. SUFFICES ASSUME PartsInit PROVE OverlapInv
    OBVIOUS
  <2>2. /\ voice = NoVoice /\ overlap = EmptyOverlap
        /\ spectrum = FreshSpectrum(FullDepth)
    BY <2>1 DEF PartsInit, Init
  <2>3. QED
    BY <2>2, FreshFields DEF OverlapInv, EmptyOverlap
<1>2. TypeOK /\ OverlapInv /\ [PartsNext]_partsVars => OverlapInv'
  BY OverlapStep
<1>3. OverlapInv => OverlapComplete
  BY DEF OverlapInv, OverlapComplete
<1>4. QED
  BY <1>1, <1>2, <1>3, PartsRefine, TypeCorrect, PTL DEF PartsSpec
-----------------------------------------------------------------------------
(***************************************************************************)
(* The rings.  RingProofs says what each operation does to the contents;   *)
(* here the contents are compared with the lanes.                          *)
(***************************************************************************)
\* What an entry of info_queue may hold; a blank one has no frames.
Infos == [frames : Nat, start : Nat]

\* Well-formed rings of the planned size with the contents the lanes say.
RingsInv ==
    /\ IsRing(rings.input, Int) /\ IsRing(rings.info, Infos)
    /\ loaded => rings.input.cap = InCap /\ rings.info.cap = InfoCap
    /\ Contents(rings.input) = InputFrames
    /\ Contents(rings.info) = lanes.info

\* front() is the first element of what is queued.
LEMMA FrontIsFirst ==
    ASSUME NEW T, NEW r, IsRing(r, T), Contents(r) # <<>>
    PROVE  Front(r) = Contents(r)[1] /\ r.count > 0 /\ r.cap > 0
<1>1. Contents(r) \in Seq(T) /\ Len(Contents(r)) = r.count
  BY ContentsType
<1>2. /\ r.cap \in Nat /\ r.head \in Nat /\ r.count \in Nat
      /\ r.count <= r.cap /\ (r.head < r.cap \/ r.head = 0)
  BY DEF IsRing
<1>3. Len(Contents(r)) # 0
  BY <1>1, EmptySeq, SMT
<1>4. r.count > 0 /\ r.cap > 0 /\ r.head < r.cap
  BY <1>1, <1>2, <1>3, SMT
<1>5. Contents(r)[1] = r.buf[(r.head + 1 - 1) % r.cap]
  BY <1>2, <1>4, SMT DEF Contents
<1>6. (r.head + 1 - 1) % r.cap = r.head
  <2>1. (r.head + 1 - 1) % r.cap = IF r.head + 1 - 1 < r.cap
                                  THEN r.head + 1 - 1
                                  ELSE r.head + 1 - 1 - r.cap
    <3>1. 1 \in 1 .. r.count
      BY <1>2, <1>4, SMT
    <3>2. QED
      BY <3>1, SlotOf, ZenonT(60)
  <2> DEFINE slot == (r.head + 1 - 1) % r.cap
  <2>2. slot = IF r.head + 1 - 1 < r.cap THEN r.head + 1 - 1
               ELSE r.head + 1 - 1 - r.cap
    BY <2>1
  <2> HIDE DEF slot
  <2>3. slot = r.head
    BY <1>2, <2>2, SMT
  <2>4. QED
    BY <2>3 DEF slot
<1>7. QED
  BY <1>4, <1>5, <1>6 DEF Front

\* clear() empties the ring and keeps its buffer.
LEMMA ClearEmpties ==
    ASSUME NEW T, NEW r, IsRing(r, T)
    PROVE  /\ IsRing(Clear(r), T) /\ Contents(Clear(r)) = <<>>
           /\ Clear(r).cap = r.cap
<1>1. /\ r = [cap |-> r.cap, buf |-> r.buf, head |-> r.head, count |-> r.count]
      /\ r.cap \in Nat /\ r.buf \in [0 .. r.cap - 1 -> T]
  BY DEF IsRing
<1> DEFINE c == [cap |-> r.cap, buf |-> r.buf, head |-> 0, count |-> 0]
<1> DEFINE q == Clear(r)
<1>2. q = c
  <2>1. PICK h, k : q = [r EXCEPT !.head = h, !.count = k] /\ h = 0 /\ k = 0
    BY DEF Clear
  <2> HIDE DEF q
  <2>2. q = [cap |-> r.cap, buf |-> r.buf, head |-> h, count |-> k]
    BY <1>1, <2>1
  <2>3. QED
    BY <2>1, <2>2
<1>3. /\ c.cap = r.cap /\ c.buf = r.buf /\ c.head = 0 /\ c.count = 0
      /\ c = [cap |-> c.cap, buf |-> c.buf, head |-> c.head, count |-> c.count]
  OBVIOUS
<1> HIDE DEF c
<1>4. IsRing(c, T)
  BY <1>1, <1>3, SMT DEF IsRing
<1>5. Contents(c) = <<>>
  BY <1>3, SMT DEF Contents
<1>6. QED
  BY <1>2, <1>3, <1>4, <1>5

\* A ring without a buffer.
LEMMA NewIsEmpty ==
    ASSUME NEW T
    PROVE  IsRing(NewRing, T) /\ Contents(NewRing) = <<>> /\ NewRing.cap = 0
<1>1. /\ NewRing.cap = 0 /\ NewRing.buf = [i \in {} |-> 0]
      /\ NewRing.head = 0 /\ NewRing.count = 0
      /\ NewRing = [cap |-> NewRing.cap, buf |-> NewRing.buf,
                    head |-> NewRing.head, count |-> NewRing.count]
  BY DEF NewRing
<1>2. 0 .. NewRing.cap - 1 = {}
  BY <1>1, SMT
<1>3. NewRing.buf \in [0 .. NewRing.cap - 1 -> T]
  BY <1>1, <1>2
<1>4. IsRing(NewRing, T)
  BY <1>1, <1>3, SMT DEF IsRing
<1>5. Contents(NewRing) = <<>>
  BY <1>1, SMT DEF Contents
<1>6. QED
  BY <1>1, <1>4, <1>5

\* No frames are waiting, before a step ...
LEMMA EmptyFrames == lanes.input = 0 => InputFrames = <<>>
BY SMT DEF InputFrames

\* ... or after it.
LEMMA NoFrames == lanes'.input = 0 => InputFrames' = <<>>
BY SMT DEF InputFrames

\* A new ring with room.
LEMMA ReservedEmpty ==
    ASSUME NEW T, NEW cap \in Nat, NEW blank \in T
    PROVE  /\ IsRing(Reserve(NewRing, cap, blank), T)
           /\ Contents(Reserve(NewRing, cap, blank)) = <<>>
           /\ Reserve(NewRing, cap, blank).cap = cap
<1>1. IsRing(NewRing, T) /\ Contents(NewRing) = <<>> /\ NewRing.cap = 0
  BY NewIsEmpty
<1>2. Reserve(NewRing, cap, blank).cap = cap
  <2>1. CASE cap <= 0
    BY <1>1, <2>1, SMT DEF Reserve
  <2>2. CASE ~(cap <= 0)
    BY <1>1, <2>2, SMT DEF Reserve, NewRing
  <2>3. QED
    BY <2>1, <2>2
<1>3. QED
  BY <1>1, <1>2, ReserveKeeps

\* What a new buffer is filled with.
LEMMA BlankTypes == Blank \in Int /\ BlankPacket \in Infos
BY SMT DEF Blank, BlankPacket, Infos

\* Lanes that start over have nothing waiting.
LEMMA InputBlankLanes ==
    ASSUME BlankLanes
    PROVE  InputFrames' = <<>> /\ lanes'.info = <<>>
BY NoFrames DEF BlankLanes

\* A reset.
LEMMA ClearedRings ==
    ASSUME RingsInv, ClearedStep
    PROVE  RingsInv'
<1>1. /\ rings'.input = Clear(rings.input) /\ rings'.info = Clear(rings.info)
      /\ loaded' = loaded /\ BlankLanes
  BY DEF ClearedStep
<1>2. /\ IsRing(Clear(rings.input), Int)
      /\ Contents(Clear(rings.input)) = <<>>
      /\ Clear(rings.input).cap = rings.input.cap
  BY ClearEmpties DEF RingsInv
<1>3. /\ IsRing(Clear(rings.info), Infos)
      /\ Contents(Clear(rings.info)) = <<>>
      /\ Clear(rings.info).cap = rings.info.cap
  BY ClearEmpties DEF RingsInv
<1>4. QED
  BY <1>1, <1>2, <1>3, InputBlankLanes, Zenon DEF RingsInv

\* A new model.
LEMMA ActivatedRings ==
    ASSUME ActivatedStep
    PROVE  RingsInv'
<1>1. /\ rings'.input = Reserve(NewRing, InCap, Blank)
      /\ rings'.info = Reserve(NewRing, InfoCap, BlankPacket) /\ BlankLanes
  BY DEF ActivatedStep, ActivateParts
<1>2. /\ IsRing(Reserve(NewRing, InCap, Blank), Int)
      /\ Contents(Reserve(NewRing, InCap, Blank)) = <<>>
      /\ Reserve(NewRing, InCap, Blank).cap = InCap
  BY ReservedEmpty, BlankTypes, Caps
<1>3. /\ IsRing(Reserve(NewRing, InfoCap, BlankPacket), Infos)
      /\ Contents(Reserve(NewRing, InfoCap, BlankPacket)) = <<>>
      /\ Reserve(NewRing, InfoCap, BlankPacket).cap = InfoCap
  BY ReservedEmpty, BlankTypes, Caps
<1>4. QED
  BY <1>1, <1>2, <1>3, InputBlankLanes, Zenon DEF RingsInv

\* The counts of the rings are those of the lanes.
LEMMA RingsCount ==
    ASSUME TypeOK, RingsInv
    PROVE  /\ rings.input.count = lanes.input /\ rings.input.count \in Nat
           /\ rings.info.count = Len(lanes.info) /\ rings.info.count \in Nat
           /\ lanes.info \in Seq(Infos)
<1>1. lanes.input \in Nat
  BY DEF TypeOK, LanesType
<1>2. /\ Len(Contents(rings.input)) = rings.input.count
      /\ Len(Contents(rings.info)) = rings.info.count
      /\ Contents(rings.info) \in Seq(Infos)
  BY ContentsType DEF RingsInv
<1>3. rings.input.count \in Nat /\ rings.info.count \in Nat
  BY DEF RingsInv, IsRing
<1>4. Len(InputFrames) = lanes.input
  BY <1>1, SMT DEF InputFrames
<1>5. QED
  BY <1>2, <1>3, <1>4 DEF RingsInv

\* Frames from position first on.
LEMMA FramesAppend ==
    ASSUME NEW base \in Int, NEW m \in Nat, NEW n \in Nat
    PROVE  [i \in 1 .. m |-> base + i - 1]
             \o [i \in 1 .. n |-> base + m + i - 1]
             = [i \in 1 .. m + n |-> base + i - 1]
<1> DEFINE a == [i \in 1 .. m |-> base + i - 1]
           b == [i \in 1 .. n |-> base + m + i - 1]
           c == [i \in 1 .. m + n |-> base + i - 1]
<1>1. a \in Seq(Int) /\ b \in Seq(Int) /\ c \in Seq(Int)
      /\ Len(a) = m /\ Len(b) = n /\ Len(c) = m + n
  BY SMT
<1>2. \A i \in 1 .. m : a[i] = base + i - 1
  OBVIOUS
<1>3. \A i \in 1 .. n : b[i] = base + m + i - 1
  OBVIOUS
<1>4. \A i \in 1 .. m + n : c[i] = base + i - 1
  OBVIOUS
<1> HIDE DEF a, b, c
<1>5. a \o b \in Seq(Int) /\ Len(a \o b) = m + n
  BY <1>1, ConcatProperties
<1>6. ASSUME NEW i \in 1 .. m + n PROVE (a \o b)[i] = c[i]
  <2>1. CASE i <= m
    <3>1. i \in 1 .. m /\ (a \o b)[i] = a[i]
      BY <1>1, <2>1, SMT
    <3>2. QED
      BY <1>2, <1>4, <3>1
  <2>2. CASE i > m
    <3>1. i - m \in 1 .. n /\ (a \o b)[i] = b[i - m]
      BY <1>1, <2>2, SMT
    <3>2. b[i - m] = base + m + (i - m) - 1
      BY <1>3, <3>1
    <3>3. base + m + (i - m) - 1 = base + i - 1
      BY SMT
    <3>4. QED
      BY <1>4, <3>1, <3>2, <3>3
  <2>3. i <= m \/ i > m
    BY SMT
  <2>4. QED
    BY <2>1, <2>2, <2>3
<1>7. a \o b = c
  BY <1>1, <1>5, <1>6, SeqEqual
<1>8. QED
  BY <1>7 DEF a, b, c

\* The first n frames are gone.
LEMMA FramesDropped ==
    ASSUME NEW base \in Int, NEW m \in Nat, NEW n \in 0 .. m
    PROVE  SubSeq([i \in 1 .. m |-> base + i - 1], n + 1, m)
             = [i \in 1 .. m - n |-> base + n + i - 1]
<1> DEFINE a == [i \in 1 .. m |-> base + i - 1]
<1>1. a \in Seq(Int) /\ Len(a) = m
  BY SMT
<1>2. \A i \in 1 .. m : a[i] = base + i - 1
  OBVIOUS
<1> HIDE DEF a
<1>3. SubSeq(a, n + 1, m) = [i \in 1 .. m - (n + 1) + 1 |-> a[(n + 1) + i - 1]]
  BY SMT
<1>4. m - (n + 1) + 1 = m - n
  BY SMT
<1>5. ASSUME NEW i \in 1 .. m - n
      PROVE  a[(n + 1) + i - 1] = base + n + i - 1
  <2>1. (n + 1) + i - 1 \in 1 .. m
    BY SMT
  <2>2. a[(n + 1) + i - 1] = base + ((n + 1) + i - 1) - 1
    BY <1>2, <2>1
  <2>3. base + ((n + 1) + i - 1) - 1 = base + n + i - 1
    BY SMT
  <2>4. QED
    BY <2>2, <2>3
<1>6. QED
  BY <1>3, <1>4, <1>5 DEF a

\* pop does not change the size of the buffer.
LEMMA PopCap ==
    ASSUME NEW T, NEW r, IsRing(r, T), NEW n
    PROVE  Pop(r, n).cap = r.cap
<1>1. r = [cap |-> r.cap, buf |-> r.buf, head |-> r.head, count |-> r.count]
  BY DEF IsRing
<1> DEFINE q == Pop(r, n)
<1>2. PICK h, k : q = [r EXCEPT !.head = h, !.count = k]
  BY DEF Pop
<1> HIDE DEF q
<1>3. q.cap = r.cap
  BY <1>1, <1>2
<1>4. QED
  BY <1>3 DEF q

\* Nor does try_push.
LEMMA TryPushCap ==
    ASSUME NEW T, NEW r, IsRing(r, T), NEW src
    PROVE  TryPush(r, src).cap = r.cap
<1>1. r = [cap |-> r.cap, buf |-> r.buf, head |-> r.head, count |-> r.count]
  BY DEF IsRing
<1> DEFINE q == PushUnchecked(r, src)
<1>2. PICK k, b : q = [r EXCEPT !.count = k, !.buf = b]
  BY Zenon DEF PushUnchecked
<1> HIDE DEF q
<1>3. q.cap = r.cap
  BY <1>1, <1>2
<1>4. QED
  BY <1>3 DEF q, TryPush

\* Steps that leave rings, lanes and the count of hops alone.
LEMMA SameRings ==
    ASSUME RingsInv, KeptStep \/ ResumedStep, TypeOK
    PROVE  RingsInv'
<1>1. /\ rings' = rings /\ loaded' = loaded
      /\ lanes'.input = lanes.input /\ lanes'.info = lanes.info
      /\ spectrum' = spectrum \/ spectrum' = Resumed(spectrum)
  BY DEF KeptStep, Same, parts, ResumedStep, ResumeParts
<1>2. spectrum'.hops = spectrum.hops
  BY <1>1, ResumedFields
<1>3. InputFrames' = InputFrames
  BY <1>1, <1>2 DEF InputFrames
<1>4. QED
  BY <1>1, <1>3 DEF RingsInv

\* push_input: both pushes fit, because the lanes hold no more than the rings
\* have room for (RingsHold), so what arrived follows what was waiting.
LEMMA TakeRings ==
    ASSUME TypeOK, CallInv, RingsHold', RingsInv, TakeInput, TakeInputParts
    PROVE  RingsInv'
<1>1. lanes \in LanesType /\ resampler \in ResamplerType /\ call \in CallType
      /\ spectrum.hops \in Nat /\ Hop \in Nat
  BY LanesAssumption, Zenon DEF TypeOK, SpectrumType
<1>2. loaded /\ loaded' = loaded /\ spectrum' = spectrum
      /\ call.frames \in Nat \ {0} /\ lanes.taken \in Nat
      /\ lanes.input \in Nat /\ resampler.inHeld \in Nat
  BY <1>1, LanesAssumption, SMT
     DEF TakeInput, Admitting, CallInv, Idle, Stopped, LanesType, ResamplerType
<1>3. PICK n \in Nat : lanes' = Pushed(lanes, call.frames, n)
  <2>1. PICK n \in IF resampler.path
                   THEN Deliveries(resampler.inHeld, call.frames)
                   ELSE {call.frames} :
           lanes' = Pushed(lanes, call.frames, n)
    BY DEF TakeInput
  <2>2. n \in Nat
    BY <1>2, <2>1, Caps, SMT DEF Deliveries, Greatest
  <2>3. QED
    BY <2>1, <2>2
<1> DEFINE packet == [frames |-> call.frames, start |-> lanes.taken]
           base   == Hop * spectrum.hops
           source == [i \in 1 .. n |-> base + lanes.input + i - 1]
<1>4. packet \in Infos
  BY <1>2, SMT DEF Infos
<1>5. base \in Nat
  BY <1>1, SMT
<1>6. source \in Seq(Int) /\ Len(source) = n
  <2> HIDE DEF base
  <2>1. QED
    BY <1>2, <1>5, SMT
<1>7. lanes'.input = lanes.input + n /\ lanes'.info = Append(lanes.info, packet)
  BY <1>1, <1>3, SMT DEF Pushed, LanesType
<1>8. lanes'.input - lanes.input = n
  BY <1>2, <1>3, <1>7, SMT
<1>9. /\ rings'.input = TryPush(rings.input, source)
      /\ rings'.info = TryPush(rings.info, <<packet>>)
  BY <1>8, Zenon DEF TakeInputParts
<1> HIDE DEF packet, base, source
<1>10. /\ rings.input.count = lanes.input /\ rings.info.count = Len(lanes.info)
       /\ lanes.info \in Seq(Infos) /\ rings.info.count \in Nat
  BY RingsCount
<1>11. /\ rings.input.cap = InCap /\ rings.info.cap = InfoCap
       /\ IsRing(rings.input, Int) /\ IsRing(rings.info, Infos)
       /\ Contents(rings.input) = InputFrames
       /\ Contents(rings.info) = lanes.info
  BY <1>2 DEF RingsInv
<1>12. lanes'.input <= InCap /\ Len(lanes'.info) <= InfoCap
  BY DEF RingsHold
<1>13. Len(lanes'.info) = Len(lanes.info) + 1
  BY <1>4, <1>7, <1>10, SMT
<1>14. Len(source) <= rings.input.cap - rings.input.count
  BY <1>2, <1>6, <1>7, <1>10, <1>11, <1>12, Caps, SMT
<1>15. /\ <<packet>> \in Seq(Infos) /\ Len(<<packet>>) = 1
       /\ 1 <= rings.info.cap - rings.info.count
  BY <1>4, <1>10, <1>11, <1>12, <1>13, Caps, SMT
<1>16. /\ IsRing(rings'.input, Int)
       /\ Contents(rings'.input) = InputFrames \o source
  BY <1>6, <1>9, <1>11, <1>14, TryPushIsAllOrNothing
<1>17. /\ IsRing(rings'.info, Infos)
       /\ Contents(rings'.info) = lanes.info \o <<packet>>
  BY <1>9, <1>11, <1>15, TryPushIsAllOrNothing
<1>18. InputFrames \o source = InputFrames'
  <2>1. InputFrames = [i \in 1 .. lanes.input |-> base + i - 1]
    BY DEF InputFrames, base
  <2>2. InputFrames' = [i \in 1 .. lanes.input + n |-> base + i - 1]
    BY <1>2, <1>7 DEF InputFrames, base
  <2>3. [i \in 1 .. lanes.input |-> base + i - 1] \o source
          = [i \in 1 .. lanes.input + n |-> base + i - 1]
    <3>1. base \in Int /\ lanes.input \in Nat
      BY <1>2, <1>5, SMT
    <3>2. [i \in 1 .. lanes.input |-> base + i - 1]
            \o [i \in 1 .. n |-> base + lanes.input + i - 1]
            = [i \in 1 .. lanes.input + n |-> base + i - 1]
      BY <3>1, FramesAppend, Zenon
    <3>3. QED
      BY <3>2 DEF source
  <2>4. QED
    BY <2>1, <2>2, <2>3
<1>19. lanes.info \o <<packet>> = lanes'.info
  BY <1>4, <1>7, <1>10, AppendIsConcat
<1>20. rings'.input.cap = InCap /\ rings'.info.cap = InfoCap
  BY <1>9, <1>11, TryPushCap
<1>21. QED
  BY <1>16, <1>17, <1>18, <1>19, <1>20 DEF RingsInv

\* A hop pops as many frames as the count of hops moves the position on.
LEMMA HopRings ==
    ASSUME TypeOK, CallInv, RingsInv, DiscardHop \/ EmitHop, HopParts
    PROVE  RingsInv'
<1>1. /\ spectrum'.hops = spectrum.hops + 1 /\ loaded' = loaded
      /\ lanes'.input = lanes.input - Hop /\ lanes'.info = lanes.info
      /\ lanes.input \in Nat /\ lanes.input >= Window /\ ~Idle
  BY HopFields
<1>2. Hop \in Nat /\ Hop > 0 /\ spectrum.hops \in Nat
  BY LanesAssumption, SMT DEF TypeOK, SpectrumType
<1>3. Hop \in 0 .. lanes.input
  BY <1>1, <1>2, SMT DEF Window
<1>4. rings'.input = Pop(rings.input, Hop) /\ rings'.info = rings.info
  <2>1. rings' = [rings EXCEPT !.input = Pop(rings.input, Hop)]
    BY DEF HopParts
  <2>2. QED
    BY <2>1 DEF RingsInv
<1>5. /\ IsRing(rings.input, Int) /\ Contents(rings.input) = InputFrames
      /\ rings.input.count = lanes.input /\ rings.input.cap > 0
  <2>1. rings.input.cap \in Nat /\ rings.input.count <= rings.input.cap
        /\ rings.input.count = lanes.input
    BY RingsCount DEF RingsInv, IsRing
  <2> DEFINE c == rings.input.cap
             n == lanes.input
  <2>2. c \in Nat /\ n <= c /\ Hop \in 0 .. n /\ n \in Nat
    BY <1>1, <1>3, <2>1
  <2> HIDE DEF c, n
  <2>3. c > 0
    BY <1>2, <2>2, SMT
  <2>4. QED
    BY <2>1, <2>3 DEF RingsInv, c
<1>6. /\ IsRing(rings'.input, Int)
      /\ Contents(rings'.input) = SubSeq(InputFrames, Hop + 1, lanes.input)
  BY <1>3, <1>4, <1>5, PopDrops
<1> DEFINE base == Hop * spectrum.hops
<1>7. base \in Nat /\ Hop * (spectrum.hops + 1) = base + Hop
  BY <1>2, SMT
<1> HIDE DEF base
<1>8. SubSeq(InputFrames, Hop + 1, lanes.input) = InputFrames'
  <2>1. InputFrames = [i \in 1 .. lanes.input |-> base + i - 1]
    BY DEF InputFrames, base
  <2>2. InputFrames' = [i \in 1 .. lanes.input - Hop |-> base + Hop + i - 1]
    BY <1>1, <1>7 DEF InputFrames
  <2>3. QED
    BY <1>1, <1>3, <1>7, <2>1, <2>2, FramesDropped
<1>9. rings'.input.cap = rings.input.cap
  BY <1>4, <1>5, PopCap
<1>10. QED
  BY <1>1, <1>4, <1>6, <1>8, <1>9 DEF RingsInv

\* pop_output_packet retires the info in front when the lanes do.
LEMMA DrainRings ==
    ASSUME TypeOK, CallInv, RingsInv, DrainInfo, DrainParts
    PROVE  RingsInv'
<1>1. lanes \in LanesType
  BY DEF TypeOK
<1>2. /\ lanes' = Drained(lanes, call.missing) /\ lanes.info # <<>>
      /\ loaded' = loaded /\ spectrum' = spectrum
  BY DEF DrainInfo, MoreToDrain
<1>3. /\ IsRing(rings.info, Infos) /\ Contents(rings.info) = lanes.info
      /\ rings.info.count = Len(lanes.info) /\ rings.info.count \in Nat
      /\ lanes.info \in Seq(Infos)
  BY RingsCount DEF RingsInv
<1>4. /\ Front(rings.info) = lanes.info[1]
      /\ rings.info.count > 0 /\ rings.info.cap > 0
  BY <1>2, <1>3, FrontIsFirst
<1> DEFINE retires == lanes.offset + Share(lanes, call.missing)
                        = lanes.info[1].frames
<1>5. /\ lanes'.input = lanes.input
      /\ lanes'.info = IF retires THEN Tail(lanes.info) ELSE lanes.info
  BY <1>1, <1>2, SMT DEF Drained, LanesType
<1>6. rings' = IF retires THEN [rings EXCEPT !.info = Pop(rings.info, 1)]
               ELSE rings
  BY <1>4, Zenon DEF DrainParts
<1> HIDE DEF retires
<1>7. InputFrames' = InputFrames
  BY <1>2, <1>5 DEF InputFrames
<1>8. CASE ~retires
  BY <1>2, <1>5, <1>6, <1>7, <1>8 DEF RingsInv
<1>9. CASE retires
  <2>1. rings'.input = rings.input /\ rings'.info = Pop(rings.info, 1)
    BY <1>6, <1>9 DEF RingsInv
  <2>2. 1 \in 0 .. rings.info.count
    BY <1>3, <1>4, SMT
  <2>3. /\ IsRing(Pop(rings.info, 1), Infos)
        /\ Contents(Pop(rings.info, 1))
             = SubSeq(lanes.info, 1 + 1, rings.info.count)
        /\ Pop(rings.info, 1).cap = rings.info.cap
    BY <1>3, <1>4, <2>2, PopDrops, PopCap
  <2>4. SubSeq(lanes.info, 1 + 1, rings.info.count) = Tail(lanes.info)
    BY <1>2, <1>3, SMT
  <2>5. QED
    BY <1>2, <1>5, <1>7, <1>9, <2>1, <2>3, <2>4 DEF RingsInv
<1>10. QED
  BY <1>8, <1>9

\* Every step keeps the rings with the lanes.
LEMMA RingsStep ==
    ASSUME TypeOK, CallInv, RingsHold', RingsInv, [PartsNext]_partsVars
    PROVE  RingsInv'
BY PartsSteps, SameRings, ClearedRings, ActivatedRings, TakeRings, HopRings,
   DrainRings, Zenon

\* The invariant says what a reader of the rings sees.
LEMMA RingsCarry ==
    ASSUME TypeOK, RingsInv
    PROVE  RingsCarryLanes
<1>1. /\ IsRing(rings.input, Int) /\ IsRing(rings.info, Infos)
      /\ Contents(rings.input) = InputFrames
      /\ Contents(rings.info) = lanes.info
  BY DEF RingsInv
<1>2. rings.input.count \in Nat
  BY RingsCount
<1>3. rings.input.count \in 0 .. rings.input.count
  BY <1>2, SMT
<1>4. Peek(rings.input, rings.input.count)
        = SubSeq(InputFrames, 1, rings.input.count)
  BY <1>1, <1>3, PeekIsPrefix
<1>5. InputFrames \in Seq(Int) /\ Len(InputFrames) = rings.input.count
  BY <1>1, ContentsType
<1>6. SubSeq(InputFrames, 1, rings.input.count) = InputFrames
  BY <1>5, SubSeqFull
<1>7. lanes.info # <<>> => Front(rings.info) = lanes.info[1]
  BY <1>1, FrontIsFirst
<1>8. QED
  BY <1>1, <1>4, <1>6, <1>7 DEF RingsCarryLanes

\* The invariant of the rings, on that of the calls.
LEMMA RingsInvariant ==
    ASSUME RoomyRings
    PROVE  PartsSpec => [](TypeOK /\ CallInv /\ RingsInv)
<1>1. PartsInit => RingsInv
  <2>1. SUFFICES ASSUME PartsInit PROVE RingsInv
    OBVIOUS
  <2>2. /\ rings.input = NewRing /\ rings.info = NewRing /\ ~loaded
        /\ lanes = EmptyLanes(0)
    BY <2>1 DEF PartsInit, Init
  <2>3. lanes.input = 0 /\ lanes.info = <<>>
    BY <2>2 DEF EmptyLanes
  <2>4. QED
    BY <2>2, <2>3, EmptyFrames, NewIsEmpty DEF RingsInv
<1>2. TypeOK /\ CallInv /\ RingsHold' /\ RingsInv /\ [PartsNext]_partsVars
        => RingsInv'
  BY RingsStep
<1>3. Spec => []RingsHold
  BY RingsNeverOverflow
<1>4. QED
  BY <1>1, <1>2, <1>3, PartsRefine, CallInvariant, PTL DEF PartsSpec

\* For all sizes of rings, packets, hops and windows, wherever the buffers wrap:
\* input_mono holds the frames after the last hop without gap or repetition,
\* and info_queue the packets not yet sent, in order (ring.hpp, push_input,
\* process_available_hops, pop_output_packet).
THEOREM RingsAlwaysCarry ==
    ASSUME RoomyRings PROVE PartsSpec => []RingsCarryLanes
<1>1. TypeOK /\ RingsInv => RingsCarryLanes
  BY RingsCarry
<1>2. QED
  BY <1>1, RingsInvariant, PTL

-----------------------------------------------------------------------------
(***************************************************************************)
(* The tensors.                                                            *)
(***************************************************************************)
\* The flags are turned together: a model that reads its initial tensor will
\* write a, which is what parity 0 makes the run after it read.
TensorsInv ==
    /\ tensors \in TensorsType
    /\ tensors.useInitial => tensors.parity = 0
    /\ TensorsCarryLine

\* The initial tensor is a tensor.
LEMMA StartupIsLine == StartupLine \in Lines
BY SMT DEF StartupLine, Lines, Startup

\* A position that is a whole number of hops.
LEMMA HopQuotient ==
    ASSUME NEW h \in Nat \ {0}, NEW n \in Nat
    PROVE  (h * n) \div h = n
BY SMT

\* reset() makes the next run read the initial tensor.
LEMMA ResetReads ==
    ASSUME NEW x
    PROVE  /\ ResetTensors(x) \in TensorsType
           /\ ResetTensors(x).useInitial => ResetTensors(x).parity = 0
           /\ StateRead(ResetTensors(x)) = StartupLine
<1>1. Leftover \in Lines
  BY SMT DEF Leftover, Lines, Stale
<1>2. ResetTensors(x) \in TensorsType
  BY <1>1, SMT DEF ResetTensors, TensorsType
<1>3. ResetTensors(x).useInitial /\ ResetTensors(x).parity = 0
  BY DEF ResetTensors
<1>4. QED
  BY <1>2, <1>3 DEF StateRead

\* A run turns the binding to the tensor it has written.
LEMMA EnhancedReads ==
    ASSUME NEW x \in TensorsType, x.useInitial => x.parity = 0, NEW hop \in Int
    PROVE  LET y == Enhanced(x, hop)
           IN  /\ y \in TensorsType /\ (y.useInitial => y.parity = 0)
               /\ StateRead(y) = [t \in Taps |-> IF t = 1 THEN hop
                                                ELSE StateRead(x)[t - 1]]
<1> DEFINE s == [t \in Taps |-> IF t = 1 THEN hop ELSE StateRead(x)[t - 1]]
           w == Written(x, s)
           y == Enhanced(x, hop)
<1>1. /\ x.useInitial \in BOOLEAN /\ x.parity \in 0 .. 1
      /\ x.a \in Lines /\ x.b \in Lines
      /\ x = [useInitial |-> x.useInitial, parity |-> x.parity,
              a |-> x.a, b |-> x.b]
  BY SMT DEF TensorsType
<1>2. StateRead(x) \in Lines
  BY <1>1, StartupIsLine DEF StateRead
<1>3. s \in Lines
  <2>1. ASSUME NEW t \in Taps, t # 1 PROVE StateRead(x)[t - 1] \in Int
    <3>1. t - 1 \in Taps
      BY <2>1, SuppressionAssumption, SMT DEF Taps
    <3>2. QED
      BY <1>2, <3>1 DEF Lines
  <2>2. QED
    BY <2>1 DEF Lines
<1>4. y = Turned(w)
  BY DEF Enhanced
<1> HIDE DEF s, w, y
<1>5. CASE x.useInitial
  <2>1. w = [x EXCEPT !.a = s]
    BY <1>5 DEF w, Written
  <2>2. w \in TensorsType /\ w.useInitial /\ w.a = s /\ w.parity = x.parity
    BY <1>1, <1>3, <1>5, <2>1, SMT DEF TensorsType
  <2>3. y = [w EXCEPT !.useInitial = FALSE]
    BY <1>4, <2>2 DEF Turned
  <2>4. y \in TensorsType /\ ~y.useInitial /\ y.a = s /\ y.parity = 0
    <3> DEFINE no == FALSE
    <3>1. no \in BOOLEAN /\ ~no
      OBVIOUS
    <3>2. y = [w EXCEPT !.useInitial = no]
      BY <2>3
    <3> HIDE DEF no
    <3>3. y \in TensorsType /\ y.useInitial = no /\ y.a = w.a
          /\ y.parity = w.parity
      BY <2>2, <3>1, <3>2, Zenon DEF TensorsType
    <3>4. QED
      BY <1>5, <2>2, <3>1, <3>3
  <2>5. QED
    BY <2>4 DEF StateRead, s, y
<1>6. CASE ~x.useInitial /\ x.parity = 0
  <2>1. w = [x EXCEPT !.b = s]
    BY <1>6 DEF w, Written
  <2>2. w \in TensorsType /\ ~w.useInitial /\ w.b = s /\ w.parity = 0
    BY <1>1, <1>3, <1>6, <2>1, SMT DEF TensorsType
  <2>3. y = [w EXCEPT !.parity = 1]
    BY <1>4, <2>2, SMT DEF Turned
  <2>4. y \in TensorsType /\ ~y.useInitial /\ y.b = s /\ y.parity = 1
    BY <2>2, <2>3, SMT DEF TensorsType
  <2>5. QED
    BY <2>4 DEF StateRead, s, y
<1>7. CASE ~x.useInitial /\ x.parity = 1
  <2>1. w = [x EXCEPT !.a = s]
    BY <1>7 DEF w, Written
  <2>2. w \in TensorsType /\ ~w.useInitial /\ w.a = s /\ w.parity = 1
    BY <1>1, <1>3, <1>7, <2>1, SMT DEF TensorsType
  <2>3. y = [w EXCEPT !.parity = 0]
    BY <1>4, <2>2, SMT DEF Turned
  <2>4. y \in TensorsType /\ ~y.useInitial /\ y.a = s /\ y.parity = 0
    BY <2>2, <2>3, SMT DEF TensorsType
  <2>5. QED
    BY <2>4 DEF StateRead, s, y
<1>8. x.parity = 0 \/ x.parity = 1
  BY <1>1, SMT
<1>9. QED
  BY <1>5, <1>6, <1>7, <1>8

\* The window in front of the input ring is that of the hop counted next.
LEMMA WindowInFront ==
    ASSUME TypeOK, RingsInv, DiscardHop \/ EmitHop
    PROVE  Peek(rings.input, Window)[1] \div Hop = spectrum.hops
<1>1. lanes.input \in Nat /\ lanes.input >= Window
  BY HopFields
<1>2. Window \in Nat /\ Window > 0 /\ Hop \in Nat /\ Hop > 0
  BY WindowType
<1>3. spectrum.hops \in Nat
  BY DEF TypeOK, SpectrumType
<1>4. /\ IsRing(rings.input, Int) /\ Contents(rings.input) = InputFrames
      /\ rings.input.count = lanes.input
  BY RingsCount DEF RingsInv
<1>5. Window \in 0 .. rings.input.count
  BY <1>1, <1>2, <1>4, SMT
<1>6. Peek(rings.input, Window) = SubSeq(InputFrames, 1, Window)
  BY <1>4, <1>5, PeekIsPrefix
<1> DEFINE base == Hop * spectrum.hops
<1>7. base \in Nat /\ base \div Hop = spectrum.hops
  BY <1>2, <1>3, HopQuotient, SMT
<1>8. InputFrames = [i \in 1 .. lanes.input |-> base + i - 1]
  BY DEF InputFrames
<1> HIDE DEF base
<1>9. 1 \in 1 .. lanes.input /\ 1 \in 1 .. Window
  BY <1>1, <1>2, SMT
<1>10. InputFrames[1] = base
  BY <1>7, <1>8, <1>9, SMT
<1>11. SubSeq(InputFrames, 1, Window)[1] = InputFrames[1]
  <2>1. InputFrames \in Seq(Int) /\ Len(InputFrames) = lanes.input
    BY <1>4, ContentsType
  <2>2. QED
    BY <1>1, <1>2, <1>9, <2>1, SMT
<1>12. QED
  BY <1>6, <1>7, <1>10, <1>11

\* A hop shifts itself into the line and the tensor alike; pauses touch neither,
\* and whatever resets the one resets the other.
LEMMA TensorsStep ==
    ASSUME TypeOK, RingsInv, TensorsInv, [PartsNext]_partsVars
    PROVE  TensorsInv'
<1>1. CASE \/ KeptStep
           \/ TakeInput /\ TakeInputParts
           \/ DrainInfo /\ DrainParts
  <2>1. tensors' = tensors /\ spectrum' = spectrum
    BY <1>1 DEF KeptStep, Same, parts, TakeInput, TakeInputParts, DrainInfo,
                DrainParts
  <2>2. QED
    BY <2>1 DEF TensorsInv, TensorsCarryLine
<1>2. CASE ClearedStep \/ ActivatedStep
  <2>1. /\ tensors' = ResetTensors(tensors)
        /\ \E depth \in Nat : spectrum' = FreshSpectrum(depth)
    BY <1>2, Zenon DEF ClearedStep, ActivatedStep, BlankLanes
  <2>2. spectrum'.line = StartupLine
    BY <2>1, FreshFields
  <2>3. QED
    BY <2>1, <2>2, ResetReads, Zenon DEF TensorsInv, TensorsCarryLine
<1>3. CASE ResumedStep
  <2>1. /\ spectrum' = Resumed(spectrum)
        /\ tensors' = IF spectrum.depth = 0 THEN ResetTensors(tensors)
                      ELSE tensors
    BY <1>3 DEF ResumedStep, ResumeParts
  <2>2. spectrum'.line = IF spectrum.depth = 0 THEN StartupLine
                         ELSE spectrum.line
    BY <2>1, ResumedFields
  <2>3. QED
    BY <2>1, <2>2, ResetReads, Zenon DEF TensorsInv, TensorsCarryLine
<1>4. CASE (DiscardHop \/ EmitHop) /\ HopParts
  <2>1. spectrum'.line = LineAfter(spectrum, Paused, audible)
    BY <1>4, HopFields
  <2>2. CASE ~ModelRuns(spectrum, Paused, audible)
    <3>1. tensors' = tensors /\ spectrum'.line = spectrum.line
      BY <1>4, <2>1, <2>2 DEF HopParts, LineAfter
    <3>2. QED
      BY <3>1 DEF TensorsInv, TensorsCarryLine
  <2>3. CASE ModelRuns(spectrum, Paused, audible)
    <3>1. tensors' = Enhanced(tensors, spectrum.hops)
      BY <1>4, <2>3, WindowInFront DEF HopParts
    <3>2. spectrum'.line = [t \in Taps |-> IF t = 1 THEN spectrum.hops
                                           ELSE spectrum.line[t - 1]]
      BY <2>1, <2>3 DEF LineAfter
    <3>3. spectrum.hops \in Int
      BY SMT DEF TypeOK, SpectrumType
    <3>4. StateRead(tensors) = spectrum.line
      BY DEF TensorsInv, TensorsCarryLine
    <3> DEFINE y == Enhanced(tensors, spectrum.hops)
    <3>5. /\ y \in TensorsType /\ (y.useInitial => y.parity = 0)
          /\ StateRead(y) = [t \in Taps |-> IF t = 1 THEN spectrum.hops
                                           ELSE StateRead(tensors)[t - 1]]
      BY <3>3, EnhancedReads DEF TensorsInv
    <3> HIDE DEF y
    <3>6. StateRead(y) = spectrum'.line /\ tensors' = y
      BY <3>1, <3>2, <3>4, <3>5, Zenon DEF y
    <3>7. QED
      BY <3>5, <3>6 DEF TensorsInv, TensorsCarryLine
  <2>4. QED
    BY <2>2, <2>3
<1>5. QED
  BY <1>1, <1>2, <1>3, <1>4, PartsSteps, Zenon

\* For every delay of the model: through warm-up, pauses, retries, failed runs
\* and resets, no run of the network reads a tensor of an earlier stream, and
\* none misses a hop of its own (model.cpp 228-275).
THEOREM TensorsAlwaysCarry ==
    ASSUME RoomyRings PROVE PartsSpec => []TensorsCarryLine
<1>1. PartsInit => TensorsInv
  <2>1. SUFFICES ASSUME PartsInit PROVE TensorsInv
    OBVIOUS
  <2>2. tensors = ReadyTensors /\ spectrum = FreshSpectrum(FullDepth)
    BY <2>1 DEF PartsInit, Init
  <2>3. spectrum.line = StartupLine
    BY <2>2, FreshFields
  <2>4. QED
    BY <2>2, <2>3, ResetReads, Zenon
       DEF ReadyTensors, TensorsInv, TensorsCarryLine
<1>2. TypeOK /\ RingsInv /\ TensorsInv /\ [PartsNext]_partsVars => TensorsInv'
  BY TensorsStep
<1>3. TensorsInv => TensorsCarryLine
  BY DEF TensorsInv
<1>4. QED
  BY <1>1, <1>2, <1>3, RingsInvariant, PTL DEF PartsSpec
=============================================================================
