---------------------------- MODULE StreamProofs ----------------------------
(***************************************************************************)
(* The audio lanes of Processor keep every frame, in step with the         *)
(* resamplers and with each other, and hold nothing where audio passes     *)
(* through; the queue of packet infos, the latency, the room in the rings  *)
(* and what is reported: for every configuration.                          *)
(***************************************************************************)
EXTENDS ProcessorProofs

StreamInv == PairInv /\ QuietInv /\ LanesInSync

-----------------------------------------------------------------------------
(***************************************************************************)
(* A reset empties the lanes and starts them in step, if the pair it uses  *)
(* has not been fed.                                                       *)
(***************************************************************************)
LEMMA ResetInSync ==
    ASSUME NEW r \in ResamplerType, NEW reason, NEW isLoaded \in BOOLEAN,
           ResetAudio(r, reason, isLoaded), loaded' = isLoaded,
           WithinHoldback(r), PathOf(r, isLoaded) => AsPrimed(r)
    PROVE  /\ PairInv' /\ LanesInSync' /\ lanes'.taken = 0
           /\ resampler'.rate = r.rate
           /\ resampler'.path = PathOf(r, isLoaded)
<1> DEFINE path == PathOf(r, isLoaded)
           now == Recomputed(r, isLoaded)
<1>1. /\ resampler' = now /\ lanes' = EmptyLanes(Prefill(now))
      /\ spectrum' = FreshSpectrum(StartDepth(reason))
  BY DEF ResetAudio
<1>2. now = [r EXCEPT !.path = path]
  BY DEF Recomputed
<1>3. /\ now.path = path /\ now.rate = r.rate
      /\ now.valid = r.valid /\ now.pair = r.pair
      /\ now.inHeld = r.inHeld /\ now.outHeld = r.outHeld
      /\ now.inPrimed = r.inPrimed /\ now.outPrimed = r.outPrimed
  BY <1>2, SMT DEF ResamplerType
<1>4. PathIsCurrent'
  BY <1>1, <1>3 DEF PathIsCurrent, PathOf
<1>5. WithinHoldback(resampler')
  BY <1>1, <1>3 DEF WithinHoldback
<1>6. resampler'.path => AsPrimed(resampler')
  BY <1>1, <1>3 DEF AsPrimed
<1>7. PairInv'
  BY <1>4, <1>5, <1>6 DEF PairInv
<1>8. /\ lanes'.taken = 0 /\ lanes'.sent = 0 /\ lanes'.input = 0
      /\ lanes'.output = 0 /\ lanes'.dry = Prefill(resampler')
      /\ spectrum'.hops = 0 /\ spectrum'.emitted = 0
  BY <1>1 DEF EmptyLanes, FreshSpectrum
<1>9. InFlightIn' = 0 /\ InFlightOut' = 0
  <2>1. resampler'.inHeld \in Int /\ resampler'.outHeld \in Int
    BY <1>1, <1>3, SMT DEF ResamplerType
  <2>2. QED
    BY <1>6, <2>1, SMT DEF AsPrimed, InFlightIn, InFlightOut
<1>10. LanesInSync'
  <2>1. Prefill(resampler') \in Nat
    BY <1>1, RecomputedType, PrefillType
  <2>2. /\ lanes'.taken = InFlightIn' + lanes'.input + Hop * spectrum'.hops
        /\ Hop * spectrum'.emitted
             = InFlightOut' + lanes'.output + lanes'.sent
    BY <1>8, <1>9, LanesAssumption, SMT
  <2>3. lanes'.dry = Prefill(resampler') + lanes'.taken - lanes'.sent
    BY <1>8, <2>1, SMT
  <2>4. spectrum'.emitted = Greatest(0, spectrum'.hops - Delay)
    BY <1>8, SuppressionAssumption, SMT DEF Greatest
  <2>5. QED
    BY <2>2, <2>3, <2>4 DEF LanesInSync
<1>11. QED
  BY <1>1, <1>3, <1>7, <1>8, <1>10

\* With nothing buffered and no call in progress, nothing is left behind.
LEMMA QuietWhenEmpty ==
    ASSUME lanes'.taken = 0, call'.pc = "idle"
    PROVE  QuietInv'
<1>1. Idle' /\ ~(call'.pc \in {"hops", "drain"})
  BY SMT DEF Idle
<1>2. QED
  BY <1>1 DEF QuietInv, PassthroughLeavesNothing

\* Steps that leave the lanes, the pair and the hop counts alone.
LEMMA UntouchedInSync ==
    ASSUME PairInv, LanesInSync, UNCHANGED <<lanes, loaded>>,
           spectrum'.hops = spectrum.hops,
           spectrum'.emitted = spectrum.emitted,
           UNCHANGED resampler
    PROVE  PairInv' /\ LanesInSync'
BY DEF PairInv, PathIsCurrent, LanesInSync, InFlightIn, InFlightOut

LEMMA NoCallIdle == NoCall.pc = "idle" /\ NoResult.disposition = "NoCall"
BY SMT DEF NoCall, NoResult

\* Giving up the pair in use leaves no path.
LEMMA InvalidatedPath ==
    ASSUME TypeOK, PairInv, NEW stale \in BOOLEAN, resampler.path => stale
    PROVE  /\ Invalidated(stale) \in ResamplerType
           /\ WithinHoldback(Invalidated(stale))
           /\ ~PathOf(Invalidated(stale), loaded)
           /\ Invalidated(stale).rate = resampler.rate
<1> DEFINE valid == resampler.valid /\ ~stale
           next == Invalidated(stale)
<1>1. resampler \in ResamplerType
  BY DEF TypeOK
<1>2. next \in ResamplerType
  BY <1>1, InvalidatedType
<1>3. next = [resampler EXCEPT !.valid = valid]
  BY DEF Invalidated
<1>4. /\ next.valid = valid /\ next.rate = resampler.rate
      /\ next.pair = resampler.pair
      /\ next.inHeld = resampler.inHeld /\ next.outHeld = resampler.outHeld
      /\ next.inPrimed = resampler.inPrimed
      /\ next.outPrimed = resampler.outPrimed
  BY <1>1, <1>3, SMT DEF ResamplerType
<1>5. WithinHoldback(next)
  BY <1>4 DEF PairInv, WithinHoldback
<1>6. ~PathOf(next, loaded)
  BY <1>4 DEF PairInv, PathIsCurrent, PathOf
<1>7. QED
  BY <1>2, <1>4, <1>5, <1>6

LEMMA FailureInSync ==
    ASSUME TypeOK, PairInv, NEW hops, FailureResult(hops)
    PROVE  PairInv' /\ LanesInSync' /\ lanes'.taken = 0 /\ call'.pc = "idle"
<1>1. PICK reason :
         ResetAudio(Invalidated(resampler.path), reason, loaded)
         /\ loaded' = loaded /\ call' = NoCall
  BY DEF FailureResult, PassThrough, Return
<1>2. resampler.path \in BOOLEAN /\ loaded \in BOOLEAN
  BY Zenon DEF TypeOK, ResamplerType
<1>3. /\ Invalidated(resampler.path) \in ResamplerType
      /\ WithinHoldback(Invalidated(resampler.path))
      /\ ~PathOf(Invalidated(resampler.path), loaded)
  BY <1>2, InvalidatedPath
<1>4. QED
  BY <1>1, <1>2, <1>3, ResetInSync, NoCallIdle

LEMMA CapacityInSync ==
    ASSUME TypeOK, StreamInv, NEW oversized, CapacityFailure(oversized)
    PROVE  PairInv' /\ LanesInSync' /\ lanes'.taken = 0 /\ call'.pc = "idle"
<1>1. call' = NoCall /\ loaded' = loaded
  BY DEF CapacityFailure, PassThrough, Return
<1>2. CASE gate.recovering
  <2>1. UNCHANGED audio /\ lanes.taken = 0
    BY <1>2 DEF CapacityFailure, StreamInv, QuietInv
  <2>2. QED
    BY <1>1, <2>1, UntouchedInSync, NoCallIdle DEF audio, StreamInv
<1>3. CASE ~gate.recovering
  <2> DEFINE fresh == ~gate.recovering /\ resampler.path
  <2>1. ResetAudio(Invalidated(fresh), gate.reason, loaded)
    BY <1>3 DEF CapacityFailure
  <2>2. fresh \in BOOLEAN /\ loaded \in BOOLEAN /\ (resampler.path => fresh)
    BY <1>3, Zenon DEF TypeOK
  <2> HIDE DEF fresh
  <2>3. /\ Invalidated(fresh) \in ResamplerType
        /\ WithinHoldback(Invalidated(fresh))
        /\ ~PathOf(Invalidated(fresh), loaded)
    BY <2>2, InvalidatedPath DEF StreamInv
  <2>4. QED
    BY <1>1, <2>1, <2>2, <2>3, ResetInSync, NoCallIdle
<1>4. QED
  BY <1>2, <1>3

-----------------------------------------------------------------------------
(***************************************************************************)
(* Packets that arrive, and packets that are turned away.                  *)
(***************************************************************************)
LEMMA EmptiedStream ==
    ASSUME PairInv', LanesInSync', lanes'.taken = 0, call'.pc = "idle"
    PROVE  StreamInv'
BY QuietWhenEmpty DEF StreamInv

LEMMA PassedStream ==
    ASSUME TypeOK, StreamInv, lanes.taken = 0, UNCHANGED <<audio, loaded>>,
           call' = NoCall
    PROVE  StreamInv'
<1>1. PairInv' /\ LanesInSync'
  BY UntouchedInSync DEF StreamInv, audio
<1>2. lanes'.taken = 0
  BY DEF audio
<1>3. QED
  BY <1>1, <1>2, EmptiedStream, NoCallIdle

LEMMA ArriveStream ==
    ASSUME TypeOK, CallInv, StreamInv, Arrive
    PROVE  StreamInv'
<1>1. resampler \in ResamplerType /\ gate \in GateType /\ loaded \in BOOLEAN
      /\ resampler.path \in BOOLEAN
  BY Zenon DEF TypeOK, ResamplerType
<1>2. CASE PassUntouched
  <2>1. lanes.taken = 0
    BY <1>2 DEF PassUntouched, StreamInv, QuietInv
  <2>2. UNCHANGED <<audio, loaded>> /\ call' = NoCall
    BY <1>2 DEF PassUntouched, PassThrough, Return
  <2>3. QED
    BY <2>1, <2>2, PassedStream
<1>3. ASSUME NEW frames \in Frames, RejectOversized(frames)
      PROVE  StreamInv'
  BY <1>3, CapacityInSync, EmptiedStream DEF RejectOversized
<1>4. ASSUME NEW frames \in Frames, PassRateMismatch(frames)
      PROVE  StreamInv'
  <2>1. lanes.taken = 0
    BY <1>4 DEF PassRateMismatch, StreamInv, QuietInv
  <2>2. UNCHANGED <<audio, loaded>> /\ call' = NoCall
    BY <1>4 DEF PassRateMismatch, PassThrough, Return
  <2>3. QED
    BY <2>1, <2>2, PassedStream
<1>5. ASSUME NEW frames \in Frames, AcceptTimestamp(frames)
      PROVE  StreamInv'
  <2>1. /\ ~Stopped /\ ~RateMismatch /\ result' = NoResult
        /\ Admit(frames)
        /\ UNCHANGED <<lanes, spectrum, resampler, gate, loaded>>
    BY <1>5 DEF AcceptTimestamp, Admissible
  <2>2. call'.pc = "admit"
    BY <2>1, SMT DEF Admit, NoCall
  <2>3. PairInv' /\ LanesInSync'
    BY <2>1, UntouchedInSync DEF StreamInv
  <2>4. ~Stopped' /\ ~RateMismatch'
    BY <2>1 DEF Stopped, RateMismatch
  <2>5. gate'.recovering => lanes'.taken = 0
    BY <2>1 DEF StreamInv, QuietInv
  <2>6. ~(call'.pc \in {"hops", "drain"}) /\ result'.disposition = "NoCall"
    BY <2>1, <2>2, NoCallIdle
  <2>7. QuietInv'
    BY <2>4, <2>5, <2>6, SMT DEF QuietInv, PassthroughLeavesNothing
  <2>8. QED
    BY <2>3, <2>7 DEF StreamInv
<1>6. ASSUME NEW frames \in Frames, JumpNative(frames)
      PROVE  StreamInv'
  <2>1. /\ ~RateMismatch /\ ~resampler.path /\ result' = NoResult
        /\ Admit(frames) /\ loaded' = loaded
        /\ ResetAudio(resampler, gate.reason, loaded)
    BY <1>6 DEF JumpNative, Admissible
  <2>2. ~PathOf(resampler, loaded) /\ WithinHoldback(resampler)
    BY <2>1 DEF StreamInv, PairInv, PathIsCurrent
  <2>3. /\ PairInv' /\ LanesInSync' /\ lanes'.taken = 0
        /\ resampler'.rate = resampler.rate
    BY <1>1, <2>1, <2>2, ResetInSync
  <2>4. ~RateMismatch'
    BY <2>1, <2>3 DEF RateMismatch
  <2>5. ~(call'.pc \in {"hops", "drain"}) /\ result'.disposition = "NoCall"
    BY <2>1, NoCallIdle, SMT DEF Admit, NoCall
  <2>6. QuietInv'
    BY <2>3, <2>4, <2>5 DEF QuietInv, PassthroughLeavesNothing
  <2>7. QED
    BY <2>3, <2>6 DEF StreamInv
<1>7. ASSUME NEW frames \in Frames, JumpResampled(frames)
      PROVE  StreamInv'
  <2>1. /\ ResetAudio(Invalidated(TRUE), gate.reason, loaded)
        /\ loaded' = loaded /\ call' = NoCall
    BY <1>7 DEF JumpResampled, PassThrough, Return
  <2>2. /\ Invalidated(TRUE) \in ResamplerType
        /\ WithinHoldback(Invalidated(TRUE))
        /\ ~PathOf(Invalidated(TRUE), loaded)
    BY <1>1, InvalidatedPath DEF StreamInv
  <2>3. QED
    BY <1>1, <2>1, <2>2, ResetInSync, EmptiedStream, NoCallIdle
<1>8. QED
  BY <1>2, <1>3, <1>4, <1>5, <1>6, <1>7 DEF Arrive

-----------------------------------------------------------------------------
(***************************************************************************)
(* The steps of a call that was admitted.                                  *)
(***************************************************************************)
LEMMA HopProduct ==
    ASSUME NEW n \in Nat
    PROVE  Hop * (n + 1) = Hop * n + Hop /\ Hop * n \in Nat
BY LanesAssumption, SMT

\* What a call in progress may rely on.
LEMMA InCall ==
    ASSUME TypeOK, CallInv, StreamInv, ~Idle
    PROVE  ~Stopped /\ ~RateMismatch /\ result.disposition = "NoCall"
BY DEF CallInv, StreamInv, QuietInv

LEMMA TakeInputStream ==
    ASSUME TypeOK, CallInv, StreamInv, TakeInput
    PROVE  StreamInv'
<1>1. resampler \in ResamplerType /\ lanes \in LanesType
      /\ call \in CallType /\ gate \in GateType
  BY DEF TypeOK
<1>2. PICK arrived \in IF resampler.path
                       THEN Deliveries(resampler.inHeld, call.frames)
                       ELSE {call.frames} :
         /\ lanes'     = Pushed(lanes, call.frames, arrived)
         /\ resampler' = FedInput(resampler, call.frames, arrived)
  BY DEF TakeInput
<1>3. /\ call.pc = "admit" /\ gate' = [gate EXCEPT !.recovering = FALSE]
      /\ call' = [call EXCEPT !.pc = "hops"]
      /\ UNCHANGED <<spectrum, loaded, result>>
  BY DEF TakeInput, Admitting
<1>4. /\ ~Idle /\ ~Stopped /\ ~RateMismatch
      /\ result.disposition = "NoCall" /\ call.frames \in 1 .. MaxPacket
  BY <1>3, InCall, SMT DEF Idle, CallInv
<1>5. /\ call.frames \in Nat \ {0} /\ resampler.inHeld \in Nat
      /\ resampler.inPrimed \in Nat /\ resampler.path \in BOOLEAN
  BY <1>1, <1>4, LanesAssumption, SMT DEF ResamplerType
<1> DEFINE held == resampler.inHeld + call.frames - arrived
<1>6. /\ arrived \in Nat /\ held \in Nat /\ held <= Holdback
      /\ ~resampler.path => arrived = call.frames
  <2>1. resampler.inHeld <= Holdback
    BY DEF StreamInv, PairInv, WithinHoldback
  <2>2. CASE resampler.path
    BY <1>2, <1>5, <2>2, Delivered
  <2>3. CASE ~resampler.path
    BY <1>2, <1>5, <2>1, <2>3, SMT
  <2>4. QED
    BY <2>2, <2>3
<1>7. /\ resampler'.inHeld = held /\ resampler'.outHeld = resampler.outHeld
      /\ resampler'.inPrimed = resampler.inPrimed
      /\ resampler'.outPrimed = resampler.outPrimed
      /\ resampler'.path = resampler.path /\ resampler'.rate = resampler.rate
      /\ resampler'.valid = resampler.valid
      /\ resampler'.pair = resampler.pair
  <2>1. resampler' = [resampler EXCEPT !.inHeld = held]
    BY <1>2 DEF FedInput
  <2> HIDE DEF held
  <2>2. QED
    BY <1>1, <2>1, SMT DEF ResamplerType
<1>8. /\ lanes'.input = lanes.input + arrived /\ lanes'.output = lanes.output
      /\ lanes'.dry = lanes.dry + call.frames
      /\ lanes'.taken = lanes.taken + call.frames /\ lanes'.sent = lanes.sent
  BY <1>1, <1>2, SMT DEF Pushed, LanesType
<1>9. /\ lanes.taken \in Nat /\ lanes.input \in Nat /\ lanes.dry \in Nat
      /\ lanes.sent \in Nat
  BY <1>1, Zenon DEF LanesType
<1>10. lanes'.taken > 0
  BY <1>5, <1>8, <1>9, SMT
<1>11. PairInv'
  <2>1. PathIsCurrent'
    BY <1>3, <1>7 DEF StreamInv, PairInv, PathIsCurrent, PathOf
  <2>2. WithinHoldback(resampler')
    BY <1>6, <1>7 DEF StreamInv, PairInv, WithinHoldback
  <2>3. lanes'.taken # 0
    BY <1>10, SMT
  <2>4. QED
    BY <2>1, <2>2, <2>3 DEF PairInv
<1>12. LanesInSync'
  <2>1. InFlightIn' + arrived = InFlightIn + call.frames
        /\ InFlightOut' = InFlightOut /\ InFlightIn \in Int
        /\ InFlightIn' \in Int
    BY <1>5, <1>6, <1>7, SMT DEF InFlightIn, InFlightOut
  <2>2. Prefill(resampler') = Prefill(resampler)
        /\ Prefill(resampler) \in Nat
    BY <1>1, <1>7, PrefillType DEF Prefill, ProbeDelay
  <2>3. spectrum.hops \in Nat
    BY SMT DEF TypeOK, SpectrumType
  <2>4. LanesInSync
    BY DEF StreamInv
  <2>5. lanes'.taken = InFlightIn' + lanes'.input + Hop * spectrum'.hops
    BY <1>3, <1>5, <1>6, <1>8, <1>9, <2>1, <2>3, <2>4, HopProduct, SMT
       DEF LanesInSync
  <2>6. Hop * spectrum'.emitted = InFlightOut' + lanes'.output + lanes'.sent
    BY <1>3, <1>8, <2>1, <2>4 DEF LanesInSync
  <2>7. lanes'.dry = Prefill(resampler') + lanes'.taken - lanes'.sent
    BY <1>5, <1>8, <1>9, <2>2, <2>4, SMT DEF LanesInSync
  <2>8. QED
    BY <1>3, <2>4, <2>5, <2>6, <2>7 DEF LanesInSync
<1>13. QuietInv'
  <2>1. ~RateMismatch'
    BY <1>4, <1>7 DEF RateMismatch
  <2>2. ~gate'.recovering /\ gate'.reason = gate.reason
    BY <1>1, <1>3, SMT DEF GateType
  <2>3. ~Stopped'
    BY <1>3, <1>4, <2>2 DEF Stopped
  <2>4. QED
    BY <1>3, <1>4, <1>10, <2>1, <2>2, <2>3
       DEF QuietInv, PassthroughLeavesNothing
<1>14. QED
  BY <1>11, <1>12, <1>13 DEF StreamInv

LEMMA HopStream ==
    ASSUME TypeOK, CallInv, SpectralInv, StreamInv, DiscardHop \/ EmitHop
    PROVE  StreamInv'
<1>1. resampler \in ResamplerType /\ lanes \in LanesType
      /\ call \in CallType /\ spectrum \in SpectrumType
  BY DEF TypeOK
<1>2. /\ call.pc = "hops" /\ HopReady(lanes)
      /\ spectrum' = HopAfter(spectrum, Paused, audible)
      /\ call' = [call EXCEPT !.hops = call.hops + 1]
      /\ UNCHANGED <<gate, loaded, result>>
  BY DEF DiscardHop, EmitHop, Hopping
<1>3. /\ ~Idle /\ ~Stopped /\ ~RateMismatch
      /\ result.disposition = "NoCall"
  BY <1>2, InCall, SMT DEF Idle
<1>4. call'.pc = "hops"
  BY <1>1, <1>2, SMT DEF CallType
<1>5. Hop \in Nat \ {0} /\ lanes.input \in Nat /\ lanes.output \in Nat
      /\ lanes.sent \in Nat /\ lanes.taken \in Nat
      /\ resampler.outHeld \in Nat /\ resampler.outPrimed \in Nat
      /\ resampler.path \in BOOLEAN
      /\ spectrum.hops \in Nat /\ spectrum.emitted \in Nat
  BY <1>1, LanesAssumption, SMT DEF LanesType, ResamplerType, SpectrumType
<1>6. PICK synthesised \in Nat, fed \in {0, Hop} :
         /\ lanes' = Hopped(lanes, synthesised)
         /\ resampler.outHeld + fed - synthesised \in Nat
         /\ resampler.outHeld + fed - synthesised <= Holdback
         /\ resampler' = [resampler EXCEPT !.outHeld =
                            resampler.outHeld + fed - synthesised]
         /\ spectrum'.emitted = spectrum.emitted + (IF fed = 0 THEN 0 ELSE 1)
         /\ ~resampler.path => synthesised = fed
  <2>1. resampler.outHeld <= Holdback
    BY DEF StreamInv, PairInv, WithinHoldback
  <2>2. CASE DiscardHop
    <3>1. /\ lanes' = Hopped(lanes, 0) /\ resampler' = resampler
          /\ spectrum'.emitted = spectrum.emitted
      BY <1>2, <2>2 DEF DiscardHop, HopAfter
    <3>2. /\ 0 \in Nat /\ 0 \in {0, Hop}
          /\ resampler.outHeld + 0 - 0 = resampler.outHeld
          /\ spectrum.emitted + (IF 0 = 0 THEN 0 ELSE 1) = spectrum.emitted
      BY <1>5, SMT
    <3>3. resampler' = [resampler EXCEPT !.outHeld = resampler.outHeld]
      BY <1>1, <3>1, SMT DEF ResamplerType
    <3>4. QED
      BY <1>5, <2>1, <3>1, <3>2, <3>3
  <2>3. CASE EmitHop
    <3>1. PICK synthesised \in IF resampler.path
                               THEN Deliveries(resampler.outHeld, Hop)
                               ELSE {Hop} :
             /\ lanes'     = Hopped(lanes, synthesised)
             /\ resampler' = FedOutput(resampler, synthesised)
      BY <2>3 DEF EmitHop
    <3>2. /\ synthesised \in Nat
          /\ resampler.outHeld + Hop - synthesised \in Nat
          /\ resampler.outHeld + Hop - synthesised <= Holdback
          /\ ~resampler.path => synthesised = Hop
      <4>1. CASE resampler.path
        BY <1>5, <3>1, <4>1, Delivered
      <4>2. CASE ~resampler.path
        BY <1>5, <2>1, <3>1, <4>2, SMT
      <4>3. QED
        BY <4>1, <4>2
    <3>3. spectrum'.emitted = spectrum.emitted + (IF Hop = 0 THEN 0 ELSE 1)
      <4>1. spectrum'.emitted = spectrum.emitted + 1
        BY <1>2, <2>3 DEF EmitHop, HopAfter
      <4>2. QED
        BY <1>5, <4>1
    <3>4. resampler' = [resampler EXCEPT !.outHeld =
                          resampler.outHeld + Hop - synthesised]
      BY <3>1 DEF FedOutput
    <3>5. Hop \in {0, Hop}
      OBVIOUS
    <3>6. QED
      BY <3>1, <3>2, <3>3, <3>4, <3>5
  <2>4. QED
    BY <2>2, <2>3
<1> DEFINE held == resampler.outHeld + fed - synthesised
<1>7. /\ resampler'.outHeld = held /\ resampler'.inHeld = resampler.inHeld
      /\ resampler'.inPrimed = resampler.inPrimed
      /\ resampler'.outPrimed = resampler.outPrimed
      /\ resampler'.path = resampler.path /\ resampler'.rate = resampler.rate
      /\ resampler'.valid = resampler.valid
      /\ resampler'.pair = resampler.pair
  <2>1. resampler' = [resampler EXCEPT !.outHeld = held]
    BY <1>6
  <2> HIDE DEF held
  <2>2. QED
    BY <1>1, <2>1, SMT DEF ResamplerType
<1>8. /\ lanes'.input = lanes.input - Hop
      /\ lanes'.output = lanes.output + synthesised
      /\ lanes'.dry = lanes.dry /\ lanes'.taken = lanes.taken
      /\ lanes'.sent = lanes.sent
  BY <1>1, <1>6, SMT DEF Hopped, LanesType
<1>9. lanes'.taken > 0
  <2>1. lanes.taken > 0
    BY <1>2 DEF StreamInv, QuietInv
  <2>2. QED
    BY <1>8, <2>1
<1>10. PairInv'
  <2>1. PathIsCurrent'
    BY <1>2, <1>7 DEF StreamInv, PairInv, PathIsCurrent, PathOf
  <2>2. WithinHoldback(resampler')
    BY <1>6, <1>7 DEF StreamInv, PairInv, WithinHoldback
  <2>3. lanes'.taken # 0
    BY <1>9, SMT
  <2>4. QED
    BY <2>1, <2>2, <2>3 DEF PairInv
<1>11. spectrum'.emitted = Greatest(0, spectrum'.hops - Delay)
  BY HopSpectral DEF SpectralInv, SpectrumInv, InStep
<1>12. LanesInSync'
  <2>1. LanesInSync
    BY DEF StreamInv
  <2>2. InFlightIn' = InFlightIn
    BY <1>7 DEF InFlightIn
  <2>3. InFlightIn \in Int
    <3>1. resampler.inHeld \in Nat /\ resampler.inPrimed \in Nat
      BY <1>1, Zenon DEF ResamplerType
    <3>2. QED
      BY <3>1, SMT DEF InFlightIn
  <2>4. spectrum'.hops = spectrum.hops + 1
    BY <1>2 DEF HopAfter
  <2>5. Hop * spectrum'.hops = Hop * spectrum.hops + Hop
        /\ Hop * spectrum.hops \in Nat
    BY <1>5, <2>4, HopProduct
  <2>6. lanes'.taken = InFlightIn' + lanes'.input + Hop * spectrum'.hops
    <3> DEFINE before == Hop * spectrum.hops
               after == Hop * spectrum'.hops
    <3>1. lanes.taken = InFlightIn + lanes.input + before
      BY <2>1 DEF LanesInSync
    <3>2. after = before + Hop /\ before \in Nat
      BY <2>5
    <3> HIDE DEF before, after
    <3>3. lanes'.taken = InFlightIn' + lanes'.input + after
      BY <1>5, <1>8, <2>2, <2>3, <3>1, <3>2, SMT
    <3>4. QED
      BY <3>3 DEF after
  <2>7. Hop * spectrum'.emitted = Hop * spectrum.emitted + fed
        /\ Hop * spectrum.emitted \in Nat
    <3>1. CASE fed = 0
      BY <1>5, <1>6, <3>1, HopProduct, SMT
    <3>2. CASE fed # 0
      <4>1. spectrum'.emitted = spectrum.emitted + 1 /\ fed = Hop
        BY <1>6, <3>2
      <4>2. QED
        BY <1>5, <4>1, HopProduct
    <3>3. QED
      BY <3>1, <3>2
  <2>8. InFlightOut' + synthesised = InFlightOut + fed
        /\ InFlightOut \in Int /\ InFlightOut' \in Int
    BY <1>5, <1>6, <1>7, SMT DEF InFlightOut
  <2>9. Hop * spectrum'.emitted = InFlightOut' + lanes'.output + lanes'.sent
    <3> DEFINE before == Hop * spectrum.emitted
               after == Hop * spectrum'.emitted
    <3>1. before = InFlightOut + lanes.output + lanes.sent
      BY <2>1 DEF LanesInSync
    <3>2. after = before + fed /\ before \in Nat
      BY <2>7
    <3> HIDE DEF before, after
    <3>3. fed \in Nat
      BY <1>5, <1>6
    <3>4. after = InFlightOut' + lanes'.output + lanes'.sent
      BY <1>5, <1>6, <1>8, <2>8, <3>1, <3>2, <3>3, SMT
    <3>5. QED
      BY <3>4 DEF after
  <2>10. Prefill(resampler') = Prefill(resampler)
    BY <1>7 DEF Prefill, ProbeDelay
  <2>11. lanes'.dry = Prefill(resampler') + lanes'.taken - lanes'.sent
    BY <1>8, <2>1, <2>10 DEF LanesInSync
  <2>12. QED
    BY <1>11, <2>6, <2>9, <2>11 DEF LanesInSync
<1>13. QuietInv'
  <2>1. ~RateMismatch' /\ ~Stopped'
    BY <1>2, <1>3, <1>7 DEF RateMismatch, Stopped
  <2>2. ~gate'.recovering
    <3>1. ~gate.recovering
      <4>1. lanes.taken # 0
        BY <1>8, <1>9, SMT
      <4>2. QED
        BY <4>1 DEF StreamInv, QuietInv
    <3>2. QED
      BY <1>2, <3>1
  <2>3. QED
    BY <1>2, <1>3, <1>4, <1>9, <2>1, <2>2
       DEF QuietInv, PassthroughLeavesNothing
<1>14. QED
  BY <1>10, <1>12, <1>13 DEF StreamInv

\* Steps of a call that leave the lanes' counts and the pair alone.
LEMMA CallStepStream ==
    ASSUME TypeOK, CallInv, StreamInv, call.pc \in {"hops", "drain"},
           UNCHANGED <<spectrum, resampler, loaded>>,
           lanes'.input = lanes.input, lanes'.taken = lanes.taken,
           lanes'.output + lanes'.sent = lanes.output + lanes.sent,
           lanes'.dry + lanes'.sent = lanes.dry + lanes.sent,
           lanes' \in LanesType,
           gate'.reason = gate.reason, gate'.recovering = gate.recovering,
           call'.pc = "idle" \/ result'.disposition = "NoCall",
           result'.disposition # "Passthrough"
    PROVE  StreamInv'
<1>1. /\ ~Idle /\ ~Stopped /\ ~RateMismatch
  BY InCall, SMT DEF Idle
<1>2. /\ lanes.taken > 0 /\ lanes.taken \in Nat /\ lanes.dry \in Nat
      /\ lanes.sent \in Nat /\ lanes.output \in Nat
      /\ lanes'.sent \in Nat /\ lanes'.dry \in Nat /\ lanes'.output \in Nat
  BY Zenon DEF StreamInv, QuietInv, TypeOK, LanesType
<1>3. ~gate'.recovering
  <2>1. lanes.taken # 0
    BY <1>2, SMT
  <2>2. QED
    BY <2>1 DEF StreamInv, QuietInv
<1>4. PairInv'
  BY DEF StreamInv, PairInv, PathIsCurrent
<1>5. LanesInSync'
  <2>1. InFlightIn' = InFlightIn /\ InFlightOut' = InFlightOut
        /\ Prefill(resampler') = Prefill(resampler) /\ LanesInSync
    BY DEF InFlightIn, InFlightOut, StreamInv
  <2>2. Prefill(resampler) \in Nat
    BY PrefillType DEF TypeOK
  <2>3. InFlightOut \in Int
    <3>1. resampler.outHeld \in Nat /\ resampler.outPrimed \in Nat
      BY Zenon DEF TypeOK, ResamplerType
    <3>2. QED
      BY <3>1, SMT DEF InFlightOut
  <2>4. lanes'.dry = Prefill(resampler') + lanes'.taken - lanes'.sent
    BY <1>2, <2>1, <2>2, SMT DEF LanesInSync
  <2>5. Hop * spectrum'.emitted = InFlightOut' + lanes'.output + lanes'.sent
    <3> DEFINE emitted == Hop * spectrum.emitted
    <3>1. emitted = InFlightOut + lanes.output + lanes.sent
      BY <2>1 DEF LanesInSync
    <3> HIDE DEF emitted
    <3>2. emitted = InFlightOut' + lanes'.output + lanes'.sent
      BY <1>2, <2>1, <2>3, <3>1, SMT
    <3>3. QED
      BY <3>2 DEF emitted
  <2>6. QED
    BY <2>1, <2>4, <2>5 DEF LanesInSync
<1>6. QuietInv'
  <2>1. ~Stopped' /\ ~RateMismatch'
    BY <1>1 DEF Stopped, RateMismatch
  <2>2. ~Idle' => result'.disposition = "NoCall"
    BY DEF Idle
  <2>3. lanes'.taken > 0
    BY <1>2
  <2>4. QED
    BY <1>3, <2>1, <2>2, <2>3 DEF QuietInv, PassthroughLeavesNothing
<1>7. QED
  BY <1>4, <1>5, <1>6 DEF StreamInv

LEMMA PopStream ==
    ASSUME TypeOK, CallInv, StreamInv,
           ReturnPending \/ StartDrain \/ DrainInfo \/ EmitPacket
    PROVE  StreamInv'
<1>1. /\ gate \in GateType /\ lanes \in LanesType /\ call \in CallType
      /\ lanes' \in LanesType
  <2>1. TypeOK'
    BY PopStepType
  <2>2. QED
    BY <2>1 DEF TypeOK
<1>2. AfterHops \in GateType /\ AfterHops.reason = gate.reason
      /\ AfterHops.recovering = gate.recovering
  BY <1>1, AfterHopsType, SMT DEF AfterHops, GateType
<1>3. CASE ReturnPending
  <2>1. /\ Return(AfterHops, "Pending", "None", FALSE, call.hops, 0, 0)
        /\ UNCHANGED <<lanes, spectrum, resampler, loaded>>
        /\ call.pc = "hops"
    BY <1>3 DEF ReturnPending, audio, HopsDone
  <2>2. /\ call' = NoCall /\ result'.disposition = "Pending"
        /\ gate'.reason = gate.reason /\ gate'.recovering = gate.recovering
    BY <1>2, <2>1, ReturnedGate
  <2>3. call'.pc = "idle" /\ result'.disposition # "Passthrough"
    BY <2>2, NoCallIdle, SMT
  <2>4. QED
    BY <1>1, <2>1, <2>2, <2>3, CallStepStream
<1>4. CASE StartDrain
  <2>1. /\ gate' = AfterHops /\ call.pc = "hops"
        /\ UNCHANGED <<lanes, spectrum, resampler, loaded, result>>
    BY <1>4 DEF StartDrain, audio, HopsDone
  <2>2. result.disposition = "NoCall" /\ result.disposition # "Passthrough"
    BY <2>1, InCall, SMT DEF Idle
  <2>3. QED
    BY <1>1, <1>2, <2>1, <2>2, CallStepStream
<1>5. CASE DrainInfo
  <2>1. /\ lanes' = Drained(lanes, call.missing) /\ call.pc = "drain"
        /\ UNCHANGED <<spectrum, resampler, gate, loaded, result>>
    BY <1>5 DEF DrainInfo
  <2>2. /\ lanes'.input = lanes.input /\ lanes'.taken = lanes.taken
        /\ lanes'.output = lanes.output /\ lanes'.sent = lanes.sent
        /\ lanes'.dry = lanes.dry
    <3> DEFINE rest == Tail(lanes.info)
               on == lanes.offset + Share(lanes, call.missing)
    <3>1. \/ lanes' = [lanes EXCEPT !.info = rest, !.offset = 0]
          \/ lanes' = [lanes EXCEPT !.offset = on]
      BY <2>1 DEF Drained
    <3> HIDE DEF rest, on
    <3>2. lanes \in LanesType
      BY <1>1
    <3>3. CASE lanes' = [lanes EXCEPT !.info = rest, !.offset = 0]
      BY <3>2, <3>3, SMT DEF LanesType
    <3>4. CASE lanes' = [lanes EXCEPT !.offset = on]
      BY <3>2, <3>4, SMT DEF LanesType
    <3>5. QED
      BY <3>1, <3>3, <3>4
  <2>3. result.disposition = "NoCall" /\ result.disposition # "Passthrough"
    BY <2>1, InCall, SMT DEF Idle
  <2>4. QED
    BY <1>1, <2>1, <2>2, <2>3, CallStepStream
<1>6. CASE EmitPacket
  <2> DEFINE stamp == call.start - Latency(resampler)
  <2>1. /\ lanes' = Popped(lanes, call.popped) /\ call.pc = "drain"
        /\ Return(gate, "Processed", "None", FALSE, call.hops, call.popped,
                  stamp)
        /\ UNCHANGED <<spectrum, resampler, loaded>>
    BY <1>6 DEF EmitPacket
  <2> HIDE DEF stamp
  <2>2. /\ call' = NoCall /\ result'.disposition = "Processed"
        /\ gate'.reason = gate.reason /\ gate'.recovering = gate.recovering
    BY <1>1, <2>1, ReturnedGate
  <2>3. call'.pc = "idle" /\ result'.disposition # "Passthrough"
    BY <2>2, NoCallIdle, SMT
  <2>4. /\ lanes'.input = lanes.input /\ lanes'.taken = lanes.taken
        /\ lanes'.output + lanes'.sent = lanes.output + lanes.sent
        /\ lanes'.dry + lanes'.sent = lanes.dry + lanes.sent
    <3>1. call.popped \in Nat
      BY <1>1, Zenon DEF CallType
    <3>2. QED
      BY <1>1, <2>1, <3>1, SMT DEF Popped, LanesType
  <2>5. QED
    BY <1>1, <2>1, <2>2, <2>3, <2>4, CallStepStream
<1>7. QED
  BY <1>3, <1>4, <1>5, <1>6

LEMMA ContinueStream ==
    ASSUME TypeOK, CallInv, SpectralInv, StreamInv, Continue
    PROVE  StreamInv'
<1>1. CASE RejectCapacity
  BY <1>1, CapacityInSync, EmptiedStream DEF RejectCapacity
<1>2. CASE InputResamplerFails \/ InferenceFails \/ OutputResamplerFails
  <2>1. PICK hops : FailureResult(hops)
    BY <1>2 DEF InputResamplerFails, InferenceFails, OutputResamplerFails
  <2>2. QED
    BY <2>1, FailureInSync, EmptiedStream DEF StreamInv
<1>3. QED
  BY <1>1, <1>2, TakeInputStream, HopStream, PopStream DEF Continue

-----------------------------------------------------------------------------
(***************************************************************************)
(* The methods that run between calls.                                     *)
(***************************************************************************)

\* A pair that has just been installed, or none.
LEMMA FreshPair ==
    ASSUME NEW r \in ResamplerType, NEW pair \in Pairs
    PROVE  /\ WithinHoldback(WithPair(r, pair))
           /\ AsPrimed(WithPair(r, pair))
<1>1. /\ pair.inHeld = pair.inPrimed /\ pair.outHeld = pair.outPrimed
      /\ pair.inHeld <= Holdback /\ pair.outHeld <= Holdback
  BY ProcessorAssumption, SMT DEF Pairs, NoPair, FreshPairs
<1>2. QED
  BY <1>1 DEF WithPair, WithinHoldback, AsPrimed

LEMMA RestartedStream ==
    ASSUME NEW r \in ResamplerType, NEW reason, NEW isLoaded \in BOOLEAN,
           ResetAudio(r, reason, isLoaded), loaded' = isLoaded,
           WithinHoldback(r), PathOf(r, isLoaded) => AsPrimed(r),
           Idle, UNCHANGED call
    PROVE  StreamInv'
<1>1. PairInv' /\ LanesInSync' /\ lanes'.taken = 0
  BY ResetInSync
<1>2. call'.pc = "idle"
  BY DEF Idle
<1>3. QED
  BY <1>1, <1>2, EmptiedStream

\* The lanes go on as they are.
LEMMA KeptStream ==
    ASSUME TypeOK, StreamInv, Idle, UNCHANGED <<call, lanes, loaded>>,
           result' = NoResult,
           spectrum'.hops = spectrum.hops,
           spectrum'.emitted = spectrum.emitted,
           resampler'.rate = resampler.rate,
           \/ UNCHANGED resampler
           \/ /\ ~resampler.path /\ ~resampler'.path
              /\ PathIsCurrent' /\ WithinHoldback(resampler'),
           gate'.recovering => gate.recovering,
           gate'.reason = "RepeatedProcessingFailures" =>
             gate.reason = "RepeatedProcessingFailures"
    PROVE  StreamInv'
<1>1. PairInv' /\ resampler'.path = resampler.path
  <2>1. resampler'.path = resampler.path
    <3>1. resampler.path \in BOOLEAN
      BY Zenon DEF TypeOK, ResamplerType
    <3>2. CASE UNCHANGED resampler
      BY <3>2
    <3>3. CASE ~resampler.path /\ ~resampler'.path /\ PathIsCurrent'
      <4>1. resampler'.path \in BOOLEAN
        <5>1. resampler'.path = (/\ loaded' /\ resampler'.valid
                                 /\ resampler'.pair # NoRate
                                 /\ resampler'.pair = resampler'.rate)
          BY <3>3 DEF PathIsCurrent, PathOf
        <5>2. QED
          BY <5>1, Zenon
      <4>2. QED
        BY <3>1, <3>3, <4>1, Zenon
    <3>4. QED
      BY <3>2, <3>3
  <2>2. PairInv'
    BY DEF StreamInv, PairInv, PathIsCurrent
  <2>3. QED
    BY <2>1, <2>2
<1>2. LanesInSync'
  <2>1. InFlightIn' = InFlightIn /\ InFlightOut' = InFlightOut
        /\ Prefill(resampler') = Prefill(resampler)
    BY <1>1 DEF InFlightIn, InFlightOut, Prefill
  <2>2. QED
    BY <2>1 DEF StreamInv, LanesInSync
<1>3. QuietInv'
  <2>1. Idle' /\ ~(call'.pc \in {"hops", "drain"})
    BY SMT DEF Idle
  <2>2. (Stopped' => Stopped) /\ (RateMismatch' => RateMismatch)
    BY <1>1 DEF Stopped, RateMismatch
  <2>3. result'.disposition # "Passthrough"
    BY NoCallIdle, SMT
  <2>4. QED
    BY <2>1, <2>2, <2>3
       DEF StreamInv, QuietInv, PassthroughLeavesNothing
<1>4. QED
  BY <1>1, <1>2, <1>3 DEF StreamInv

LEMMA OthersStream ==
    ASSUME TypeOK, CallInv, StreamInv, Others
    PROVE  StreamInv'
<1>1. gate \in GateType /\ spectrum \in SpectrumType
      /\ resampler \in ResamplerType /\ loaded \in BOOLEAN
  BY DEF TypeOK
<1>2. WithinHoldback(resampler) /\ PathIsCurrent
  BY DEF StreamInv, PairInv
<1>3. CASE DisableForRealtimeOverload
  <2>1. /\ Idle /\ UNCHANGED <<call, lanes, loaded, resampler, spectrum>>
        /\ result' = NoResult
        /\ gate' = [gate EXCEPT !.reason = "RealtimeOverload",
                                !.failures = 0, !.reported = FALSE]
    BY <1>3 DEF DisableForRealtimeOverload, Between, audio
  <2>2. gate'.recovering = gate.recovering
        /\ gate'.reason # "RepeatedProcessingFailures"
    BY <1>1, <2>1, SMT DEF GateType
  <2>3. QED
    BY <2>1, <2>2, KeptStream
<1>4. CASE ResumeAfterOverload
  <2>1. /\ Idle /\ UNCHANGED <<call, lanes, loaded, resampler>>
        /\ result' = NoResult /\ spectrum' = Resumed(spectrum)
        /\ gate' = [gate EXCEPT !.reason = "None",
                                !.failures = 0, !.reported = FALSE]
    BY <1>4 DEF ResumeAfterOverload, Between
  <2>2. gate'.recovering = gate.recovering
        /\ gate'.reason # "RepeatedProcessingFailures"
    BY <1>1, <2>1, SMT DEF GateType
  <2>3. spectrum'.hops = spectrum.hops
        /\ spectrum'.emitted = spectrum.emitted
    BY <1>1, <2>1, SMT DEF Resumed, SpectrumType
  <2>4. QED
    BY <2>1, <2>2, <2>3, KeptStream
<1>5. CASE ResetState \/ EndStream
  <2>1. PICK reason : /\ Idle /\ PairUnfed /\ UNCHANGED <<loaded, call>>
                      /\ ResetAudio(resampler, reason, loaded)
    BY <1>5 DEF ResetState, EndStream, Between
  <2>2. PathOf(resampler, loaded) => AsPrimed(resampler)
    BY <1>2, <2>1 DEF PathIsCurrent, PairUnfed, StreamInv, PairInv
  <2>3. QED
    BY <1>1, <1>2, <2>1, <2>2, RestartedStream
<1>6. CASE SetControls
  BY <1>6, KeptStream DEF SetControls, Between, audio
<1>7. ASSUME NEW rate \in Rates, SetFormat(rate)
      PROVE  StreamInv'
  <2> DEFINE stale == loaded /\ (rate # ModelRate \/ resampler.pair # NoRate)
             r == [Invalidated(stale) EXCEPT !.rate = rate]
  <2>1. /\ Idle /\ UNCHANGED <<loaded, call>>
        /\ ResetAudio(r, gate.reason, loaded)
    BY <1>7 DEF SetFormat, Between
  <2>2. stale \in BOOLEAN
    BY Zenon
  <2>3. Invalidated(stale) \in ResamplerType /\ r \in ResamplerType
    BY <1>1, <2>2, InvalidatedType, ResamplerSetters
  <2>4. /\ r.valid = (resampler.valid /\ ~stale)
        /\ r.pair = resampler.pair
        /\ r.inHeld = resampler.inHeld /\ r.outHeld = resampler.outHeld
        /\ r.inPrimed = resampler.inPrimed
        /\ r.outPrimed = resampler.outPrimed
    <3> DEFINE valid == resampler.valid /\ ~stale
    <3>1. r = [[resampler EXCEPT !.valid = valid] EXCEPT !.rate = rate]
      BY DEF Invalidated
    <3> HIDE DEF valid, r, stale
    <3>2. r.valid = valid /\ r.pair = resampler.pair
      /\ r.inHeld = resampler.inHeld /\ r.outHeld = resampler.outHeld
      /\ r.inPrimed = resampler.inPrimed /\ r.outPrimed = resampler.outPrimed
      BY <1>1, <3>1, SMT DEF ResamplerType
    <3>3. QED
      BY <3>2 DEF valid
  <2>5. ~PathOf(r, loaded)
    BY <2>4 DEF PathOf
  <2>6. WithinHoldback(r)
    BY <1>2, <2>4 DEF WithinHoldback
  <2> HIDE DEF r, stale
  <2>7. QED
    BY <1>1, <2>1, <2>3, <2>5, <2>6, RestartedStream
<1>8. ASSUME NEW pair \in Pairs, ReplaceResamplers(pair)
      PROVE  StreamInv'
  <2>1. Idle /\ result' = NoResult /\ UNCHANGED <<loaded, call>>
    BY <1>8 DEF ReplaceResamplers, Between
  <2>2. CASE resampler.pair = NoRate /\ pair = NoPair
    <3>1. /\ resampler' = [resampler EXCEPT !.valid = TRUE]
          /\ UNCHANGED <<lanes, spectrum, gate>>
      BY <1>8, <2>2 DEF ReplaceResamplers
    <3>2. /\ resampler'.rate = resampler.rate
          /\ resampler'.path = resampler.path
          /\ resampler'.pair = resampler.pair
          /\ resampler'.inHeld = resampler.inHeld
          /\ resampler'.outHeld = resampler.outHeld
          /\ resampler'.inPrimed = resampler.inPrimed
          /\ resampler'.outPrimed = resampler.outPrimed
      BY <1>1, <3>1, SMT DEF ResamplerType
    <3>3. ~resampler.path /\ ~PathOf(resampler', loaded')
      BY <1>2, <2>2, <3>2 DEF PathIsCurrent, PathOf
    <3>4. PathIsCurrent' /\ WithinHoldback(resampler')
      <4>1. resampler.path = PathOf(resampler, loaded)
            /\ ~PathOf(resampler, loaded)
        BY <1>2, <3>3 DEF PathIsCurrent
      <4>2. PathOf(resampler', loaded') = PathOf(resampler, loaded)
        BY <2>2, <3>2, Zenon DEF PathOf
      <4>3. PathIsCurrent'
        BY <3>2, <4>1, <4>2 DEF PathIsCurrent
      <4>4. QED
        BY <1>2, <3>2, <4>3 DEF WithinHoldback
    <3>5. QED
      BY <2>1, <3>1, <3>2, <3>3, <3>4, KeptStream
  <2>3. CASE ~(resampler.pair = NoRate /\ pair = NoPair)
    <3>1. ResetAudio(WithPair(resampler, pair), gate.reason, loaded)
      BY <1>8, <2>3 DEF ReplaceResamplers
    <3>2. WithPair(resampler, pair) \in ResamplerType
      BY <1>1, WithPairType
    <3>3. QED
      BY <1>1, <2>1, <3>1, <3>2, FreshPair, RestartedStream
  <2>4. QED
    BY <2>2, <2>3
<1>9. CASE ReleaseInvalidResamplers
  <2>1. /\ Idle /\ result' = NoResult
        /\ UNCHANGED <<lanes, spectrum, loaded, call>>
        /\ gate' = [gate EXCEPT !.rateWarned = FALSE]
        /\ resampler' = Recomputed(WithPair(resampler, NoPair), loaded)
        /\ ~resampler.valid
    BY <1>9 DEF ReleaseInvalidResamplers, Between
  <2>2. NoPair \in Pairs /\ NoPair.pair = NoRate
    BY SMT DEF Pairs, NoPair
  <2> DEFINE r == WithPair(resampler, NoPair)
  <2>3. r \in ResamplerType /\ WithinHoldback(r)
        /\ r.rate = resampler.rate /\ r.pair = NoRate
    BY <1>1, <2>2, WithPairType, FreshPair DEF WithPair
  <2> DEFINE path == PathOf(r, loaded)
  <2>4. path = FALSE
    BY <2>3, Zenon DEF PathOf
  <2>5. resampler' = [r EXCEPT !.path = path]
    BY <2>1 DEF Recomputed
  <2> HIDE DEF r, path
  <2>6. /\ resampler'.path = path /\ resampler'.rate = r.rate
        /\ resampler'.valid = r.valid /\ resampler'.pair = r.pair
        /\ resampler'.inHeld = r.inHeld /\ resampler'.outHeld = r.outHeld
        /\ resampler'.inPrimed = r.inPrimed
        /\ resampler'.outPrimed = r.outPrimed
    BY <2>3, <2>5, SMT DEF ResamplerType
  <2>7. PathIsCurrent' /\ WithinHoldback(resampler')
    BY <2>1, <2>3, <2>6 DEF PathIsCurrent, PathOf, WithinHoldback, path
  <2>8. ~resampler.path /\ ~resampler'.path
    BY <1>2, <2>1, <2>4, <2>6 DEF PathIsCurrent, PathOf
  <2>9. gate'.recovering = gate.recovering /\ gate'.reason = gate.reason
    BY <1>1, <2>1, SMT DEF GateType
  <2>10. QED
    BY <2>1, <2>3, <2>6, <2>7, <2>8, <2>9, KeptStream
<1>10. ASSUME NEW pair \in Pairs, ActivateModel(pair)
       PROVE  StreamInv'
  <2>1. /\ Idle /\ UNCHANGED call /\ loaded' = TRUE
        /\ ResetAudio(WithPair(resampler, pair), "None", TRUE)
    BY <1>10 DEF ActivateModel
  <2> DEFINE isLoaded == TRUE
  <2>2. WithPair(resampler, pair) \in ResamplerType /\ isLoaded \in BOOLEAN
    BY <1>1, WithPairType
  <2>3. /\ ResetAudio(WithPair(resampler, pair), "None", isLoaded)
        /\ loaded' = isLoaded
    BY <2>1
  <2> HIDE DEF isLoaded
  <2>4. QED
    BY <1>1, <2>1, <2>2, <2>3, FreshPair, RestartedStream
<1>11. QED
  BY <1>3, <1>4, <1>5, <1>6, <1>7, <1>8, <1>9, <1>10, OthersPairs

-----------------------------------------------------------------------------
LEMMA StreamStep ==
    ASSUME TypeOK, CallInv, SpectralInv, StreamInv, [Next]_vars
    PROVE  StreamInv'
<1>1. CASE UNCHANGED vars
  BY <1>1 DEF vars, StreamInv, PairInv, PathIsCurrent, QuietInv,
              PassthroughLeavesNothing, LanesInSync, InFlightIn, InFlightOut,
              Idle, Stopped, RateMismatch
<1>2. QED
  BY <1>1, ArriveStream, ContinueStream, OthersStream DEF Next

LEMMA StreamInit ==
    ASSUME Init PROVE StreamInv
<1>1. PICK rate \in Rates :
         resampler = [rate |-> rate, valid |-> TRUE, path |-> FALSE,
                      pair |-> NoRate, inHeld |-> 0, outHeld |-> 0,
                      inPrimed |-> 0, outPrimed |-> 0]
  BY DEF Init
<1>2. ~resampler.path /\ AsPrimed(resampler) /\ WithinHoldback(resampler)
  BY <1>1, ProcessorAssumption, SMT DEF AsPrimed, WithinHoldback
<1>3. PathIsCurrent
  BY <1>1 DEF PathIsCurrent, PathOf, Init
<1>4. lanes = EmptyLanes(0) /\ spectrum = FreshSpectrum(FullDepth)
      /\ call = NoCall /\ result = NoResult /\ gate = FreshGate
  BY DEF Init
<1>5. /\ lanes.taken = 0 /\ lanes.sent = 0 /\ lanes.input = 0
      /\ lanes.output = 0 /\ lanes.dry = 0
      /\ spectrum.hops = 0 /\ spectrum.emitted = 0
  BY <1>4 DEF EmptyLanes, FreshSpectrum
<1>6. LanesInSync
  <2>1. InFlightIn = 0 /\ InFlightOut = 0 /\ Prefill(resampler) = 0
    BY <1>2 DEF InFlightIn, InFlightOut, Prefill
  <2>2. Greatest(0, 0 - Delay) = 0 /\ Hop * 0 = 0
    BY SuppressionAssumption, LanesAssumption, SMT DEF Greatest
  <2>3. QED
    BY <1>5, <2>1, <2>2, SMT DEF LanesInSync
<1>7. QuietInv
  <2>1. call.pc = "idle" /\ result.disposition = "NoCall"
    BY <1>4, NoCallIdle
  <2>2. QED
    BY <1>5, <2>1, SMT DEF QuietInv, Idle, PassthroughLeavesNothing
<1>8. QED
  BY <1>2, <1>3, <1>6, <1>7 DEF StreamInv, PairInv

LEMMA StreamInvariant ==
    Spec => [](TypeOK /\ CallInv /\ SpectralInv /\ StreamInv)
<1>1. Init => TypeOK /\ CallInv /\ SpectralInv /\ StreamInv
  BY TypeInit, SpectralInit, StreamInit
<1>2. TypeOK /\ CallInv /\ SpectralInv /\ StreamInv /\ [Next]_vars
        => (TypeOK /\ CallInv /\ SpectralInv /\ StreamInv)'
  BY TypeStep, SpectralStep, StreamStep
<1>3. QED
  BY <1>1, <1>2, PTL DEF Spec

\* For any model delay, hop, packet sizes and resampler delays, and whatever
\* fails, jumps or is replaced when, process_packet loses and invents no frame
\* and keeps the dry lane exactly the resampler delay behind the voice lane.
THEOREM AlwaysInSync == Spec => []LanesInSync
<1>1. StreamInv => LanesInSync
  BY DEF StreamInv
<1>2. QED
  BY <1>1, StreamInvariant, PTL

\* Audio is passed through untouched only when nothing is buffered, so that
\* nothing of the stream before can follow it.
THEOREM PassthroughIsClean == Spec => []PassthroughLeavesNothing
<1>1. StreamInv => PassthroughLeavesNothing
  BY DEF StreamInv, QuietInv
<1>2. QED
  BY <1>1, StreamInvariant, PTL

\* The cached resample_path_ never differs from what recompute_path would
\* compute, though several methods change its inputs.
THEOREM PathAlwaysCurrent == Spec => []PathIsCurrent
<1>1. StreamInv => PathIsCurrent
  BY DEF StreamInv, PairInv
<1>2. QED
  BY <1>1, StreamInvariant, PTL

-----------------------------------------------------------------------------
(***************************************************************************)
(* The lanes.  What a step does to them, other than taking a packet,       *)
(* running a hop or popping: it empties them, or leaves them alone while   *)
(* no audio is under way.                                                  *)
(***************************************************************************)
Stamped == result.disposition = "Processed"
NonePopped == call.popped = 0 /\ call.missing = 0
Waits == call.pc = "idle" \/ call.pc = "admit"

\* The lanes after reset_audio_state, outside the packet loop.
Emptied ==
    /\ lanes' = EmptyLanes(Prefill(resampler'))
    /\ Waits' /\ NonePopped' /\ ~Stamped'

\* No audio moves.
LanesKept ==
    /\ UNCHANGED lanes
    /\ resampler'.path = resampler.path
    /\ resampler.path => UNCHANGED resampler
    /\ Waits /\ Waits' /\ (NonePopped => NonePopped') /\ ~Stamped'

\* A call that has not reached the pop has popped nothing.
LEMMA CallRecords ==
    /\ NoCall.pc = "idle" /\ NoCall.popped = 0 /\ NoCall.missing = 0
    /\ \A frames : LET c == [NoCall EXCEPT !.pc = "admit", !.frames = frames]
                   IN  c.pc = "admit" /\ c.popped = 0 /\ c.missing = 0
BY SMT DEF NoCall

\* Returning, admitting a packet, or doing something between calls.
LEMMA CallOpens ==
    ASSUME \/ call' = NoCall
           \/ \E frames : Admit(frames)
           \/ Idle /\ UNCHANGED call
    PROVE  Waits' /\ (NonePopped => NonePopped')
<1>1. CASE call' = NoCall
  BY <1>1, CallRecords DEF Waits, NonePopped
<1>2. ASSUME NEW frames, Admit(frames)
      PROVE  Waits' /\ (NonePopped => NonePopped')
  <2>1. call'.pc = "admit" /\ call'.popped = 0 /\ call'.missing = 0
    BY <1>2, CallRecords DEF Admit
  <2>2. QED
    BY <2>1 DEF Waits, NonePopped
<1>3. CASE Idle /\ UNCHANGED call
  BY <1>3 DEF Idle, Waits, NonePopped
<1>4. QED
  BY <1>1, <1>2, <1>3

\* A reset of the lanes outside the packet loop empties them.
LEMMA NoCallEmpties ==
    ASSUME NEW r, NEW reason, NEW isLoaded, ResetAudio(r, reason, isLoaded),
           NonePopped \/ call' = NoCall,
           \/ call' = NoCall
           \/ \E frames : Admit(frames)
           \/ Idle /\ UNCHANGED call,
           result'.disposition # "Processed"
    PROVE  Emptied
<1>1. lanes' = EmptyLanes(Prefill(resampler'))
  BY DEF ResetAudio
<1>2. Waits' /\ NonePopped'
  BY CallOpens, CallRecords DEF NonePopped
<1>3. QED
  BY <1>1, <1>2 DEF Emptied, Stamped

\* A step outside a call that touches neither lanes nor resamplers.
LEMMA NoCallKeeps ==
    ASSUME Waits, UNCHANGED <<lanes, resampler>>,
           \/ call' = NoCall
           \/ \E frames : Admit(frames)
           \/ Idle /\ UNCHANGED call,
           result'.disposition # "Processed"
    PROVE  LanesKept
<1>1. Waits' /\ (NonePopped => NonePopped')
  BY CallOpens
<1>2. QED
  BY <1>1 DEF LanesKept, Stamped

\* Only a processed result carries a stamp.
LEMMA Untold ==
    /\ "Passthrough" # "Processed" /\ "Pending" # "Processed"
    /\ NoResult.disposition # "Processed"
BY SMT DEF NoResult

\* Passing a packet through ends the call.
LEMMA PassedOn ==
    ASSUME NEW g, NEW event, NEW refresh, NEW hops,
           PassThrough(g, event, refresh, hops)
    PROVE  call' = NoCall /\ result'.disposition # "Processed"
BY Untold DEF PassThrough, Return

\* No audio moves between calls and before the admission.
LEMMA IdleBetween ==
    /\ Idle => Waits
    /\ call.pc = "admit" => Waits
BY SMT DEF Idle, Waits

\* A packet turned away empties the lanes the first time, then keeps them.
LEMMA CapacityLanes ==
    ASSUME NEW oversized, CapacityFailure(oversized), Waits
    PROVE  Emptied \/ LanesKept
<1>1. call' = NoCall /\ result'.disposition # "Processed"
  BY PassedOn DEF CapacityFailure
<1>2. CASE gate.recovering
  BY <1>1, <1>2, NoCallKeeps DEF CapacityFailure, audio
<1>3. CASE ~gate.recovering
  BY <1>1, <1>3, NoCallEmpties DEF CapacityFailure
<1>4. QED
  BY <1>2, <1>3

\* The steps of a call that move audio.
Steps ==
    TakeInput \/ DiscardHop \/ EmitHop \/ ReturnPending \/ StartDrain
    \/ DrainInfo \/ EmitPacket

\* Every step empties the lanes, keeps them, or is a step of the audio.
LEMMA LaneSteps ==
    ASSUME TypeOK, CallInv, StreamInv, call.pc # "drain" => NonePopped, Next
    PROVE  Emptied \/ LanesKept \/ Steps
<1>1. CASE Arrive
  <2>1. CASE PassUntouched
    BY <2>1, NoCallKeeps, PassedOn, IdleBetween DEF PassUntouched, audio
  <2>2. ASSUME NEW frames \in Frames, RejectOversized(frames)
        PROVE  Emptied \/ LanesKept
    BY <2>2, CapacityLanes, IdleBetween DEF RejectOversized
  <2>3. ASSUME NEW frames \in Frames, PassRateMismatch(frames)
        PROVE  LanesKept
    BY <2>3, NoCallKeeps, PassedOn, IdleBetween DEF PassRateMismatch, audio
  <2>4. ASSUME NEW frames \in Frames, AcceptTimestamp(frames)
        PROVE  LanesKept
    BY <2>4, NoCallKeeps, Untold, IdleBetween DEF AcceptTimestamp, Admissible
  <2>5. ASSUME NEW frames \in Frames, JumpNative(frames)
        PROVE  Emptied
    <3>1. NonePopped
      BY <2>5, SMT DEF JumpNative, Admissible, Idle
    <3>2. QED
      BY <2>5, <3>1, NoCallEmpties, Untold DEF JumpNative
  <2>6. ASSUME NEW frames \in Frames, JumpResampled(frames)
        PROVE  Emptied
    BY <2>6, NoCallEmpties, PassedOn DEF JumpResampled
  <2>7. QED
    BY <1>1, <2>1, <2>2, <2>3, <2>4, <2>5, <2>6 DEF Arrive
<1>2. CASE Continue
  <2>1. CASE RejectCapacity
    BY <2>1, CapacityLanes, IdleBetween DEF RejectCapacity, Admitting
  <2>2. CASE InputResamplerFails \/ InferenceFails \/ OutputResamplerFails
    <3>1. PICK hops : FailureResult(hops)
      BY <2>2 DEF InputResamplerFails, InferenceFails, OutputResamplerFails
    <3>2. call' = NoCall /\ result'.disposition # "Processed"
      BY <3>1, PassedOn DEF FailureResult
    <3>3. QED
      BY <3>1, <3>2, NoCallEmpties DEF FailureResult
  <2>3. QED
    BY <1>2, <2>1, <2>2 DEF Continue, Steps
<1>3. CASE Others
  <2>1. /\ Idle /\ Waits /\ result'.disposition # "Processed"
        /\ UNCHANGED call /\ Idle
    BY <1>3, Untold, IdleBetween
       DEF Others, Between, DisableForRealtimeOverload, ResumeAfterOverload,
           ResetState, EndStream, SetControls, SetFormat, ReplaceResamplers,
           ReleaseInvalidResamplers, ActivateModel
  <2>10. NonePopped
    BY <2>1, SMT DEF Idle
  <2>2. CASE ResetState \/ EndStream
    BY <2>1, <2>10, <2>2, NoCallEmpties DEF ResetState, EndStream
  <2>3. CASE SetControls \/ DisableForRealtimeOverload
    BY <2>1, <2>3, NoCallKeeps
       DEF SetControls, DisableForRealtimeOverload, audio
  <2>4. CASE ResumeAfterOverload
    BY <2>1, <2>4, NoCallKeeps DEF ResumeAfterOverload
  <2>5. ASSUME NEW rate \in Rates, SetFormat(rate)
        PROVE  Emptied
    BY <2>1, <2>10, <2>5, NoCallEmpties DEF SetFormat
  <2>6. ASSUME NEW pair \in Pairs, ReplaceResamplers(pair)
        PROVE  Emptied \/ LanesKept
    <3>1. CASE resampler.pair = NoRate /\ pair = NoPair
      <4>1. /\ resampler' = [resampler EXCEPT !.valid = TRUE]
            /\ UNCHANGED <<lanes, loaded>>
        BY <2>6, <3>1 DEF ReplaceResamplers
      <4>2. resampler'.path = resampler.path
        BY <4>1, SMT DEF TypeOK, ResamplerType
      <4>3. ~resampler.path
        BY <3>1 DEF StreamInv, PairInv, PathIsCurrent, PathOf
      <4>4. QED
        BY <2>1, <4>1, <4>2, <4>3 DEF LanesKept, Waits, NonePopped, Stamped
    <3>2. CASE ~(resampler.pair = NoRate /\ pair = NoPair)
      BY <2>1, <2>10, <2>6, <3>2, NoCallEmpties DEF ReplaceResamplers
    <3>3. QED
      BY <3>1, <3>2
  <2>7. CASE ReleaseInvalidResamplers
    <3>1. UNCHANGED <<lanes, loaded>> /\ ~resampler.valid
          /\ resampler' = Recomputed(WithPair(resampler, NoPair), loaded)
      BY <2>7 DEF ReleaseInvalidResamplers
    <3>2. ~resampler.path
      BY <3>1 DEF StreamInv, PairInv, PathIsCurrent, PathOf
    <3>3. resampler'.path = resampler.path
      <4> DEFINE r == WithPair(resampler, NoPair)
                 path == PathOf(r, loaded)
      <4>1. r.pair = NoRate
        BY SMT DEF WithPair, NoPair
      <4>2. path = FALSE
        BY <4>1, Zenon DEF PathOf
      <4>3. r \in ResamplerType
        BY WithPairType DEF TypeOK, Pairs
      <4>4. resampler' = [r EXCEPT !.path = path]
        BY <3>1 DEF Recomputed
      <4> HIDE DEF r, path
      <4>5. resampler'.path = path
        BY <4>3, <4>4, SMT DEF ResamplerType
      <4>6. resampler.path \in BOOLEAN
        BY Zenon DEF TypeOK, ResamplerType
      <4>7. QED
        BY <3>2, <4>2, <4>5, <4>6, Zenon
    <3>4. QED
      BY <2>1, <3>1, <3>2, <3>3 DEF LanesKept, Waits, NonePopped, Stamped
  <2>8. ASSUME NEW pair \in Pairs, ActivateModel(pair)
        PROVE  Emptied
    BY <2>1, <2>10, <2>8, NoCallEmpties DEF ActivateModel
  <2>9. QED
    BY <1>3, <2>2, <2>3, <2>4, <2>5, <2>6, <2>7, <2>8, OthersPairs
<1>4. QED
  BY <1>1, <1>2, <1>3 DEF Next

-----------------------------------------------------------------------------
(***************************************************************************)
(* The packet infos, as a chain of packets that ends where the stream has  *)
(* been taken up to.                                                       *)
(***************************************************************************)
Chained(info, end) ==
    /\ info # <<>> => Finish(info[Len(info)]) = end
    /\ \A i \in 1 .. Len(info) :
         /\ Finish(info[i]) + (Len(info) - i) <= end
         /\ i > 1 => info[i].start = Finish(info[i - 1])

\* A packet info ends after it starts.
LEMMA FinishType ==
    ASSUME NEW info \in Seq(Packets), NEW i \in 1 .. Len(info)
    PROVE  /\ info[i].start \in Nat /\ info[i].frames \in Nat \ {0}
           /\ Finish(info[i]) \in Nat
           /\ Finish(info[i]) = info[i].start + info[i].frames
<1>1. info[i] \in Packets
  BY ElementOfSeq
<1>2. info[i].start \in Nat /\ info[i].frames \in Nat \ {0}
  BY <1>1, Zenon DEF Packets
<1>3. QED
  BY <1>2, SMT DEF Finish

\* A new packet goes on where the chain ends.
LEMMA ChainGrows ==
    ASSUME NEW info \in Seq(Packets), NEW end \in Nat,
           NEW frames \in Nat \ {0},
           Chained(info, end)
    PROVE  LET packet == [frames |-> frames, start |-> end]
               more   == Append(info, packet)
           IN  /\ Chained(more, end + frames)
               /\ more # <<>>
               /\ more[1] = IF info = <<>> THEN packet ELSE info[1]
<1> DEFINE packet == [frames |-> frames, start |-> end]
           more   == Append(info, packet)
           n      == Len(info)
<1>1. packet.start = end /\ packet.frames = frames
      /\ Finish(packet) = end + frames
  BY DEF Finish
<1> HIDE DEF packet
<1>2. /\ n \in Nat /\ Len(more) = n + 1 /\ more[n + 1] = packet
      /\ \A i \in 1 .. n : more[i] = info[i]
  BY SMT
<1> HIDE DEF more
<1>3. more # <<>> /\ (info # <<>> <=> n > 0)
  BY <1>2, EmptySeq, SMT
<1>4. Finish(more[Len(more)]) = end + frames
  BY <1>1, <1>2
<1>5. ASSUME NEW i \in 1 .. Len(more)
      PROVE  /\ Finish(more[i]) + (Len(more) - i) <= end + frames
             /\ i > 1 => more[i].start = Finish(more[i - 1])
  <2>1. CASE i = n + 1
    <3>1. Finish(more[i]) + (Len(more) - i) <= end + frames
      BY <1>1, <1>2, <2>1, SMT
    <3>2. i > 1 => more[i].start = Finish(more[i - 1])
      <4>1. ASSUME i > 1 PROVE Finish(more[i - 1]) = end
        <5>1. i - 1 = n /\ n \in 1 .. n /\ n > 0
          BY <1>2, <2>1, <4>1, SMT
        <5>2. Finish(info[n]) = end
          BY <1>3, <5>1 DEF Chained
        <5>3. QED
          BY <1>2, <5>1, <5>2
      <4>2. QED
        BY <1>1, <1>2, <2>1, <4>1
    <3>3. QED
      BY <3>1, <3>2
  <2>2. CASE i # n + 1
    <3>1. i \in 1 .. n /\ more[i] = info[i]
      BY <1>2, <2>2, SMT
    <3>2. Finish(info[i]) \in Nat
      BY <3>1, FinishType
    <3>3. Finish(info[i]) + (n - i) <= end
      BY <3>1 DEF Chained
    <3>4. Finish(more[i]) + (Len(more) - i) <= end + frames
      BY <1>2, <3>1, <3>2, <3>3, SMT
    <3>5. i > 1 => i - 1 \in 1 .. n
      BY <1>2, <3>1, SMT
    <3>6. i > 1 => more[i].start = Finish(more[i - 1])
      BY <1>2, <3>1, <3>5 DEF Chained
    <3>7. QED
      BY <3>4, <3>6
  <2>3. QED
    BY <2>1, <2>2
<1>6. Chained(more, end + frames)
  BY <1>4, <1>5 DEF Chained
<1>7. more[1] = IF info = <<>> THEN packet ELSE info[1]
  <2>1. CASE info = <<>>
    <3>1. n = 0
      BY <1>2, <1>3, <2>1, SMT
    <3>2. n + 1 = 1
      BY <3>1, SMT
    <3>3. QED
      BY <1>2, <2>1, <3>2
  <2>2. CASE info # <<>>
    <3>1. 1 \in 1 .. n
      BY <1>2, <1>3, <2>2, SMT
    <3>2. QED
      BY <1>2, <2>2, <3>1
  <2>3. QED
    BY <2>1, <2>2
<1>8. QED
  BY <1>3, <1>6, <1>7 DEF more, packet

\* Without its first packet the chain starts where that packet ended.
LEMMA ChainShortens ==
    ASSUME NEW info \in Seq(Packets), NEW end \in Nat, info # <<>>,
           Chained(info, end)
    PROVE  /\ Chained(Tail(info), end)
           /\ Finish(info[1]) = IF Tail(info) = <<>> THEN end
                                ELSE Tail(info)[1].start
<1> DEFINE rest == Tail(info)
           n    == Len(info)
<1>1. /\ n \in Nat \ {0} /\ rest \in Seq(Packets) /\ Len(rest) = n - 1
      /\ \A i \in 1 .. n - 1 : rest[i] = info[i + 1]
  BY EmptySeq, HeadTailProperties, SMT
<1> HIDE DEF rest
<1>2. rest # <<>> <=> n > 1
  BY <1>1, EmptySeq, SMT
<1>3. rest # <<>> => Finish(rest[Len(rest)]) = end
  <2>1. SUFFICES ASSUME rest # <<>> PROVE Finish(rest[n - 1]) = end
    BY <1>1
  <2>2. n - 1 \in 1 .. n - 1 /\ (n - 1) + 1 = n
    BY <1>1, <1>2, <2>1, SMT
  <2>3. QED
    BY <1>1, <2>2 DEF Chained
<1>4. ASSUME NEW i \in 1 .. Len(rest)
      PROVE  /\ Finish(rest[i]) + (Len(rest) - i) <= end
             /\ i > 1 => rest[i].start = Finish(rest[i - 1])
  <2>1. /\ i \in 1 .. n - 1 /\ i + 1 \in 1 .. n /\ rest[i] = info[i + 1]
        /\ n - (i + 1) = Len(rest) - i
    BY <1>1, SMT
  <2>2. Finish(info[i + 1]) + (n - (i + 1)) <= end
    BY <2>1 DEF Chained
  <2>3. i > 1 => /\ i - 1 \in 1 .. n - 1 /\ (i - 1) + 1 = i
                 /\ (i + 1) - 1 = i /\ i + 1 > 1
    BY <1>1, <2>1, SMT
  <2>4. i > 1 => info[i + 1].start = Finish(info[i])
    BY <2>1, <2>3 DEF Chained
  <2>5. i > 1 => rest[i - 1] = info[i]
    BY <1>1, <2>3
  <2>6. QED
    BY <2>1, <2>2, <2>4, <2>5
<1>5. Finish(info[1]) = IF rest = <<>> THEN end ELSE rest[1].start
  <2>1. CASE rest = <<>>
    <3>1. n = 1
      BY <1>1, <1>2, <2>1, SMT
    <3>2. QED
      BY <2>1, <3>1 DEF Chained
  <2>2. CASE rest # <<>>
    <3>1. 1 \in 1 .. n - 1 /\ 1 + 1 = 2 /\ 2 \in 1 .. n /\ 2 > 1 /\ 2 - 1 = 1
      BY <1>1, <1>2, <2>2, SMT
    <3>2. info[2].start = Finish(info[2 - 1])
      BY <3>1 DEF Chained
    <3>3. rest[1] = info[2]
      BY <1>1, <3>1
    <3>4. QED
      BY <2>2, <3>1, <3>2, <3>3
  <2>3. QED
    BY <2>1, <2>2
<1>6. QED
  BY <1>3, <1>4, <1>5 DEF Chained, rest

\* The next frame to pop is where the packet in front has been used up to.
NextFrame == lanes.sent + call.popped

\* The front of the queue is where the next frame to pop came in.
FrontNext ==
    /\ lanes.info = <<>> => lanes.taken = NextFrame
    /\ lanes.info # <<>> => lanes.info[1].start + lanes.offset = NextFrame

\* A pop starts where the stream has been sent up to, with something to take.
PopInv ==
    /\ call.pc # "drain" => NonePopped
    /\ call.pc = "drain" =>
         /\ call.start = lanes.sent
         /\ call.popped = 0 => call.missing > 0 /\ lanes.info # <<>>

\* The parts of InfoInv.
LEMMA InfoParts ==
    InfoInv <=> PopInv /\ FrontNext /\ Chained(lanes.info, lanes.taken)
BY DEF InfoInv, PopInv, FrontNext, Chained, NonePopped, NextFrame

\* Empty lanes have an empty queue, and nothing in flight to account for.
LEMMA EmptyInfo ==
    ASSUME Emptied
    PROVE  InfoInv'
<1>1. lanes'.info = <<>> /\ lanes'.taken = 0 /\ lanes'.sent = 0
  BY DEF Emptied, EmptyLanes
<1>2. call'.pc # "drain" /\ call'.popped = 0 /\ call'.missing = 0
  BY SMT DEF Emptied, Waits, NonePopped
<1>3. Len(lanes'.info) = 0
  BY <1>1, EmptySeq
<1>4. ~\E i \in 1 .. Len(lanes'.info) : TRUE
  BY <1>3, SMT
<1>5. lanes'.taken = lanes'.sent + call'.popped
  BY <1>1, <1>2, SMT
<1>6. QED
  BY <1>1, <1>2, <1>4, <1>5 DEF InfoInv

\* Steps that leave the queue of packet infos alone.
LEMMA SameInfo ==
    ASSUME InfoInv, lanes'.info = lanes.info, lanes'.offset = lanes.offset,
           lanes'.taken = lanes.taken, NextFrame' = NextFrame, PopInv'
    PROVE  InfoInv'
<1>1. FrontNext /\ Chained(lanes.info, lanes.taken)
  BY InfoParts
<1>2. FrontNext' /\ Chained(lanes'.info, lanes'.taken)
  BY <1>1 DEF FrontNext
<1>3. InfoInv' <=> PopInv' /\ FrontNext' /\ Chained(lanes'.info, lanes'.taken)
  BY DEF InfoInv, PopInv, FrontNext, Chained, NonePopped, NextFrame
<1>4. QED
  BY <1>2, <1>3

\* A packet taken is appended to the queue.
LEMMA TakeInfo ==
    ASSUME TypeOK, CallInv, InfoInv, TakeInput
    PROVE  InfoInv'
<1>1. lanes \in LanesType /\ call \in CallType /\ resampler \in ResamplerType
  BY DEF TypeOK
<1>2. PICK arrived \in IF resampler.path
                       THEN Deliveries(resampler.inHeld, call.frames)
                       ELSE {call.frames} :
         lanes' = Pushed(lanes, call.frames, arrived)
  BY DEF TakeInput
<1>3. /\ call.pc = "admit" /\ call' = [call EXCEPT !.pc = "hops"]
  BY DEF TakeInput, Admitting
<1>4. call.frames \in Nat \ {0} /\ resampler.inHeld \in Nat
  BY <1>1, <1>3, LanesAssumption, SMT DEF CallInv, Idle, ResamplerType
<1>5. arrived \in Nat
  <2>1. CASE resampler.path
    BY <1>2, <1>4, <2>1, Delivered
  <2>2. CASE ~resampler.path
    BY <1>2, <1>4, <2>2, SMT
  <2>3. QED
    BY <2>1, <2>2
<1>6. /\ lanes'.offset = lanes.offset
      /\ lanes'.taken = lanes.taken + call.frames
      /\ lanes'.info = Append(lanes.info, [frames |-> call.frames,
                                           start |-> lanes.taken])
  BY <1>1, <1>2, <1>4, <1>5, PushedType
<1>7. lanes'.sent = lanes.sent
  BY <1>1, <1>2, SMT DEF Pushed, LanesType
<1>8. call'.pc = "hops" /\ call'.popped = call.popped
      /\ call'.missing = call.missing
  BY <1>1, <1>3, SMT DEF CallType
<1>9. PopInv /\ FrontNext /\ Chained(lanes.info, lanes.taken)
  BY InfoParts
<1>10. PopInv'
  BY <1>3, <1>8, <1>9, SMT DEF PopInv, NonePopped
<1>11. /\ lanes.info \in Seq(Packets) /\ lanes.taken \in Nat
       /\ lanes.offset \in Nat
  BY <1>1, Zenon DEF LanesType
<1>12. /\ Chained(lanes'.info, lanes'.taken) /\ lanes'.info # <<>>
       /\ lanes'.info[1] = IF lanes.info = <<>>
                           THEN [frames |-> call.frames, start |-> lanes.taken]
                           ELSE lanes.info[1]
  BY <1>4, <1>6, <1>9, <1>11, ChainGrows
<1>13. NextFrame' = NextFrame
  BY <1>7, <1>8 DEF NextFrame
<1>14. FrontNext'
  <2>1. CASE lanes.info = <<>>
    <3>1. lanes.offset = 0 /\ lanes.taken = NextFrame
      BY <1>9, <2>1 DEF CallInv, FrontOpen, FrontNext
    <3>2. lanes'.info[1].start = lanes.taken
      BY <1>12, <2>1
    <3>3. lanes'.info[1].start + lanes'.offset = NextFrame'
      BY <1>6, <1>11, <1>13, <3>1, <3>2, SMT
    <3>4. QED
      BY <1>12, <3>3 DEF FrontNext
  <2>2. CASE lanes.info # <<>>
    BY <1>6, <1>9, <1>12, <1>13, <2>2 DEF FrontNext
  <2>3. QED
    BY <2>1, <2>2
<1>15. InfoInv' <=> PopInv' /\ FrontNext' /\ Chained(lanes'.info, lanes'.taken)
  BY DEF InfoInv, PopInv, FrontNext, Chained, NonePopped, NextFrame
<1>16. QED
  BY <1>10, <1>12, <1>14, <1>15

\* A turn of the packet loop uses up a part of the front packet, or retires it.
LEMMA DrainedInfo ==
    ASSUME TypeOK, CallInv, InfoInv, DrainInfo
    PROVE  InfoInv'
<1> DEFINE share == Share(lanes, call.missing)
<1>1. lanes \in LanesType /\ call \in CallType
  BY DEF TypeOK
<1>2. /\ call.pc = "drain" /\ call.missing > 0 /\ lanes.info # <<>>
      /\ lanes' = Drained(lanes, call.missing)
      /\ call' = [call EXCEPT !.missing = call.missing - share,
                              !.popped = call.popped + share]
  BY DEF DrainInfo, MoreToDrain
<1>3. call.missing \in Nat \ {0} /\ call.popped \in Nat
  BY <1>1, <1>2, SMT DEF CallType
<1>4. share \in 1 .. call.missing
  <2>1. lanes.offset < lanes.info[1].frames
    BY <1>2 DEF CallInv, FrontOpen
  <2>2. QED
    BY <1>1, <1>2, <1>3, <2>1, DrainedType
<1>5. PopInv /\ FrontNext /\ Chained(lanes.info, lanes.taken)
  BY InfoParts
<1>6. /\ lanes.info \in Seq(Packets) /\ lanes.taken \in Nat
      /\ lanes.offset \in Nat /\ lanes.sent \in Nat
  BY <1>1, Zenon DEF LanesType
<1>10. /\ share \in Nat /\ lanes.offset \in Nat /\ lanes.sent \in Nat
       /\ call.popped \in Nat
  <2> HIDE DEF share
  <2>1. QED
    BY <1>3, <1>4, <1>6, SMT
<1>7. /\ lanes.info[1].start \in Nat /\ lanes.info[1].frames \in Nat
      /\ Finish(lanes.info[1]) \in Nat
      /\ Finish(lanes.info[1]) = lanes.info[1].start + lanes.info[1].frames
  <2>1. 1 \in 1 .. Len(lanes.info)
    BY <1>2, <1>6, EmptySeq, SMT
  <2>2. QED
    BY <1>6, <2>1, FinishType
<1>8. lanes.info[1].start + lanes.offset = NextFrame
  BY <1>2, <1>5 DEF FrontNext
<1> DEFINE on == lanes.offset + share
<1>9. Drained(lanes, call.missing)
        = IF on = lanes.info[1].frames
          THEN [lanes EXCEPT !.info = Tail(lanes.info), !.offset = 0]
          ELSE [lanes EXCEPT !.offset = on]
  BY DEF Drained
<1> HIDE DEF share
<1>11. /\ call'.pc = "drain" /\ call'.popped = call.popped + share
       /\ call'.start = call.start
  BY <1>1, <1>2, SMT DEF CallType
<1>12. /\ NextFrame \in Nat
       /\ lanes.sent + (call.popped + share) = NextFrame + share
       /\ call.popped + share > 0
  BY <1>3, <1>4, <1>6, SMT DEF NextFrame
<1>13. CASE on = lanes.info[1].frames
  <2>1. lanes' = [lanes EXCEPT !.info = Tail(lanes.info), !.offset = 0]
    BY <1>2, <1>9, <1>13
  <2>2. /\ lanes'.info = Tail(lanes.info) /\ lanes'.offset = 0
        /\ lanes'.taken = lanes.taken /\ lanes'.sent = lanes.sent
    BY <1>1, <2>1, SMT DEF LanesType
  <2>3. /\ Chained(lanes'.info, lanes'.taken)
        /\ Finish(lanes.info[1]) = IF lanes'.info = <<>> THEN lanes.taken
                                   ELSE lanes'.info[1].start
    BY <1>2, <1>5, <1>6, <2>2, ChainShortens
  <2>4. NextFrame' = NextFrame + share
    BY <1>11, <1>12, <2>2 DEF NextFrame
  <2>5. Finish(lanes.info[1]) = NextFrame'
    <3> DEFINE start == lanes.info[1].start
               frames == lanes.info[1].frames
               finish == Finish(lanes.info[1])
    <3>1. /\ start \in Nat /\ frames \in Nat /\ finish \in Nat
          /\ finish = start + frames
          /\ start + lanes.offset = lanes.sent + call.popped
          /\ lanes.offset + share = frames
      BY <1>7, <1>8, <1>13 DEF NextFrame
    <3>4. finish = start + (lanes.offset + share)
      BY <3>1
    <3> HIDE DEF start, frames, finish
    <3>5. start + (lanes.offset + share) = lanes.sent + (call.popped + share)
      BY <1>10, <3>1, SMT
    <3>2. finish = lanes.sent + (call.popped + share)
      BY <3>4, <3>5
    <3>3. QED
      BY <1>11, <2>2, <3>2 DEF NextFrame, finish
  <2>6. FrontNext'
    <3>1. CASE lanes'.info = <<>>
      BY <2>2, <2>3, <2>5, <3>1 DEF FrontNext
    <3>2. CASE lanes'.info # <<>>
      <4>1. lanes'.info[1].start = NextFrame'
        BY <2>3, <2>5, <3>2
      <4>2. NextFrame' \in Nat
        BY <1>4, <1>12, <2>4, SMT
      <4>3. lanes'.info[1].start + lanes'.offset = NextFrame'
        <5> DEFINE start == lanes'.info[1].start
        <5>1. start = NextFrame' /\ lanes'.offset = 0
          BY <2>2, <4>1
        <5> HIDE DEF start
        <5>2. start + lanes'.offset = NextFrame'
          BY <1>3, <1>4, <1>6, <1>11, <2>2, <5>1, SMT DEF NextFrame
        <5>3. QED
          BY <5>2 DEF start
      <4>4. QED
        BY <3>2, <4>3 DEF FrontNext
    <3>3. QED
      BY <3>1, <3>2
  <2>7. PopInv'
    BY <1>2, <1>5, <1>11, <1>12, <2>2, SMT DEF PopInv
  <2>8. InfoInv' <=> PopInv' /\ FrontNext'
                     /\ Chained(lanes'.info, lanes'.taken)
    BY DEF InfoInv, PopInv, FrontNext, Chained, NonePopped, NextFrame
  <2>9. QED
    BY <2>3, <2>6, <2>7, <2>8
<1>14. CASE on # lanes.info[1].frames
  <2>1. lanes' = [lanes EXCEPT !.offset = on]
    BY <1>2, <1>9, <1>14
  <2> HIDE DEF on
  <2>2. /\ lanes'.info = lanes.info /\ lanes'.offset = on
        /\ lanes'.taken = lanes.taken /\ lanes'.sent = lanes.sent
    BY <1>1, <2>1, SMT DEF LanesType
  <2>3. NextFrame' = NextFrame + share
    BY <1>11, <1>12, <2>2 DEF NextFrame
  <2>4. lanes'.info[1].start + lanes'.offset = NextFrame'
    <3> DEFINE start == lanes.info[1].start
    <3>1. start \in Nat /\ start + lanes.offset = lanes.sent + call.popped
      BY <1>7, <1>8 DEF NextFrame
    <3> HIDE DEF start
    <3>2. start + (lanes.offset + share) = lanes.sent + (call.popped + share)
      BY <1>10, <3>1, SMT
    <3>3. QED
      BY <1>11, <2>2, <3>2 DEF NextFrame, start, on
  <2>5. FrontNext'
    BY <1>2, <2>2, <2>4 DEF FrontNext
  <2>6. PopInv'
    BY <1>2, <1>5, <1>11, <1>12, <2>2, SMT DEF PopInv
  <2>7. Chained(lanes'.info, lanes'.taken)
    BY <1>5, <2>2
  <2>8. InfoInv' <=> PopInv' /\ FrontNext'
                     /\ Chained(lanes'.info, lanes'.taken)
    BY DEF InfoInv, PopInv, FrontNext, Chained, NonePopped, NextFrame
  <2>9. QED
    BY <2>5, <2>6, <2>7, <2>8
<1>15. QED
  BY <1>13, <1>14

\* Hops and the ends of a call leave the queue alone.
LEMMA OtherInfo ==
    ASSUME TypeOK, CallInv, InfoInv,
           DiscardHop \/ EmitHop \/ ReturnPending \/ StartDrain \/ EmitPacket
    PROVE  InfoInv'
<1>1. lanes \in LanesType /\ call \in CallType
  BY DEF TypeOK
<1>2. PopInv /\ FrontNext
  BY InfoParts
<1>3. lanes.sent \in Nat /\ call.popped \in Nat
  BY <1>1, Zenon DEF LanesType, CallType
<1>4. CASE DiscardHop \/ EmitHop
  <2>1. PICK n \in Nat : lanes' = Hopped(lanes, n)
    <3>1. CASE DiscardHop
      <4>1. lanes' = Hopped(lanes, 0) /\ 0 \in Nat
        BY <3>1, SMT DEF DiscardHop
      <4>2. QED
        BY <4>1
    <3>2. CASE EmitHop
      <4>1. PICK n \in IF resampler.path
                       THEN Deliveries(resampler.outHeld, Hop)
                       ELSE {Hop} : lanes' = Hopped(lanes, n)
        BY <3>2 DEF EmitHop
      <4>2. n \in Nat
        <5>1. resampler.outHeld \in Nat /\ Hop \in Nat
          BY LanesAssumption, SMT DEF TypeOK, ResamplerType
        <5>2. CASE resampler.path
          BY <4>1, <5>1, <5>2, Delivered
        <5>3. CASE ~resampler.path
          BY <4>1, <5>1, <5>3
        <5>4. QED
          BY <5>2, <5>3
      <4>3. QED
        BY <4>1, <4>2
    <3>3. QED
      BY <1>4, <3>1, <3>2
  <2>2. /\ lanes'.info = lanes.info /\ lanes'.offset = lanes.offset
        /\ lanes'.taken = lanes.taken /\ lanes'.sent = lanes.sent
    BY <1>1, <2>1, SMT DEF Hopped, LanesType
  <2>3. call.pc = "hops" /\ call' = [call EXCEPT !.hops = call.hops + 1]
    BY <1>4 DEF DiscardHop, EmitHop, Hopping
  <2>4. /\ call'.pc = "hops" /\ call'.popped = call.popped
        /\ call'.missing = call.missing
    BY <1>1, <2>3, SMT DEF CallType
  <2>5. PopInv'
    BY <1>2, <2>3, <2>4, SMT DEF PopInv, NonePopped
  <2>6. QED
    BY <2>2, <2>4, <2>5, SameInfo DEF NextFrame
<1>5. CASE ReturnPending
  <2>1. call.pc = "hops" /\ UNCHANGED lanes /\ call' = NoCall
    BY <1>5 DEF ReturnPending, HopsDone, audio, Return
  <2>2. NonePopped /\ NonePopped' /\ call'.pc # "drain"
    BY <1>2, <2>1, CallRecords, SMT DEF PopInv, NonePopped
  <2>3. NextFrame' = NextFrame
    BY <2>1, <2>2 DEF NextFrame, NonePopped
  <2>4. QED
    BY <2>1, <2>2, <2>3, SameInfo DEF PopInv
<1>6. CASE StartDrain
  <2>1. /\ call.pc = "hops" /\ UNCHANGED lanes /\ ~NothingToPop(lanes)
        /\ call' = [call EXCEPT !.pc = "drain", !.missing = Available(lanes),
                                !.start = OutputStart(lanes), !.popped = 0]
    BY <1>6 DEF StartDrain, HopsDone, audio
  <2>2. /\ call'.pc = "drain" /\ call'.missing = Available(lanes)
        /\ call'.start = OutputStart(lanes) /\ call'.popped = 0
    BY <1>1, <2>1, SMT DEF CallType
  <2>3. /\ Available(lanes) # 0 /\ lanes.info # <<>>
        /\ Available(lanes) \in Nat
    BY <1>1, <2>1, AvailableType DEF NothingToPop
  <2>4. call.popped = 0
    BY <1>2, <2>1, SMT DEF PopInv, NonePopped
  <2>5. NextFrame' = NextFrame /\ NextFrame = lanes.sent
    BY <1>3, <2>1, <2>2, <2>4, SMT DEF NextFrame
  <2>6. OutputStart(lanes) = lanes.sent
    BY <1>2, <2>3, <2>5 DEF OutputStart, FrontNext
  <2>7. call'.missing > 0
    BY <2>2, <2>3, SMT
  <2>8. PopInv'
    BY <2>1, <2>2, <2>3, <2>6, <2>7 DEF PopInv
  <2>9. QED
    BY <2>1, <2>5, <2>8, SameInfo
<1>7. CASE EmitPacket
  <2>1. lanes' = Popped(lanes, call.popped) /\ call' = NoCall
    BY <1>7 DEF EmitPacket, Return
  <2>2. /\ lanes'.info = lanes.info /\ lanes'.offset = lanes.offset
        /\ lanes'.taken = lanes.taken
        /\ lanes'.sent = lanes.sent + call.popped
    BY <1>1, <2>1, SMT DEF Popped, LanesType
  <2>3. NonePopped' /\ call'.pc # "drain"
    BY <2>1, CallRecords, SMT DEF NonePopped
  <2>4. NextFrame' = NextFrame
    BY <1>3, <2>2, <2>3, SMT DEF NextFrame, NonePopped
  <2>5. QED
    BY <2>2, <2>3, <2>4, SameInfo DEF PopInv
<1>8. QED
  BY <1>4, <1>5, <1>6, <1>7

\* Every step keeps the queue a chain from the next frame to the last.
LEMMA InfoStep ==
    ASSUME TypeOK, CallInv, StreamInv, InfoInv, [Next]_vars
    PROVE  InfoInv'
<1>1. CASE UNCHANGED vars
  BY <1>1 DEF vars, InfoInv
<1>2. CASE Emptied
  BY <1>2, EmptyInfo
<1>3. CASE LanesKept
  <2>1. /\ UNCHANGED lanes /\ NonePopped /\ NonePopped'
        /\ call'.pc # "drain"
    BY <1>3, SMT DEF LanesKept, Waits, InfoInv, NonePopped
  <2>2. QED
    BY <2>1, SameInfo DEF NextFrame, NonePopped, PopInv
<1>4. CASE Steps
  BY <1>4, TakeInfo, DrainedInfo, OtherInfo DEF Steps
<1>5. QED
  <2>1. call.pc # "drain" => NonePopped
    BY DEF InfoInv, NonePopped
  <2>2. QED
    BY <1>1, <1>2, <1>3, <1>4, <2>1, LaneSteps

\* The stamp of an output packet is where its first dry frame came in.
LEMMA StampedStep ==
    ASSUME TypeOK, CallInv, SpectralInv, StreamInv, InfoInv, OutputStamped,
           [Next]_vars
    PROVE  OutputStamped'
<1>1. CASE UNCHANGED vars
  BY <1>1 DEF vars, OutputStamped
<1>2. CASE Emptied \/ LanesKept
  BY <1>2 DEF Emptied, LanesKept, Stamped, OutputStamped
<1>3. CASE TakeInput \/ DiscardHop \/ EmitHop \/ StartDrain \/ DrainInfo
  <2>1. ~Idle /\ UNCHANGED result
    BY <1>3, SMT DEF TakeInput, Admitting, DiscardHop, EmitHop, Hopping,
                StartDrain, HopsDone, DrainInfo, Idle
  <2>2. result.disposition # "Processed"
    <3>1. result.disposition = "NoCall"
      BY <2>1, InCall
    <3>2. QED
      BY <3>1, SMT
  <2>3. QED
    BY <2>1, <2>2 DEF OutputStamped
<1>4. CASE ReturnPending
  BY <1>4, Untold DEF ReturnPending, Return, OutputStamped
<1>5. CASE EmitPacket
  <2> DEFINE latency == Latency(resampler)
             stamp == call.start - latency
  <2>1. /\ call.pc = "drain" /\ ~MoreToDrain
        /\ lanes' = Popped(lanes, call.popped) /\ UNCHANGED resampler
        /\ Return(gate, "Processed", "None", FALSE, call.hops, call.popped,
                  stamp)
    BY <1>5 DEF EmitPacket
  <2>2. /\ lanes \in LanesType /\ call \in CallType
        /\ resampler \in ResamplerType
    BY DEF TypeOK
  <2>3. /\ lanes.sent \in Nat /\ lanes.taken \in Nat /\ lanes.dry \in Nat
        /\ call.popped \in Nat /\ call.missing \in Nat /\ call.start \in Nat
    BY <2>2, Zenon DEF LanesType, CallType
  <2>4. call.popped > 0 /\ call.start = lanes.sent
    <3>1. /\ call.start = lanes.sent
          /\ call.popped = 0 => call.missing > 0 /\ lanes.info # <<>>
      BY <2>1 DEF InfoInv
    <3>2. call.popped # 0
      BY <2>1, <3>1 DEF MoreToDrain
    <3>3. QED
      BY <2>3, <3>1, <3>2, SMT
  <2>5. result'.frames = call.popped /\ result'.start = stamp
    <3> HIDE DEF stamp
    <3>1. QED
      BY <2>1 DEF Return
  <2>6. /\ latency \in Nat /\ latency = Prefill(resampler)
        /\ lanes.dry = latency + lanes.taken - lanes.sent
    BY <2>2, PrefillType DEF Latency, Prefill, StreamInv, LanesInSync
  <2>7. lanes'.dry = lanes.dry - call.popped /\ lanes'.taken = lanes.taken
    BY <2>1, <2>2, SMT DEF Popped, LanesType
  <2> HIDE DEF latency
  <2>8. (call.start - latency) + call.popped = lanes'.taken - lanes'.dry
    BY <2>3, <2>4, <2>6, <2>7, SMT
  <2>9. QED
    BY <2>4, <2>5, <2>8 DEF OutputStamped
<1>6. QED
  <2>1. call.pc # "drain" => NonePopped
    BY DEF InfoInv, NonePopped
  <2>2. QED
    BY <1>1, <1>2, <1>3, <1>4, <1>5, <2>1, LaneSteps DEF Steps

-----------------------------------------------------------------------------
(***************************************************************************)
(* Frames and resamplers together: where the frames are that were taken    *)
(* and not yet sent.                                                       *)
(***************************************************************************)
\* Zeros of the probe still counted in what the pair holds.
Primed == IF resampler.path THEN resampler.inPrimed + resampler.outPrimed
          ELSE 0
\* Frames the hops have consumed and not yet emitted.
Behind == Hop * spectrum.hops - Hop * spectrum.emitted

\* The output is as many hops behind as the model delays, or fewer at first.
LEMMA HopsBehind ==
    ASSUME NEW h \in Nat, NEW e \in Nat, e = Greatest(0, h - Delay)
    PROVE  Hop * h - Hop * e \in 0 .. Delay * Hop
<1>1. /\ Delay \in Nat /\ Hop \in Nat /\ Delay * Hop \in Nat
      /\ Hop * Delay = Delay * Hop
  BY SuppressionAssumption, LanesAssumption, SMT
<1>2. h - e \in 0 .. Delay
  BY <1>1, SMT DEF Greatest
<1>3. PICK d \in 0 .. Delay : h = e + d
  <2>1. h = e + (h - e)
    BY <1>2, SMT
  <2>2. QED
    BY <1>2, <2>1
<1>4. PICK rest \in Nat : Delay = d + rest
  <2>1. Delay - d \in Nat /\ Delay = d + (Delay - d)
    BY <1>1, <1>3, SMT
  <2>2. QED
    BY <2>1
<1>5. Hop * h = Hop * e + Hop * d /\ Hop * Delay = Hop * d + Hop * rest
      /\ Hop * e \in Nat /\ Hop * d \in Nat /\ Hop * rest \in Nat
  BY <1>1, <1>3, <1>4, SMT
<1> DEFINE a == Hop * h  b == Hop * e  c == Hop * d  f == Hop * rest
           t == Delay * Hop
<1>6. a = b + c /\ t = c + f /\ b \in Nat /\ c \in Nat /\ f \in Nat
  BY <1>1, <1>5
<1> HIDE DEF a, b, c, f, t
<1>7. a - b \in 0 .. t
  BY <1>6, SMT
<1>8. QED
  BY <1>7 DEF a, b, t

\* Where the frames are that were taken and not sent.
Balanced ==
    /\ Held \in Nat /\ Primed \in Nat /\ Primed <= Slop /\ Slop \in Nat
    /\ Held <= Slop
    /\ Behind \in 0 .. Delay * Hop /\ Delay * Hop \in Nat
    /\ lanes.input \in Nat /\ lanes.output \in Nat
    /\ lanes.taken \in Nat /\ lanes.sent \in Nat /\ lanes.dry \in Nat
    /\ InLane = lanes.input + lanes.output + Held
    /\ lanes.taken + Primed = lanes.sent + InLane + Behind
    /\ Prefill(resampler) = IF resampler.path THEN Primed + PeakDelay ELSE 0
    /\ lanes.dry = Prefill(resampler) + lanes.taken - lanes.sent

\* What was taken and not sent is in the voice lane or in the model.
LEMMA Balance ==
    ASSUME TypeOK, StreamInv
    PROVE  Balanced
<1>1. /\ lanes \in LanesType /\ resampler \in ResamplerType
      /\ spectrum.hops \in Nat /\ spectrum.emitted \in Nat
  BY SMT DEF TypeOK, SpectrumType
<1>2. /\ lanes.input \in Nat /\ lanes.output \in Nat /\ lanes.taken \in Nat
      /\ lanes.sent \in Nat /\ lanes.dry \in Nat
      /\ resampler.inHeld \in Nat /\ resampler.outHeld \in Nat
      /\ resampler.inPrimed \in Nat /\ resampler.outPrimed \in Nat
      /\ resampler.path \in BOOLEAN
  BY <1>1, Zenon DEF LanesType, ResamplerType
<1>3. /\ resampler.inHeld <= Holdback /\ resampler.outHeld <= Holdback
      /\ resampler.inPrimed <= Holdback /\ resampler.outPrimed <= Holdback
  BY DEF StreamInv, PairInv, WithinHoldback
<1>4. Holdback \in Nat /\ PeakDelay \in Nat
  BY ProcessorAssumption
<1>5. /\ Held \in Nat /\ Primed \in Nat /\ Primed <= Slop /\ Held <= Slop
      /\ Slop \in Nat
  BY <1>2, <1>3, <1>4, SMT DEF Held, Primed, Slop
<1>6. LanesInSync
  BY DEF StreamInv
<1>7. Behind \in 0 .. Delay * Hop
  BY <1>1, <1>6, HopsBehind DEF Behind, LanesInSync
<1>8. InFlightIn + InFlightOut = Held - Primed
      /\ InFlightIn \in Int /\ InFlightOut \in Int
  BY <1>2, SMT DEF InFlightIn, InFlightOut, Held, Primed
<1>9. lanes.taken + Primed = lanes.sent + InLane + Behind
  <2> DEFINE a == Hop * spectrum.hops  b == Hop * spectrum.emitted
  <2>1. a \in Nat /\ b \in Nat
    BY <1>1, HopProduct
  <2>2. /\ lanes.taken = InFlightIn + lanes.input + a
        /\ b = InFlightOut + lanes.output + lanes.sent
        /\ Behind = a - b
    BY <1>6 DEF LanesInSync, Behind
  <2> HIDE DEF a, b
  <2>3. QED
    BY <1>2, <1>5, <1>8, <2>1, <2>2, SMT DEF InLane
<1>10. Prefill(resampler) = IF resampler.path THEN Primed + PeakDelay ELSE 0
  BY DEF Prefill, ProbeDelay, Primed
<1>11. Delay * Hop \in Nat
  BY SuppressionAssumption, LanesAssumption, SMT
<1>12. QED
  BY <1>1, <1>2, <1>5, <1>6, <1>7, <1>9, <1>10, <1>11
     DEF Balanced, InLane, LanesInSync

\* The same after a step.
LEMMA BalanceNext == (TypeOK /\ StreamInv)' => Balanced'
<1>1. TypeOK /\ StreamInv => Balanced
  BY Balance
<1>2. QED
  BY <1>1, PTL

-----------------------------------------------------------------------------
(***************************************************************************)
(* How much is under way.                                                  *)
(***************************************************************************)
\* Window, hop and packet are at least one frame.
LEMMA WindowType == Window \in Nat /\ Window > 0 /\ Hop \in Nat /\ Hop > 0
                    /\ MaxPacket \in Nat /\ MaxPacket > 0
BY LanesAssumption, SMT DEF Window

\* Nothing waits but input short of a window, or as much as was primed.
LEMMA LoadAtRest ==
    ASSUME TypeOK', StreamInv', lanes'.input < Window,
           \/ lanes'.output = 0
           \/ lanes'.taken = lanes'.sent
    PROVE  InLane' < Window + Slop'
<1>1. Balanced'
  BY BalanceNext
<1>2. /\ Held' \in Nat /\ Held' <= Slop' /\ Slop' \in Nat
      /\ Primed' \in Nat /\ Primed' <= Slop'
      /\ lanes'.input \in Nat /\ lanes'.output \in Nat
      /\ lanes'.taken \in Nat /\ lanes'.sent \in Nat
      /\ InLane' = lanes'.input + lanes'.output + Held'
      /\ lanes'.taken + Primed' = lanes'.sent + InLane' + Behind'
      /\ Behind' \in Nat
  <2>1. Behind' \in 0 .. Delay * Hop /\ Delay * Hop \in Nat
    BY <1>1 DEF Balanced
  <2> DEFINE top == Delay * Hop
             behind == Behind'
  <2>2. behind \in 0 .. top /\ top \in Nat
    BY <2>1
  <2> HIDE DEF top, behind
  <2>3. behind \in Nat
    BY <2>2, SMT
  <2>4. QED
    BY <1>1, <2>3 DEF Balanced, behind
<1> DEFINE held == Held'  primed == Primed'  slop == Slop'
           inLane == InLane'  behind == Behind'
<1>3. /\ held \in Nat /\ held <= slop /\ slop \in Nat
      /\ primed \in Nat /\ primed <= slop
      /\ inLane = lanes'.input + lanes'.output + held
      /\ lanes'.taken + primed = lanes'.sent + inLane + behind
      /\ behind \in Nat
  BY <1>2
<1> HIDE DEF held, primed, slop, inLane, behind
<1>4. inLane < Window + slop
  BY <1>2, <1>3, WindowType, SMT
<1>5. QED
  BY <1>4 DEF inLane, slop

\* The load of the voice lane is a count of frames.
LEMMA HeldFrames ==
    ASSUME TypeOK, StreamInv
    PROVE  /\ Held \in Nat /\ InLane \in Nat /\ Slop \in Nat
           /\ InLane = lanes.input + lanes.output + Held
           /\ lanes.input \in Nat /\ lanes.output \in Nat
<1>1. Balanced
  BY Balance
<1>2. /\ Held \in Nat /\ Slop \in Nat
      /\ InLane = lanes.input + lanes.output + Held
      /\ lanes.input \in Nat /\ lanes.output \in Nat
  BY <1>1 DEF Balanced
<1> DEFINE held == Held
           inLane == InLane
<1>3. held \in Nat /\ inLane = lanes.input + lanes.output + held
  BY <1>2
<1> HIDE DEF held, inLane
<1>4. inLane \in Nat
  BY <1>2, <1>3, SMT
<1>5. QED
  BY <1>2, <1>4 DEF inLane

\* A packet taken adds its own length to the load.
LEMMA TakeLoad ==
    ASSUME TypeOK, CallInv, StreamInv, LoadInv, TakeInput
    PROVE  LoadInv'
<1>1. resampler \in ResamplerType /\ lanes \in LanesType /\ call \in CallType
  BY DEF TypeOK
<1>2. PICK arrived \in IF resampler.path
                       THEN Deliveries(resampler.inHeld, call.frames)
                       ELSE {call.frames} :
         /\ lanes'     = Pushed(lanes, call.frames, arrived)
         /\ resampler' = FedInput(resampler, call.frames, arrived)
  BY DEF TakeInput
<1>3. call.pc = "admit" /\ call' = [call EXCEPT !.pc = "hops"]
  BY DEF TakeInput, Admitting
<1>4. call'.pc = "hops" /\ call'.frames = call.frames
  BY <1>1, <1>3, SMT DEF CallType
<1>5. /\ call.frames \in Nat \ {0} /\ resampler.inHeld \in Nat
      /\ resampler.outHeld \in Nat /\ resampler.path \in BOOLEAN
      /\ lanes.input \in Nat /\ lanes.output \in Nat
  BY <1>1, <1>3, LanesAssumption, SMT
     DEF CallInv, Idle, ResamplerType, LanesType
<1>6. /\ arrived \in Nat /\ resampler.inHeld + call.frames - arrived \in Nat
      /\ ~resampler.path => arrived = call.frames
  <2>1. CASE resampler.path
    BY <1>2, <1>5, <2>1, Delivered
  <2>2. CASE ~resampler.path
    BY <1>2, <1>5, <2>2, SMT
  <2>3. QED
    BY <2>1, <2>2
<1> DEFINE held == resampler.inHeld + call.frames - arrived
<1>7. /\ resampler'.inHeld = held /\ resampler'.outHeld = resampler.outHeld
      /\ resampler'.path = resampler.path
  <2>1. resampler' = [resampler EXCEPT !.inHeld = held]
    BY <1>2 DEF FedInput
  <2> HIDE DEF held
  <2>2. QED
    BY <1>1, <2>1, SMT DEF ResamplerType
<1>8. lanes'.input = lanes.input + arrived /\ lanes'.output = lanes.output
  BY <1>1, <1>2, SMT DEF Pushed, LanesType
<1>9. InLane' = InLane + call.frames
  BY <1>5, <1>6, <1>7, <1>8, SMT DEF InLane, Held
<1>10. Slop' = Slop /\ Slop \in Nat /\ InLane \in Nat
  BY <1>7, HeldFrames DEF Slop
<1>11. InLane < Window + Slop
  BY <1>3, SMT DEF LoadInv
<1>12. InLane' < Window + Slop' + call'.frames
  <2> DEFINE before == InLane  after == InLane'  slop == Slop
  <2>1. /\ after = before + call.frames /\ before < Window + slop
        /\ before \in Nat /\ slop \in Nat
    BY <1>9, <1>10, <1>11
  <2> HIDE DEF before, after, slop
  <2>2. after < Window + slop + call.frames
    BY <1>5, <2>1, WindowType, SMT
  <2>3. QED
    BY <1>4, <1>10, <2>2 DEF after, slop
<1>13. QED
  BY <1>4, <1>12, SMT DEF LoadInv

\* A hop moves frames on; what it feeds to a resampler is held or comes out.
LEMMA MovedThrough ==
    ASSUME NEW i \in Nat, NEW o \in Nat, NEW a \in Nat, NEW b \in Nat,
           NEW c \in Nat, NEW n \in Nat, NEW fed \in Nat, NEW hop \in Nat,
           c + n = b + fed
    PROVE  /\ ((i - hop) + (o + n) + (a + c)) + hop = (i + o + (a + b)) + fed
           /\ (i - hop) + (o + n) + (a + c) \in Int
BY SMT

\* A hop never adds to the load.
LEMMA HopLoad ==
    ASSUME TypeOK, CallInv, SpectralInv, StreamInv, LoadInv,
           DiscardHop \/ EmitHop
    PROVE  LoadInv'
<1>1. resampler \in ResamplerType /\ lanes \in LanesType /\ call \in CallType
  BY DEF TypeOK
<1>2. call.pc = "hops" /\ HopReady(lanes)
      /\ call' = [call EXCEPT !.hops = call.hops + 1]
  BY DEF DiscardHop, EmitHop, Hopping
<1>3. call'.pc = "hops" /\ call'.frames = call.frames
  BY <1>1, <1>2, SMT DEF CallType
<1>4. PICK n \in Nat, fed \in 0 .. Hop :
        /\ lanes' = Hopped(lanes, n)
        /\ resampler.outHeld + fed - n \in Nat
        /\ resampler' = [resampler EXCEPT !.outHeld = resampler.outHeld + fed - n]
        /\ ~resampler.path => n = fed
  <2>1. 0 \in 0 .. Hop /\ Hop \in 0 .. Hop /\ Hop \in Nat
        /\ resampler.outHeld \in Nat
    BY <1>1, LanesAssumption, SMT DEF ResamplerType
  <2>2. CASE DiscardHop
    <3>1. lanes' = Hopped(lanes, 0) /\ resampler' = resampler
      BY <2>2 DEF DiscardHop
    <3>2. 0 \in Nat /\ resampler.outHeld + 0 - 0 = resampler.outHeld
      BY <2>1, SMT
    <3>3. resampler' = [resampler EXCEPT !.outHeld = resampler.outHeld]
      BY <1>1, <3>1, SMT DEF ResamplerType
    <3>4. QED
      BY <2>1, <3>1, <3>2, <3>3
  <2>3. CASE EmitHop
    <3>1. PICK n \in IF resampler.path THEN Deliveries(resampler.outHeld, Hop)
                     ELSE {Hop} :
             /\ lanes' = Hopped(lanes, n)
             /\ resampler' = FedOutput(resampler, n)
      BY <2>3 DEF EmitHop
    <3>2. /\ n \in Nat /\ resampler.outHeld + Hop - n \in Nat
          /\ ~resampler.path => n = Hop
      <4>1. CASE resampler.path
        BY <2>1, <3>1, <4>1, Delivered
      <4>2. CASE ~resampler.path
        BY <2>1, <3>1, <4>2, SMT
      <4>3. QED
        BY <4>1, <4>2
    <3>3. resampler' = [resampler EXCEPT !.outHeld = resampler.outHeld + Hop - n]
      BY <3>1 DEF FedOutput
    <3>4. QED
      BY <2>1, <3>1, <3>2, <3>3
  <2>4. QED
    BY <2>2, <2>3
<1> DEFINE held == resampler.outHeld + fed - n
<1>5. /\ resampler'.outHeld = held /\ resampler'.inHeld = resampler.inHeld
      /\ resampler'.path = resampler.path
  <2>1. resampler' = [resampler EXCEPT !.outHeld = held]
    BY <1>4
  <2> HIDE DEF held
  <2>2. QED
    BY <1>1, <2>1, SMT DEF ResamplerType
<1>6. lanes'.input = lanes.input - Hop /\ lanes'.output = lanes.output + n
  BY <1>1, <1>4, SMT DEF Hopped, LanesType
<1>7. /\ resampler.inHeld \in Nat /\ resampler.outHeld \in Nat
      /\ resampler.path \in BOOLEAN /\ call.frames \in Nat
      /\ lanes.input \in Nat /\ lanes.output \in Nat
  BY <1>1, Zenon DEF ResamplerType, LanesType, CallType
<1>8. InLane' + Hop = InLane + fed /\ InLane' \in Int
  <2> HIDE DEF held
  <2>1. held \in Nat /\ held + n = resampler.outHeld + fed /\ fed \in Nat
        /\ n \in Nat
    BY <1>4, <1>7, WindowType, SMT DEF held
  <2>3. CASE resampler.path
    <3>1. /\ InLane = lanes.input + lanes.output
                        + (resampler.inHeld + resampler.outHeld)
          /\ InLane' = (lanes.input - Hop) + (lanes.output + n)
                         + (resampler.inHeld + held)
      BY <1>5, <1>6, <2>3 DEF InLane, Held
    <3> DEFINE i == lanes.input  o == lanes.output
               a == resampler.inHeld  b == resampler.outHeld
    <3>2. /\ i \in Nat /\ o \in Nat /\ a \in Nat /\ b \in Nat
          /\ held \in Nat /\ n \in Nat /\ fed \in Nat /\ Hop \in Nat
          /\ held + n = b + fed
          /\ InLane = i + o + (a + b)
          /\ InLane' = (i - Hop) + (o + n) + (a + held)
      BY <1>7, <2>1, <3>1, WindowType
    <3> HIDE DEF i, o, a, b
    <3>4. /\ ((i - Hop) + (o + n) + (a + held)) + Hop = (i + o + (a + b)) + fed
          /\ (i - Hop) + (o + n) + (a + held) \in Int
      BY <3>2, MovedThrough, SMT
    <3>3. QED
      BY <3>2, <3>4
  <2>4. CASE ~resampler.path
    <3>1. /\ InLane = lanes.input + lanes.output + 0
          /\ InLane' = (lanes.input - Hop) + (lanes.output + fed) + 0
      BY <1>4, <1>5, <1>6, <2>4 DEF InLane, Held
    <3> DEFINE before == InLane  after == InLane'
    <3>2. /\ before = lanes.input + lanes.output + 0
          /\ after = (lanes.input - Hop) + (lanes.output + fed) + 0
      BY <3>1
    <3> HIDE DEF before, after
    <3>3. after + Hop = before + fed /\ after \in Int
      BY <1>7, <2>1, <3>2, WindowType, SMT
    <3>4. QED
      BY <3>3 DEF before, after
  <2>5. QED
    BY <2>3, <2>4
<1>9. Slop' = Slop /\ Slop \in Nat /\ InLane \in Nat
  BY <1>5, HeldFrames DEF Slop
<1>10. InLane < Window + Slop + call.frames
  BY <1>2, SMT DEF LoadInv
<1>11. InLane' < Window + Slop' + call'.frames
  <2> DEFINE before == InLane  after == InLane'  slop == Slop
  <2>1. /\ after + Hop = before + fed /\ before < Window + slop + call.frames
        /\ before \in Nat /\ slop \in Nat /\ after \in Int
    BY <1>8, <1>9, <1>10
  <2> HIDE DEF before, after, slop
  <2>2. after < Window + slop + call.frames
    BY <1>4, <1>7, <2>1, WindowType, SMT
  <2>3. QED
    BY <1>3, <1>9, <2>2 DEF after, slop
<1>12. QED
  BY <1>3, <1>11, SMT DEF LoadInv

\* The dry lane never has less than the voice lane could pop.
LEMMA DryCovers ==
    ASSUME TypeOK, StreamInv
    PROVE  lanes.output <= lanes.dry /\ Available(lanes) <= lanes.dry
<1>1. Balanced /\ lanes \in LanesType
  BY Balance DEF TypeOK
<1> DEFINE held == Held  primed == Primed  prefill == Prefill(resampler)
           inLane == InLane  behind == Behind  top == Delay * Hop
<1>2. /\ held \in Nat /\ primed \in Nat /\ behind \in 0 .. top /\ top \in Nat
      /\ lanes.input \in Nat /\ lanes.output \in Nat /\ lanes.taken \in Nat
      /\ lanes.sent \in Nat /\ lanes.dry \in Nat
      /\ inLane = lanes.input + lanes.output + held
      /\ lanes.taken + primed = lanes.sent + inLane + behind
      /\ lanes.dry = prefill + lanes.taken - lanes.sent
  BY <1>1 DEF Balanced
<1>3. prefill = primed \/ prefill = primed + PeakDelay
  BY <1>1 DEF Balanced, Primed
<1>4. PeakDelay \in Nat
  BY ProcessorAssumption
<1> HIDE DEF held, primed, prefill, inLane, behind, top
<1>5. lanes.output <= lanes.dry
  BY <1>2, <1>3, <1>4, SMT
<1>6. Available(lanes) \in Nat /\ Available(lanes) <= lanes.output
  BY <1>1, AvailableType
<1>7. QED
  BY <1>2, <1>5, <1>6, SMT

\* A call that sends nothing leaves nothing that could have been sent.
LEMMA PendingLoad ==
    ASSUME TypeOK, CallInv, StreamInv, InfoInv, TypeOK', StreamInv',
           ReturnPending
    PROVE  LoadInv'
<1>1. /\ call.pc = "hops" /\ ~HopReady(lanes) /\ NothingToPop(lanes)
      /\ UNCHANGED lanes /\ call' = NoCall
  BY DEF ReturnPending, HopsDone, audio, Return
<1>2. lanes \in LanesType /\ lanes.input \in Nat /\ lanes.output \in Nat
  BY Zenon DEF TypeOK, LanesType
<1>3. lanes.input < Window
  BY <1>1, <1>2, WindowType, SMT DEF HopReady
<1>4. Available(lanes) \in Nat /\ Available(lanes) <= lanes.dry
      /\ lanes.dry \in Nat
  BY <1>2, DryCovers, AvailableType, Zenon DEF LanesType
<1>5. CASE Available(lanes) = 0
  <2>1. lanes.output = 0
    BY <1>2, <1>5, WindowType, SMT DEF Available, Shorter
  <2>2. QED
    BY <1>1, <1>3, <2>1, LoadAtRest, NoCallIdle, SMT DEF LoadInv
<1>6. CASE lanes.info = <<>>
  <2>1. NonePopped /\ FrontNext
    BY <1>1, InfoParts, SMT DEF PopInv
  <2>2. lanes.taken = lanes.sent
    BY <1>2, <1>6, <2>1, SMT DEF FrontNext, NonePopped, NextFrame, LanesType
  <2>3. QED
    BY <1>1, <1>3, <2>2, LoadAtRest, NoCallIdle, SMT DEF LoadInv
<1>7. QED
  BY <1>1, <1>4, <1>5, <1>6, SMT DEF NothingToPop

\* A packet sent is all that was ready, or as long as any packet taken.
LEMMA EmittedLoad ==
    ASSUME TypeOK, CallInv, StreamInv, InfoInv, LoadInv, TypeOK', StreamInv',
           EmitPacket
    PROVE  LoadInv'
<1>1. /\ call.pc = "drain" /\ ~MoreToDrain
      /\ lanes' = Popped(lanes, call.popped) /\ call' = NoCall
      /\ UNCHANGED resampler
  BY DEF EmitPacket, Return
<1>2. /\ lanes \in LanesType /\ call \in CallType
      /\ lanes.input \in Nat /\ lanes.output \in Nat
      /\ lanes.taken \in Nat /\ lanes.sent \in Nat
      /\ call.popped \in Nat /\ call.missing \in Nat
  BY Zenon DEF TypeOK, LanesType, CallType
<1>3. /\ lanes'.input = lanes.input
      /\ lanes'.output = lanes.output - call.popped
      /\ lanes'.taken = lanes.taken /\ lanes'.sent = lanes.sent + call.popped
  BY <1>1, <1>2, SMT DEF Popped, LanesType
<1>4. lanes'.input < Window
  BY <1>1, <1>3, SMT DEF LoadInv
<1>5. /\ call.popped + call.missing = Available(lanes)
      /\ call.frames \in 1 .. MaxPacket
  BY <1>1, SMT DEF CallInv, Idle
<1>6. CASE call.missing > 0
  <2>1. lanes.info = <<>>
    BY <1>1, <1>6 DEF MoreToDrain
  <2>2. lanes.taken = lanes.sent + call.popped
    BY <2>1 DEF InfoInv
  <2>3. QED
    BY <1>1, <1>3, <1>4, <2>2, LoadAtRest, NoCallIdle, SMT DEF LoadInv
<1>7. CASE call.popped = lanes.output
  <2>1. lanes'.output = 0
    BY <1>2, <1>3, <1>7, SMT
  <2>2. QED
    BY <1>1, <1>4, <2>1, LoadAtRest, NoCallIdle, SMT DEF LoadInv
<1>8. CASE call.popped = MaxPacket
  <2> DEFINE held == Held  slop == Slop  inLane == InLane
  <2>1. held \in Nat /\ slop \in Nat /\ inLane \in Nat
        /\ inLane = lanes.input + lanes.output + held
    BY HeldFrames
  <2>2. inLane < Window + slop + call.frames
    BY <1>1, SMT DEF LoadInv
  <2>3. InLane' = lanes.input + (lanes.output - MaxPacket) + held
        /\ Slop' = slop
    BY <1>1, <1>3, <1>8 DEF InLane, Held, Slop
  <2> HIDE DEF held, slop, inLane
  <2>4. lanes.input + (lanes.output - MaxPacket) + held < Window + slop
    BY <1>2, <1>5, <2>1, <2>2, WindowType, SMT
  <2>5. QED
    BY <1>1, <1>4, <2>3, <2>4, NoCallIdle, SMT DEF LoadInv
<1>9. call.missing = 0
      => call.popped = lanes.output \/ call.popped = MaxPacket
  BY <1>2, <1>5, SMT DEF Available, Shorter
<1>10. QED
  BY <1>2, <1>6, <1>7, <1>8, <1>9, SMT

\* Counting what to pop moves no frame.
LEMMA DrainLoad ==
    ASSUME TypeOK, CallInv, LoadInv, StartDrain \/ DrainInfo
    PROVE  LoadInv'
<1>1. /\ lanes \in LanesType /\ call \in CallType
      /\ lanes.input \in Nat /\ lanes.output \in Nat
  BY Zenon DEF TypeOK, LanesType
<1>2. /\ call'.pc = "drain" /\ call'.frames = call.frames
      /\ call.pc \in {"hops", "drain"}
  <2>1. CASE StartDrain
    BY <1>1, <2>1, SMT DEF StartDrain, HopsDone, CallType
  <2>2. CASE DrainInfo
    <3>1. PICK missing, popped :
             call' = [call EXCEPT !.missing = missing, !.popped = popped]
      BY <2>2 DEF DrainInfo
    <3>2. call.pc = "drain"
      BY <2>2 DEF DrainInfo
    <3>3. QED
      BY <1>1, <3>1, <3>2, SMT DEF CallType
  <2>3. QED
    BY <2>1, <2>2
<1>3. /\ lanes'.input = lanes.input /\ lanes'.output = lanes.output
      /\ UNCHANGED resampler
  <2>1. CASE StartDrain
    BY <2>1 DEF StartDrain, audio
  <2>2. CASE DrainInfo
    <3>1. lanes' = Drained(lanes, call.missing) /\ UNCHANGED resampler
      BY <2>2 DEF DrainInfo
    <3>2. QED
      BY <1>1, <3>1, SMT DEF Drained, LanesType
  <2>3. QED
    BY <2>1, <2>2
<1>4. InLane' = InLane /\ Slop' = Slop
  BY <1>3 DEF InLane, Held, Slop
<1>5. lanes.input < Window
  <2>1. CASE StartDrain
    BY <1>1, <2>1, WindowType, SMT DEF StartDrain, HopsDone, HopReady
  <2>2. CASE DrainInfo
    BY <2>2, SMT DEF DrainInfo, LoadInv
  <2>3. QED
    BY <2>1, <2>2
<1>6. InLane < Window + Slop + call.frames
  BY <1>2, SMT DEF LoadInv
<1>7. QED
  BY <1>2, <1>3, <1>4, <1>5, <1>6, SMT DEF LoadInv

\* Every step keeps the load bounded.
LEMMA LoadStep ==
    ASSUME TypeOK, CallInv, SpectralInv, StreamInv, InfoInv, LoadInv,
           [Next]_vars
    PROVE  LoadInv'
<1>1. TypeOK' /\ StreamInv'
  BY TypeStep, StreamStep
<1>2. CASE UNCHANGED vars
  BY <1>2 DEF vars, LoadInv, InLane, Held, Slop
<1>3. CASE Emptied
  <2>1. lanes'.input = 0 /\ lanes'.output = 0 /\ Waits'
    BY <1>3 DEF Emptied, EmptyLanes
  <2>2. lanes'.input < Window
    BY <2>1, WindowType, SMT
  <2>3. InLane' < Window + Slop'
    BY <1>1, <2>1, <2>2, LoadAtRest
  <2>4. QED
    BY <2>1, <2>2, <2>3, SMT DEF LoadInv, Waits
<1>4. CASE LanesKept
  <2>1. /\ Waits /\ Waits' /\ UNCHANGED lanes
        /\ resampler'.path = resampler.path
        /\ resampler.path => UNCHANGED resampler
    BY <1>4 DEF LanesKept
  <2>2. InLane' = InLane /\ Slop' = Slop
    BY <2>1 DEF InLane, Held, Slop
  <2>3. lanes.input < Window /\ InLane < Window + Slop
    BY <2>1, SMT DEF Waits, LoadInv
  <2>4. QED
    BY <2>1, <2>2, <2>3, SMT DEF LoadInv, Waits
<1>5. CASE Steps
  BY <1>1, <1>5, TakeLoad, HopLoad, PendingLoad, DrainLoad, EmittedLoad
     DEF Steps
<1>6. QED
  <2>1. call.pc # "drain" => NonePopped
    BY DEF InfoInv, NonePopped
  <2>2. QED
    BY <1>2, <1>3, <1>4, <1>5, <2>1, LaneSteps

\* An empty queue to start with.
LEMMA QueueInit ==
    ASSUME Init
    PROVE  InfoInv /\ OutputStamped /\ LoadInv
<1>1. PICK rate \in Rates :
         resampler = [rate |-> rate, valid |-> TRUE, path |-> FALSE,
                      pair |-> NoRate, inHeld |-> 0, outHeld |-> 0,
                      inPrimed |-> 0, outPrimed |-> 0]
  BY DEF Init
<1>2. /\ lanes.input = 0 /\ lanes.output = 0 /\ lanes.info = <<>>
      /\ lanes.taken = 0 /\ lanes.sent = 0
      /\ call.pc = "idle" /\ call.popped = 0 /\ call.missing = 0
      /\ ~resampler.path
      /\ result = NoResult
  BY <1>1, CallRecords DEF Init, EmptyLanes
<1>3. InLane < Window + Slop /\ lanes.input < Window
  BY <1>2, WindowType, SMT DEF InLane, Held, Slop
<1>4. LoadInv
  BY <1>2, <1>3, SMT DEF LoadInv
<1>5. InfoInv
  <2>1. Len(lanes.info) = 0
    BY <1>2, SMT
  <2>2. \A i \in 1 .. Len(lanes.info) : FALSE
    BY <2>1, SMT
  <2>3. call.pc # "drain" /\ lanes.taken = lanes.sent + call.popped
    BY <1>2, SMT
  <2>4. QED
    BY <1>2, <2>2, <2>3 DEF InfoInv
<1>6. OutputStamped
  BY <1>2, Untold DEF OutputStamped
<1>7. QED
  BY <1>4, <1>5, <1>6

QueueInv == InfoInv /\ OutputStamped /\ LoadInv

\* The queue, its stamps and the load, in every behaviour.
LEMMA QueueInvariant ==
    Spec => [](TypeOK /\ CallInv /\ SpectralInv /\ StreamInv /\ QueueInv)
<1>1. Init => QueueInv
  BY QueueInit DEF QueueInv
<1>2. TypeOK /\ CallInv /\ SpectralInv /\ StreamInv /\ QueueInv /\ [Next]_vars
        => QueueInv'
  BY InfoStep, StampedStep, LoadStep DEF QueueInv
<1>3. QED
  BY <1>1, <1>2, StreamInvariant, PTL DEF Spec

\* Every output packet bears the timestamp of the dry audio in it.
THEOREM AlwaysStamped == Spec => []OutputStamped
<1>1. QueueInv => OutputStamped
  BY DEF QueueInv
<1>2. QED
  BY <1>1, QueueInvariant, PTL

\* Between calls, what was taken and is not yet sent never exceeds a window,
\* the delay of the model and what the two resamplers hold: process_packet
\* pops as much as it can, so jitter in packet sizes does not pile up.
THEOREM LatencyStaysBounded == Spec => []BoundedLatency
<1>1. ASSUME TypeOK, StreamInv, QueueInv
      PROVE  BoundedLatency
  <2> SUFFICES ASSUME Idle PROVE BoundedLatency
    BY DEF BoundedLatency
  <2>1. Balanced
    BY <1>1, Balance
  <2> DEFINE inLane == InLane  primed == Primed  behind == Behind
             top == Delay * Hop  slop == Slop
  <2>2. /\ inLane < Window + slop /\ slop \in Nat /\ primed \in Nat
        /\ behind \in 0 .. top /\ top \in Nat
        /\ lanes.taken + primed = lanes.sent + inLane + behind
        /\ lanes.taken \in Nat /\ lanes.sent \in Nat /\ inLane \in Nat
    BY <1>1, <2>1, HeldFrames, SMT DEF QueueInv, LoadInv, Idle, Balanced
  <2> HIDE DEF inLane, primed, behind, top, slop
  <2>3. lanes.taken - lanes.sent < Window + top + slop
    BY <2>2, WindowType, SMT
  <2>4. QED
    BY <2>3 DEF BoundedLatency, top, slop, Slop
<1>2. QED
  BY <1>1, QueueInvariant, PTL

-----------------------------------------------------------------------------
(***************************************************************************)
(* Room in the rings.  From the admission on, what the voice lane and the  *)
(* output resampler hold together never exceeds the output ring.           *)
(***************************************************************************)
\* Frames that will need room in the output ring.
Under == lanes.input + lanes.output
           + (IF resampler.path THEN resampler.outHeld ELSE 0)

RoomInv ==
    /\ RingsHold
    /\ call.pc = "hops" => Under <= OutCap

\* The constants that bound the rings are counts.
LEMMA Caps ==
    /\ InCap \in Nat /\ OutCap \in Nat /\ DryCap \in Nat /\ InfoCap \in Nat
    /\ Slack \in Nat /\ Holdback \in Nat /\ PeakDelay \in Nat
BY LanesAssumption, ProcessorAssumption

\* Empty rings have room for the zeros of the prefill.
LEMMA EmptyRoom ==
    ASSUME RoomyRings, TypeOK', StreamInv', Emptied
    PROVE  RoomInv'
<1>1. /\ lanes'.input = 0 /\ lanes'.output = 0 /\ lanes'.info = <<>>
      /\ lanes'.dry = Prefill(resampler') /\ Waits'
  BY DEF Emptied, EmptyLanes
<1>2. WithinHoldback(resampler') /\ resampler' \in ResamplerType
  BY DEF StreamInv, PairInv, TypeOK
<1>3. resampler'.inPrimed \in Nat /\ resampler'.outPrimed \in Nat
  BY <1>2, Zenon DEF ResamplerType
<1>4. Prefill(resampler') <= 2 * Holdback + PeakDelay
  BY <1>2, <1>3, Caps, SMT DEF Prefill, ProbeDelay, WithinHoldback
<1>5. Prefill(resampler') \in Nat
  BY <1>2, PrefillType
<1>6. lanes'.dry <= DryCap
  BY <1>1, <1>4, <1>5, Caps, SMT DEF RoomyRings
<1>7. Len(lanes'.info) <= InfoCap
  BY <1>1, Caps, SMT
<1>8. QED
  BY <1>1, <1>6, <1>7, Caps, SMT DEF RoomInv, RingsHold, Waits

\* buffers_can_accept has asked for the packet and for all hops to come.
LEMMA TakeRoom ==
    ASSUME RoomyRings, TypeOK, CallInv, StreamInv, RoomInv, TakeInput
    PROVE  RoomInv'
<1>1. resampler \in ResamplerType /\ lanes \in LanesType /\ call \in CallType
  BY DEF TypeOK
<1>2. PICK arrived \in IF resampler.path
                       THEN Deliveries(resampler.inHeld, call.frames)
                       ELSE {call.frames} :
         /\ lanes'     = Pushed(lanes, call.frames, arrived)
         /\ resampler' = FedInput(resampler, call.frames, arrived)
  BY DEF TakeInput
<1>3. /\ call.pc = "admit" /\ call' = [call EXCEPT !.pc = "hops"]
      /\ CanAccept(lanes, call.frames, resampler.path)
  BY DEF TakeInput, Admitting
<1>4. /\ call.frames \in Nat \ {0} /\ resampler.inHeld \in Nat
      /\ resampler.outHeld \in Nat /\ resampler.path \in BOOLEAN
      /\ lanes.input \in Nat /\ lanes.output \in Nat /\ lanes.dry \in Nat
      /\ lanes.info \in Seq(Packets) /\ lanes.taken \in Nat
  BY <1>1, <1>3, LanesAssumption, SMT
     DEF CallInv, Idle, ResamplerType, LanesType
<1>5. resampler.inHeld <= Holdback /\ resampler.outHeld <= Holdback
  BY DEF StreamInv, PairInv, WithinHoldback
<1>6. /\ arrived \in Nat /\ arrived <= resampler.inHeld + call.frames
      /\ ~resampler.path => arrived = call.frames
  BY <1>2, <1>4, Caps, SMT DEF Deliveries, Greatest
<1>7. /\ resampler'.outHeld = resampler.outHeld
      /\ resampler'.path = resampler.path
  BY <1>1, <1>2, SMT DEF FedInput, ResamplerType
<1>8. /\ lanes'.input = lanes.input + arrived /\ lanes'.output = lanes.output
      /\ lanes'.dry = lanes.dry + call.frames
      /\ lanes'.info = Append(lanes.info, [frames |-> call.frames,
                                           start |-> lanes.taken])
  BY <1>1, <1>2, SMT DEF Pushed, LanesType
<1>9. Len(lanes'.info) = Len(lanes.info) + 1
  <2> DEFINE packet == [frames |-> call.frames, start |-> lanes.taken]
  <2>1. packet \in Packets
    BY <1>4, SMT DEF Packets
  <2> HIDE DEF packet
  <2>2. Len(Append(lanes.info, packet)) = Len(lanes.info) + 1
    BY <1>4, <2>1, SMT
  <2>3. QED
    BY <1>8, <2>2 DEF packet
<1>10. CASE resampler.path
  <2>1. /\ Len(lanes.info) + 1 <= InfoCap
        /\ lanes.input + (call.frames + Slack) <= InCap
        /\ lanes.output + (lanes.input + (call.frames + Slack) + Slack) <= OutCap
        /\ lanes.dry + call.frames <= DryCap
    BY <1>3, <1>10 DEF CanAccept, InputGain, SynthesisGain
  <2>2. Under' = lanes.input + arrived + lanes.output + resampler.outHeld
    BY <1>7, <1>8, <1>10 DEF Under
  <2>3. /\ lanes.input + arrived + lanes.output + resampler.outHeld <= OutCap
        /\ lanes.input + arrived <= InCap /\ lanes.output <= OutCap
    <3> DEFINE i == lanes.input  o == lanes.output  f == call.frames
               a == resampler.inHeld  b == resampler.outHeld
    <3>1. /\ i \in Nat /\ o \in Nat /\ f \in Nat /\ a \in Nat /\ b \in Nat
          /\ arrived \in Nat /\ arrived <= a + f
          /\ a <= Holdback /\ b <= Holdback /\ Holdback <= Slack
          /\ i + (f + Slack) <= InCap /\ o + (i + (f + Slack) + Slack) <= OutCap
      BY <1>4, <1>5, <1>6, <2>1 DEF RoomyRings
    <3> HIDE DEF i, o, f, a, b
    <3>2. i + arrived + o + b <= OutCap /\ i + arrived <= InCap /\ o <= OutCap
      BY <3>1, Caps, SMT
    <3>3. QED
      BY <3>2 DEF i, o, f, a, b
  <2>4. QED
    BY <1>8, <1>9, <2>1, <2>2, <2>3 DEF RoomInv, RingsHold
<1>11. CASE ~resampler.path
  <2>1. /\ Len(lanes.info) + 1 <= InfoCap
        /\ lanes.input + call.frames <= InCap
        /\ lanes.output + (lanes.input + call.frames) <= OutCap
        /\ lanes.dry + call.frames <= DryCap
    BY <1>3, <1>11 DEF CanAccept, InputGain, SynthesisGain
  <2>2. Under' = lanes.input + call.frames + lanes.output + 0
    BY <1>6, <1>7, <1>8, <1>11 DEF Under
  <2>3. lanes.input + call.frames + lanes.output + 0 <= OutCap
        /\ lanes.output <= OutCap
    BY <1>4, <2>1, Caps, SMT
  <2>4. QED
    BY <1>6, <1>8, <1>9, <1>11, <2>1, <2>2, <2>3 DEF RoomInv, RingsHold
<1>12. QED
  BY <1>10, <1>11

\* A hop moves frames to where room was made for them.
LEMMA HopRoom ==
    ASSUME TypeOK, RoomInv, DiscardHop \/ EmitHop
    PROVE  RoomInv'
<1>1. resampler \in ResamplerType /\ lanes \in LanesType /\ call \in CallType
  BY DEF TypeOK
<1>2. call.pc = "hops" /\ HopReady(lanes)
  BY DEF DiscardHop, EmitHop, Hopping
<1>3. /\ resampler.outHeld \in Nat /\ resampler.path \in BOOLEAN
      /\ lanes.input \in Nat /\ lanes.output \in Nat
  BY <1>1, Zenon DEF ResamplerType, LanesType
<1>4. Hop \in Nat /\ Hop > 0 /\ lanes.input >= Hop /\ lanes.input - Hop \in Nat
  BY <1>2, <1>3, LanesAssumption, SMT DEF HopReady, Window
<1>5. PICK n \in Nat, held \in Nat :
        /\ lanes' = Hopped(lanes, n)
        /\ resampler' = [resampler EXCEPT !.outHeld = held]
        /\ resampler.path => n + held <= resampler.outHeld + Hop
        /\ ~resampler.path => n <= Hop
  <2>1. CASE DiscardHop
    <3>1. lanes' = Hopped(lanes, 0) /\ resampler' = resampler
      BY <2>1 DEF DiscardHop
    <3>2. resampler' = [resampler EXCEPT !.outHeld = resampler.outHeld]
      BY <1>1, <3>1, SMT DEF ResamplerType
    <3>3. 0 \in Nat /\ 0 + resampler.outHeld <= resampler.outHeld + Hop
          /\ 0 <= Hop
      BY <1>3, <1>4, SMT
    <3>4. QED
      BY <1>3, <3>1, <3>2, <3>3
  <2>2. CASE EmitHop
    <3>1. PICK n \in IF resampler.path THEN Deliveries(resampler.outHeld, Hop)
                     ELSE {Hop} :
             /\ lanes' = Hopped(lanes, n)
             /\ resampler' = FedOutput(resampler, n)
      BY <2>2 DEF EmitHop
    <3>2. /\ n \in Nat /\ resampler.outHeld + Hop - n \in Nat
          /\ n + (resampler.outHeld + Hop - n) <= resampler.outHeld + Hop
          /\ ~resampler.path => n <= Hop
      BY <1>3, <1>4, <3>1, Caps, SMT DEF Deliveries, Greatest
    <3>3. QED
      BY <3>1, <3>2 DEF FedOutput
  <2>3. QED
    BY <2>1, <2>2
<1>6. resampler'.outHeld = held /\ resampler'.path = resampler.path
  BY <1>1, <1>5, SMT DEF ResamplerType
<1>7. /\ lanes'.input = lanes.input - Hop /\ lanes'.output = lanes.output + n
      /\ lanes'.dry = lanes.dry /\ lanes'.info = lanes.info
  BY <1>1, <1>5, SMT DEF Hopped, LanesType
<1>8. /\ lanes.input <= InCap /\ lanes.dry <= DryCap
      /\ Len(lanes.info) <= InfoCap /\ Under <= OutCap
  BY <1>2 DEF RoomInv, RingsHold
<1>9. Under' <= OutCap /\ lanes.output + n <= OutCap
  <2>1. CASE resampler.path
    <3>1. lanes.input + lanes.output + resampler.outHeld <= OutCap
      BY <1>8, <2>1 DEF Under
    <3>2. (lanes.input - Hop) + (lanes.output + n) + held <= OutCap
          /\ lanes.output + n <= OutCap
      BY <1>3, <1>4, <1>5, <2>1, <3>1, Caps, SMT
    <3>3. QED
      BY <1>6, <1>7, <2>1, <3>2 DEF Under
  <2>2. CASE ~resampler.path
    <3>1. lanes.input + lanes.output + 0 <= OutCap
      BY <1>8, <2>2 DEF Under
    <3>2. (lanes.input - Hop) + (lanes.output + n) + 0 <= OutCap
          /\ lanes.output + n <= OutCap
      BY <1>3, <1>4, <1>5, <2>2, <3>1, Caps, SMT
    <3>3. QED
      BY <1>6, <1>7, <2>2, <3>2 DEF Under
  <2>3. QED
    BY <2>1, <2>2
<1>10. lanes.input - Hop <= InCap
  BY <1>3, <1>4, <1>8, Caps, SMT
<1>11. QED
  BY <1>7, <1>8, <1>9, <1>10 DEF RoomInv, RingsHold

\* Popping only makes room.
LEMMA PopRoom ==
    ASSUME TypeOK, CallInv, RoomInv,
           ReturnPending \/ StartDrain \/ DrainInfo \/ EmitPacket
    PROVE  RoomInv'
<1>1. lanes \in LanesType /\ call \in CallType
  BY DEF TypeOK
<1>2. /\ lanes.input \in Nat /\ lanes.output \in Nat /\ lanes.dry \in Nat
      /\ lanes.info \in Seq(Packets) /\ call.popped \in Nat
  BY <1>1, Zenon DEF LanesType, CallType
<1>3. call'.pc # "hops"
  <2>1. CASE ReturnPending \/ EmitPacket
    BY <2>1, NoCallIdle, SMT DEF ReturnPending, EmitPacket, Return
  <2>2. CASE StartDrain
    BY <1>1, <2>2, SMT DEF StartDrain, CallType
  <2>3. CASE DrainInfo
    <3>1. call.pc = "drain"
          /\ \E missing, popped :
               call' = [call EXCEPT !.missing = missing, !.popped = popped]
      BY <2>3 DEF DrainInfo
    <3>2. QED
      BY <1>1, <3>1, SMT DEF CallType
  <2>4. QED
    BY <2>1, <2>2, <2>3
<1>4. /\ lanes'.input = lanes.input /\ lanes'.output <= lanes.output
      /\ lanes'.dry <= lanes.dry /\ Len(lanes'.info) <= Len(lanes.info)
      /\ lanes'.output \in Int /\ lanes'.dry \in Int /\ Len(lanes'.info) \in Nat
      /\ Len(lanes.info) \in Nat
  <2>1. CASE UNCHANGED lanes
    BY <1>2, <2>1, SMT
  <2>2. CASE DrainInfo
    <3>1. lanes' = Drained(lanes, call.missing) /\ lanes.info # <<>>
      BY <2>2 DEF DrainInfo, MoreToDrain
    <3>2. /\ lanes'.input = lanes.input /\ lanes'.output = lanes.output
          /\ lanes'.dry = lanes.dry
          /\ lanes'.info = lanes.info \/ lanes'.info = Tail(lanes.info)
      BY <1>1, <3>1, SMT DEF Drained, LanesType
    <3>3. Len(Tail(lanes.info)) \in Nat /\ Len(lanes.info) \in Nat
          /\ Len(Tail(lanes.info)) <= Len(lanes.info)
      BY <1>2, <3>1, HeadTailProperties, SMT
    <3>4. Len(lanes'.info) \in Nat /\ Len(lanes'.info) <= Len(lanes.info)
      <4>1. Len(lanes.info) <= Len(lanes.info)
        BY <3>3, SMT
      <4>2. QED
        BY <3>2, <3>3, <4>1, Zenon
    <3>5. lanes'.output <= lanes.output /\ lanes'.dry <= lanes.dry
      BY <1>2, <3>2, SMT
    <3>6. QED
      BY <1>2, <3>2, <3>3, <3>4, <3>5, SMT
  <2>3. CASE EmitPacket
    <3>1. lanes' = Popped(lanes, call.popped)
      BY <2>3 DEF EmitPacket
    <3>2. /\ lanes'.input = lanes.input /\ lanes'.info = lanes.info
          /\ lanes'.output = lanes.output - call.popped
          /\ lanes'.dry = lanes.dry - call.popped
      BY <1>1, <3>1, SMT DEF Popped, LanesType
    <3>3. QED
      BY <1>2, <3>2, SMT
  <2>4. QED
    BY <2>1, <2>2, <2>3 DEF ReturnPending, StartDrain, audio
<1>5. RingsHold
  BY DEF RoomInv
<1>6. RingsHold'
  BY <1>2, <1>4, <1>5, Caps, SMT DEF RingsHold
<1>7. QED
  BY <1>3, <1>6 DEF RoomInv

\* Every step keeps the rings within their capacities.
LEMMA RoomStep ==
    ASSUME RoomyRings, TypeOK, CallInv, SpectralInv, StreamInv, QueueInv,
           RoomInv, [Next]_vars
    PROVE  RoomInv'
<1>1. TypeOK' /\ StreamInv'
  BY TypeStep, StreamStep
<1>2. CASE UNCHANGED vars
  BY <1>2 DEF vars, RoomInv, RingsHold, Under
<1>3. CASE Emptied
  BY <1>1, <1>3, EmptyRoom
<1>4. CASE LanesKept
  BY <1>4, SMT DEF LanesKept, Waits, RoomInv, RingsHold
<1>5. CASE Steps
  BY <1>5, TakeRoom, HopRoom, PopRoom DEF Steps
<1>6. QED
  <2>1. call.pc # "drain" => NonePopped
    BY DEF QueueInv, InfoInv, NonePopped
  <2>2. QED
    BY <1>2, <1>3, <1>4, <1>5, <2>1, LaneSteps

\* Whatever the capacities of the rings, the admission check asks for enough:
\* no ring ever holds more than its capacity, so the try_push calls of
\* push_input, process_available_hops and push_output do not fail.  A resampler
\* may hold back no more than the slack, and the dry ring must take the prefill.
THEOREM RingsNeverOverflow ==
    ASSUME RoomyRings PROVE Spec => []RingsHold
<1>1. ASSUME Init PROVE RoomInv
  <2>1. /\ lanes.input = 0 /\ lanes.output = 0 /\ lanes.info = <<>>
        /\ lanes.dry = 0 /\ call.pc = "idle"
    BY <1>1, CallRecords DEF Init, EmptyLanes
  <2>2. Len(lanes.info) = 0
    BY <2>1, SMT
  <2>3. QED
    BY <2>1, <2>2, Caps, SMT DEF RoomInv, RingsHold
<1>2. TypeOK /\ CallInv /\ SpectralInv /\ StreamInv /\ QueueInv /\ RoomInv
        /\ [Next]_vars => RoomInv'
  BY RoomStep
<1>3. RoomInv => RingsHold
  BY DEF RoomInv
<1>4. QED
  BY <1>1, <1>2, <1>3, QueueInvariant, PTL DEF Spec

-----------------------------------------------------------------------------
(***************************************************************************)
(* What stops and what reports processing.                                 *)
(***************************************************************************)
\* A pending jump is not lost.
Forwarded ==
    gate.jumpPending /\ ~gate'.jumpPending
      => \/ ~gate'.jumps
         \/ result'.event \in {"TimestampDiscontinuity",
                               "ResamplerRefreshNeeded"}

\* No capacity failure is counted, and the row of failures stands or ends.
Calm ==
    /\ gate'.capacity => gate.capacity
    /\ \/ gate'.failures = gate.failures /\ gate'.reported = gate.reported
       \/ gate'.failures = 0 /\ ~gate'.reported

\* What the end of process() leaves in the gate and in the result.
LEMMA ReturnedFields ==
    ASSUME NEW g \in GateType, NEW disposition, NEW event, NEW refresh,
           NEW hops, NEW frames, NEW start,
           Return(g, disposition, event, refresh, hops, frames, start)
    PROVE  /\ gate'.capacity = g.capacity /\ gate'.failures = g.failures
           /\ gate'.reported = g.reported
           /\ g.jumpPending /\ ~gate'.jumpPending
                => result'.event = "TimestampDiscontinuity"
           /\ event # "None" => result'.event = event
<1> DEFINE pending == g.jumpPending /\ ~JumpReport(g, event)
           told    == IF JumpReport(g, event)
                      THEN "TimestampDiscontinuity" ELSE event
<1>1. gate' = [g EXCEPT !.jumpPending = pending] /\ result'.event = told
  BY DEF Return
<1>2. pending \in BOOLEAN
  OBVIOUS
<1> HIDE DEF pending, told
<1>3. /\ gate'.capacity = g.capacity /\ gate'.failures = g.failures
      /\ gate'.reported = g.reported
  BY <1>1, SMT DEF GateType
<1>4. gate'.jumpPending = pending
  BY <1>1, <1>2, SMT DEF GateType
<1>5. QED
  BY <1>1, <1>3, <1>4, Zenon DEF pending, told, JumpReport

\* An end of process() that reports no failure.
LEMMA ReturnedCalm ==
    ASSUME NEW g \in GateType, NEW disposition, NEW event, NEW refresh,
           NEW hops, NEW frames, NEW start,
           Return(g, disposition, event, refresh, hops, frames, start),
           g.capacity => gate.capacity,
           \/ g.failures = gate.failures /\ g.reported = gate.reported
           \/ g.failures = 0 /\ ~g.reported,
           gate.jumpPending => g.jumpPending
    PROVE  Forwarded /\ Calm
<1>1. QED
  BY ReturnedFields DEF Forwarded, Calm

\* A failure returns with the row of failures one longer.
LEMMA FailureReturns ==
    ASSUME TypeOK, CallInv, ~Stopped, NEW hops, FailureResult(hops)
    PROVE  /\ gate'.failures = gate.failures + 1
           /\ gate'.capacity = gate.capacity
           /\ Forwarded
           /\ (gate.failures = 0 /\ ~gate.reported)
                \/ gate'.failures = MaxFailures
                => result'.event \in {"ProcessingFailure", "CircuitOpened"}
<1> DEFINE failures == gate.failures + 1
           opened   == failures >= MaxFailures
           reason   == IF opened THEN "RepeatedProcessingFailures"
                       ELSE gate.reason
           fresh    == resampler.path
           event    == IF opened THEN "CircuitOpened"
                       ELSE IF gate.reported THEN "None"
                       ELSE "ProcessingFailure"
           g        == [gate EXCEPT !.failures = failures, !.reported = TRUE,
                                    !.reason = reason]
<1>1. Return(g, "Passthrough", event, fresh /\ ~opened, hops, 0, 0)
  BY DEF FailureResult, PassThrough
<1>2. /\ gate \in GateType /\ gate.failures \in 0 .. MaxFailures
      /\ gate.failures # MaxFailures
  BY SMT DEF TypeOK, GateType, CallInv, Stopped
<1>3. failures \in 0 .. MaxFailures /\ reason \in Reasons
  BY <1>2, SMT DEF MaxFailures, GateType, Reasons
<1>4. opened <=> failures = MaxFailures
  BY <1>3, SMT DEF MaxFailures
<1>5. "CircuitOpened" # "None" /\ "ProcessingFailure" # "None"
  BY SMT
<1>6. opened \/ ~gate.reported
        => event # "None" /\ event \in {"ProcessingFailure", "CircuitOpened"}
  BY <1>5
<1> HIDE DEF failures, reason, event, opened
<1>7. g \in GateType /\ g.failures = failures /\ g.capacity = gate.capacity
      /\ (gate.jumpPending => g.jumpPending)
  <2>1. [gate EXCEPT !.failures = failures] \in GateType
    BY <1>2, <1>3, GateSetters
  <2>2. [[gate EXCEPT !.failures = failures] EXCEPT !.reported = TRUE] \in GateType
    BY <2>1, GateSetters
  <2> DEFINE f == [[gate EXCEPT !.failures = failures] EXCEPT !.reported = TRUE]
  <2>3. [f EXCEPT !.reason = reason] \in GateType
    <3> HIDE DEF f
    <3>1. QED
      BY <1>3, <2>2, GateSetters DEF f
  <2>4. g = [f EXCEPT !.reason = reason]
    OBVIOUS
  <2>5. g \in GateType
    BY <2>3, <2>4
  <2>6. g.failures = failures /\ g.capacity = gate.capacity
        /\ g.jumpPending = gate.jumpPending
    BY <1>2, SMT DEF GateType
  <2>7. QED
    BY <2>5, <2>6
<1> HIDE DEF g
<1>8. gate'.failures = failures /\ gate'.capacity = gate.capacity /\ Forwarded
  BY <1>1, <1>7, ReturnedFields DEF Forwarded
<1>9. opened \/ ~gate.reported => result'.event = event
  BY <1>1, <1>6, <1>7, ReturnedFields
<1>10. QED
  BY <1>4, <1>6, <1>8, <1>9 DEF failures

\* A packet turned away leaves the row of failures alone.
LEMMA CapacityReturns ==
    ASSUME TypeOK, NEW oversized \in BOOLEAN, CapacityFailure(oversized)
    PROVE  /\ Forwarded
           /\ gate'.failures = gate.failures
           /\ gate'.reported = gate.reported
           /\ oversized => gate'.capacity = gate.capacity
<1> DEFINE fresh == ~gate.recovering /\ resampler.path
           seen  == IF oversized THEN gate.oversized ELSE gate.capacity
           event == IF seen THEN "None"
                    ELSE IF oversized THEN "OversizedPacket"
                    ELSE "CapacityInvariantFailure"
           over  == gate.oversized \/ oversized
           cap   == gate.capacity \/ ~oversized
           warn  == gate.rateWarned \/ fresh
           g     == [gate EXCEPT !.recovering = TRUE, !.oversized = over,
                                 !.capacity = cap, !.rateWarned = warn]
<1>1. Return(g, "Passthrough", event, fresh, 0, 0, 0)
  BY DEF CapacityFailure, PassThrough
<1>2. gate \in GateType /\ over \in BOOLEAN /\ cap \in BOOLEAN
      /\ warn \in BOOLEAN
  BY DEF TypeOK
<1>3. gate.capacity \in BOOLEAN
  BY <1>2, Zenon DEF GateType
<1>4. oversized => cap = gate.capacity
  BY <1>3, Zenon
<1> HIDE DEF fresh, event, over, cap, warn
<1>5. g \in GateType
  <2>1. [gate EXCEPT !.recovering = TRUE] \in GateType
    BY <1>2, GateSetters
  <2>2. [gate EXCEPT !.recovering = TRUE, !.oversized = over] \in GateType
    BY <1>2, <2>1, GateSetters
  <2>3. [gate EXCEPT !.recovering = TRUE, !.oversized = over,
                     !.capacity = cap] \in GateType
    BY <1>2, <2>2, GateSetters
  <2>4. QED
    BY <1>2, <2>3, GateSetters
<1>6. /\ g.failures = gate.failures /\ g.reported = gate.reported
      /\ g.jumpPending = gate.jumpPending /\ g.capacity = cap
  BY <1>2, SMT DEF GateType
<1> HIDE DEF g
<1>7. QED
  BY <1>1, <1>4, <1>5, <1>6, ReturnedFields DEF Forwarded

\* A step that returns no failure leaves the row of failures alone or ends it,
\* and only a rejected admission counts as a capacity failure.
LEMMA GateSteps ==
    ASSUME TypeOK, CallInv, Next
    PROVE  /\ Forwarded
           /\ \/ Calm
              \/ RejectCapacity /\ gate'.failures = gate.failures
                                /\ gate'.reported = gate.reported
              \/ \E hops : FailureResult(hops) /\ ~Stopped
<1>1. gate \in GateType
  BY DEF TypeOK
<1>2. ASSUME UNCHANGED gate PROVE Forwarded /\ Calm
  BY <1>2 DEF Forwarded, Calm
<1>3. ASSUME NEW disposition, NEW event, NEW refresh, NEW hops, NEW frames,
             NEW start,
             Return(gate, disposition, event, refresh, hops, frames, start)
      PROVE  Forwarded /\ Calm
  BY <1>1, <1>3, ReturnedCalm
<1>4. CASE Arrive
  <2>1. CASE PassUntouched
    BY <1>3, <2>1 DEF PassUntouched, PassThrough
  <2>2. ASSUME NEW frames \in Frames, RejectOversized(frames)
        PROVE  Forwarded /\ Calm
    BY <2>2, CapacityReturns DEF RejectOversized, Calm
  <2>3. ASSUME NEW frames \in Frames, PassRateMismatch(frames)
        PROVE  Forwarded /\ Calm
    <3> DEFINE event == IF gate.rateWarned THEN "None" ELSE "RateMismatch"
               g == [gate EXCEPT !.rateWarned = TRUE]
    <3>1. Return(g, "Passthrough", event, FALSE, 0, 0, 0)
      BY <2>3 DEF PassRateMismatch, PassThrough
    <3>2. g \in GateType
      BY <1>1, GateSetters
    <3>3. /\ g.failures = gate.failures /\ g.reported = gate.reported
          /\ g.jumpPending = gate.jumpPending /\ g.capacity = gate.capacity
      BY <1>1, SMT DEF GateType
    <3> HIDE DEF g, event
    <3>4. QED
      BY <3>1, <3>2, <3>3, ReturnedCalm
  <2>4. ASSUME NEW frames \in Frames, AcceptTimestamp(frames)
        PROVE  Forwarded /\ Calm
    BY <1>2, <2>4 DEF AcceptTimestamp
  <2>5. ASSUME NEW frames \in Frames, JumpNative(frames)
        PROVE  Forwarded /\ Calm
    <3> DEFINE pending == gate.jumpPending \/ ~gate.jumps
    <3>1. gate' = [gate EXCEPT !.jumps = TRUE, !.jumpPending = pending]
      BY <2>5 DEF JumpNative
    <3>2. gate.jumpPending => pending
      OBVIOUS
    <3> HIDE DEF pending
    <3>3. /\ gate'.jumpPending = pending
          /\ gate'.failures = gate.failures /\ gate'.reported = gate.reported
          /\ gate'.capacity = gate.capacity
      BY <1>1, <3>1, SMT DEF GateType
    <3>4. QED
      BY <3>2, <3>3 DEF Forwarded, Calm
  <2>6. ASSUME NEW frames \in Frames, JumpResampled(frames)
        PROVE  Forwarded /\ Calm
    <3> DEFINE f == [gate EXCEPT !.jumps = TRUE]
               h == [f EXCEPT !.jumpPending = FALSE]
               g == [h EXCEPT !.rateWarned = TRUE]
               event == "ResamplerRefreshNeeded"
               refresh == TRUE
    <3>1. Return(g, "Passthrough", event, refresh, 0, 0, 0)
      BY <2>6 DEF JumpResampled, PassThrough
    <3>2. g \in GateType
      <4>1. f \in GateType
        BY <1>1, GateSetters
      <4> HIDE DEF f
      <4>2. h \in GateType
        BY <4>1, GateSetters
      <4> HIDE DEF h
      <4>3. QED
        BY <4>2, GateSetters
    <3>3. /\ g.failures = gate.failures /\ g.reported = gate.reported
          /\ g.capacity = gate.capacity
      BY <1>1, SMT DEF GateType
    <3>4. event # "None"
      BY SMT
    <3> HIDE DEF g, event, refresh
    <3>5. result'.event = event
          /\ gate'.failures = g.failures /\ gate'.reported = g.reported
          /\ gate'.capacity = g.capacity
      BY <3>1, <3>2, <3>4, ReturnedFields
    <3>6. QED
      BY <3>3, <3>5 DEF Forwarded, Calm, event
  <2>7. QED
    BY <1>4, <2>1, <2>2, <2>3, <2>4, <2>5, <2>6 DEF Arrive
<1>5. CASE Continue
  <2>1. /\ AfterHops \in GateType
        /\ AfterHops.capacity = gate.capacity
        /\ AfterHops.jumpPending = gate.jumpPending
        /\ \/ AfterHops.failures = gate.failures
              /\ AfterHops.reported = gate.reported
           \/ AfterHops.failures = 0 /\ ~AfterHops.reported
    BY <1>1, AfterHopsType, SMT DEF AfterHops, GateType
  <2>2. CASE RejectCapacity
    BY <2>2, CapacityReturns DEF RejectCapacity
  <2>3. CASE InputResamplerFails \/ InferenceFails \/ OutputResamplerFails
    <3>1. PICK hops : FailureResult(hops)
      BY <2>3 DEF InputResamplerFails, InferenceFails, OutputResamplerFails
    <3>2. ~Stopped
      <4>1. ~Idle
        <5>1. call.pc = "admit" \/ call.pc = "hops"
          BY <2>3 DEF InputResamplerFails, InferenceFails, Admitting,
                      Hopping, OutputResamplerFails
        <5>2. QED
          BY <5>1, SMT DEF Idle
      <4>2. QED
        BY <4>1 DEF CallInv
    <3>3. QED
      BY <3>1, <3>2, FailureReturns
  <2>4. CASE TakeInput
    <3>1. gate' = [gate EXCEPT !.recovering = FALSE]
      BY <2>4 DEF TakeInput
    <3>2. /\ gate'.jumpPending = gate.jumpPending
          /\ gate'.failures = gate.failures /\ gate'.reported = gate.reported
          /\ gate'.capacity = gate.capacity
      BY <1>1, <3>1, SMT DEF GateType
    <3>3. QED
      BY <3>2 DEF Forwarded, Calm
  <2>5. CASE DiscardHop \/ EmitHop \/ DrainInfo
    BY <1>2, <2>5 DEF DiscardHop, EmitHop, DrainInfo
  <2>6. CASE ReturnPending
    <3>1. Return(AfterHops, "Pending", "None", FALSE, call.hops, 0, 0)
      BY <2>6 DEF ReturnPending
    <3>2. QED
      BY <2>1, <3>1, ReturnedCalm
  <2>7. CASE StartDrain
    <3>1. gate' = AfterHops
      BY <2>7 DEF StartDrain
    <3>2. QED
      BY <2>1, <3>1 DEF Forwarded, Calm
  <2>8. CASE EmitPacket
    BY <1>3, <2>8 DEF EmitPacket
  <2>9. QED
    BY <1>5, <2>2, <2>3, <2>4, <2>5, <2>6, <2>7, <2>8 DEF Continue
<1>6. CASE Others
  <2>1. CASE DisableForRealtimeOverload \/ ResumeAfterOverload
    <3>1. PICK reason :
             gate' = [gate EXCEPT !.reason = reason, !.failures = 0,
                                  !.reported = FALSE]
      BY <2>1 DEF DisableForRealtimeOverload, ResumeAfterOverload
    <3>2. /\ gate'.jumpPending = gate.jumpPending
          /\ gate'.failures = 0 /\ ~gate'.reported
          /\ gate'.capacity = gate.capacity
      BY <1>1, <3>1, SMT DEF GateType
    <3>3. QED
      BY <3>2 DEF Forwarded, Calm
  <2>2. ASSUME NEW warned, gate' = [FreshGate EXCEPT !.rateWarned = warned]
        PROVE  Forwarded /\ Calm
    <3>1. /\ ~gate'.jumps /\ gate'.failures = 0 /\ ~gate'.reported
          /\ ~gate'.capacity
      BY <2>2, SMT DEF FreshGate
    <3>2. QED
      BY <3>1 DEF Forwarded, Calm
  <2>3. ASSUME gate' = [gate EXCEPT !.rateWarned = FALSE]
        PROVE  Forwarded /\ Calm
    <3>1. /\ gate'.jumpPending = gate.jumpPending
          /\ gate'.failures = gate.failures /\ gate'.reported = gate.reported
          /\ gate'.capacity = gate.capacity
      BY <1>1, <2>3, SMT DEF GateType
    <3>2. QED
      BY <3>1 DEF Forwarded, Calm
  <2>4. CASE ResetState \/ EndStream \/ SetControls
    BY <1>2, <2>2, <2>4 DEF ResetState, EndStream, SetControls
  <2>5. CASE \E rate \in Rates : SetFormat(rate)
    BY <2>3, <2>5 DEF SetFormat
  <2>6. ASSUME NEW pair, ReplaceResamplers(pair)
        PROVE  Forwarded /\ Calm
    BY <1>2, <2>3, <2>6 DEF ReplaceResamplers
  <2>7. CASE ReleaseInvalidResamplers
    BY <2>3, <2>7 DEF ReleaseInvalidResamplers
  <2>8. ASSUME NEW pair, ActivateModel(pair)
        PROVE  Forwarded /\ Calm
    BY <2>2, <2>8 DEF ActivateModel
  <2>9. QED
    BY <1>6, <2>1, <2>4, <2>5, <2>6, <2>7, <2>8 DEF Others
<1>7. QED
  BY <1>4, <1>5, <1>6 DEF Next

\* A failure that was reported is still in a row.
ReportedInv == gate.reported => gate.failures > 0

\* The flag of a reported row is cleared with the row.
LEMMA ReportedStep ==
    ASSUME TypeOK, CallInv, ReportedInv, [Next]_vars
    PROVE  ReportedInv'
<1>1. CASE UNCHANGED vars
  BY <1>1 DEF vars, ReportedInv
<1>2. CASE Calm
  BY <1>2 DEF Calm, ReportedInv
<1>3. CASE gate'.failures = gate.failures /\ gate'.reported = gate.reported
  BY <1>3 DEF ReportedInv
<1>4. ASSUME NEW hops, FailureResult(hops), ~Stopped PROVE ReportedInv'
  <2>1. gate'.failures = gate.failures + 1
    BY <1>4, FailureReturns
  <2>2. gate.failures \in Nat
    BY SMT DEF TypeOK, GateType, MaxFailures
  <2>3. gate'.failures > 0
    BY <2>1, <2>2, SMT
  <2>4. QED
    BY <2>3 DEF ReportedInv
<1>5. QED
  BY <1>1, <1>2, <1>3, <1>4, GateSteps

\* No row is marked as reported before it has begun.
LEMMA ReportedInvariant == Spec => [](TypeOK /\ CallInv /\ ReportedInv)
<1>1. Init => ReportedInv
  BY SMT DEF Init, FreshGate, ReportedInv
<1>2. TypeOK /\ CallInv /\ ReportedInv /\ [Next]_vars => ReportedInv'
  BY ReportedStep
<1>3. QED
  BY <1>1, <1>2, CallInvariant, PTL DEF Spec

\* The first failure of a row and the failure that opens the circuit return an
\* event for the log, in every interleaving of failures, hops that go through,
\* pauses, retries and resets.
THEOREM FailuresAlwaysReported == Spec => FailuresReported
<1> DEFINE Told == gate'.failures > gate.failures
                   /\ (gate.failures = 0 \/ gate'.failures = MaxFailures)
                   => result'.event \in {"ProcessingFailure", "CircuitOpened"}
<1>1. ASSUME TypeOK, CallInv, ReportedInv, [Next]_vars
      PROVE  Told \/ UNCHANGED vars
  <2>1. gate.failures \in Nat
    BY <1>1, SMT DEF TypeOK, GateType, MaxFailures
  <2>2. CASE gate'.failures = gate.failures \/ gate'.failures = 0
    BY <2>1, <2>2, SMT
  <2>3. ASSUME NEW hops, FailureResult(hops), ~Stopped PROVE Told
    <3>1. gate.failures = 0 => ~gate.reported
      BY <1>1, <2>1, SMT DEF ReportedInv
    <3>2. QED
      BY <1>1, <2>3, <3>1, FailureReturns
  <2>4. QED
    BY <1>1, <2>2, <2>3, GateSteps DEF Calm
<1>2. QED
  BY <1>1, ReportedInvariant, PTL DEF Spec, FailuresReported

\* A pending jump leaves the gate only with a result that reports it, with the
\* refresh that a jump on the resampled path asks for, or with the whole count.
THEOREM JumpsAlwaysReported == Spec => JumpsReported
<1>1. TypeOK /\ CallInv /\ [Next]_vars => Forwarded \/ UNCHANGED vars
  BY GateSteps
<1>2. QED
  BY <1>1, CallInvariant, PTL DEF Spec, JumpsReported, Forwarded

\* A packet info stands for at least one frame that has not been sent.
LEMMA InfosCount ==
    ASSUME TypeOK, CallInv, InfoInv, NonePopped, lanes.info # <<>>
    PROVE  Len(lanes.info) \in Nat
           /\ Len(lanes.info) <= lanes.taken - lanes.sent
<1>1. /\ lanes.info \in Seq(Packets) /\ lanes.offset \in Nat
      /\ lanes.taken \in Nat /\ lanes.sent \in Nat
  BY Zenon DEF TypeOK, LanesType
<1>2. 1 \in 1 .. Len(lanes.info) /\ Len(lanes.info) \in Nat
  BY <1>1, EmptySeq, SMT
<1>3. /\ lanes.info[1].start \in Nat /\ lanes.info[1].frames \in Nat
      /\ Finish(lanes.info[1]) = lanes.info[1].start + lanes.info[1].frames
  BY <1>1, <1>2, FinishType, SMT
<1>4. lanes.offset < lanes.info[1].frames
  BY DEF CallInv, FrontOpen
<1>5. lanes.info[1].start + lanes.offset = lanes.sent + 0
  BY DEF InfoInv, NonePopped
<1>6. Finish(lanes.info[1]) + (Len(lanes.info) - 1) <= lanes.taken
  BY <1>2 DEF InfoInv
<1> DEFINE finish == Finish(lanes.info[1])  start == lanes.info[1].start
           frames == lanes.info[1].frames   count == Len(lanes.info)
<1>7. /\ start \in Nat /\ frames \in Nat /\ count \in Nat
      /\ finish = start + frames /\ lanes.offset < frames
      /\ start + lanes.offset = lanes.sent + 0
      /\ finish + (count - 1) <= lanes.taken
  BY <1>2, <1>3, <1>4, <1>5, <1>6
<1> HIDE DEF finish, start, frames, count
<1>8. count <= lanes.taken - lanes.sent
  BY <1>1, <1>7, SMT
<1>9. QED
  BY <1>2, <1>8 DEF count

\* With the planned capacities every packet finds room at the admission.
LEMMA AlwaysAccepted ==
    ASSUME PlannedRings, TypeOK, CallInv, StreamInv, QueueInv,
           call.pc = "admit"
    PROVE  CanAccept(lanes, call.frames, resampler.path)
<1>1. Balanced /\ InfoInv /\ LoadInv
  BY Balance DEF QueueInv
<1>2. call.frames \in Nat /\ call.frames <= MaxPacket
  <2>1. call.frames \in 1 .. MaxPacket
    BY SMT DEF CallInv, Idle
  <2>2. QED
    BY <2>1, WindowType, SMT
<1>3. /\ lanes.input < Window /\ InLane < Window + Slop /\ NonePopped
  BY <1>1, SMT DEF LoadInv, InfoInv, NonePopped
<1> DEFINE held == Held  primed == Primed  prefill == Prefill(resampler)
           inLane == InLane  behind == Behind  top == Delay * Hop
           slop == Slop  count == Len(lanes.info)
<1>4. count \in Nat /\ (count = 0 \/ count <= lanes.taken - lanes.sent)
  <2>1. CASE lanes.info = <<>>
    BY <2>1, SMT
  <2>2. CASE lanes.info # <<>>
    BY <1>1, <1>3, <2>2, InfosCount
  <2>3. QED
    BY <2>1, <2>2
<1>5. /\ held \in Nat /\ primed \in Nat /\ behind \in 0 .. top /\ top \in Nat
      /\ lanes.input \in Nat /\ lanes.output \in Nat /\ lanes.taken \in Nat
      /\ lanes.sent \in Nat /\ lanes.dry \in Nat /\ slop \in Nat
      /\ inLane = lanes.input + lanes.output + held
      /\ lanes.taken + primed = lanes.sent + inLane + behind
      /\ lanes.dry = prefill + lanes.taken - lanes.sent
      /\ inLane < Window + slop
  BY <1>1, <1>3 DEF Balanced
<1>6. prefill = primed \/ prefill = primed + PeakDelay
  BY <1>1 DEF Balanced, Primed
<1>7. slop = 0 \/ slop = 2 * Holdback
  BY DEF Slop
<1>8. /\ Holdback <= Slack /\ 2 * Slack <= MaxPacket
      /\ Window + MaxPacket + Slack <= InCap
      /\ MaxPacket + (Window + MaxPacket + Slack) + Slack <= OutCap
      /\ 2 * Holdback + PeakDelay + MaxPacket
            + (MaxPacket + (Window + MaxPacket + Slack) + Slack) + top <= DryCap
      /\ 2 * Holdback + PeakDelay + MaxPacket
            + (MaxPacket + (Window + MaxPacket + Slack) + Slack) + top <= InfoCap
  BY DEF PlannedRings, PlannedInput, PlannedOutput, PlannedDry
<1> HIDE DEF held, primed, prefill, inLane, behind, top, slop, count
<1>9. /\ lanes.input + (call.frames + Slack) <= InCap
      /\ lanes.input + call.frames <= InCap
  BY <1>2, <1>3, <1>5, <1>8, WindowType, Caps, SMT
<1>10. lanes.output + lanes.input < Window + slop
  BY <1>5, WindowType, SMT
<1>11. /\ lanes.output + (lanes.input + (call.frames + Slack) + Slack) <= OutCap
       /\ lanes.output + (lanes.input + call.frames) <= OutCap
  BY <1>2, <1>5, <1>7, <1>8, <1>10, WindowType, Caps, SMT
<1>12. lanes.taken - lanes.sent < Window + slop + top
  BY <1>5, WindowType, SMT
<1>13. lanes.dry < PeakDelay + Window + slop + top
  BY <1>5, <1>6, WindowType, Caps, SMT
<1>14. lanes.dry + call.frames <= DryCap
  BY <1>2, <1>5, <1>7, <1>8, <1>13, WindowType, Caps, SMT
<1>15. count + 1 <= InfoCap
  BY <1>4, <1>5, <1>7, <1>8, <1>12, WindowType, Caps, SMT
<1>16. QED
  BY <1>9, <1>11, <1>14, <1>15
     DEF CanAccept, InputGain, SynthesisGain, count

\* With the capacities include_capacity_for_rate plans, whatever jumps, fails
\* or is replaced when, the admission check turns no packet away: the event
\* CapacityInvariantFailure and the reset that goes with it cannot happen.
THEOREM PlannedRingsSuffice ==
    ASSUME PlannedRings PROVE Spec => []NoCapacityFailure
<1>1. Init => NoCapacityFailure
  BY SMT DEF Init, FreshGate, NoCapacityFailure
<1>2. ASSUME TypeOK, CallInv, StreamInv, QueueInv, NoCapacityFailure,
             [Next]_vars
      PROVE  NoCapacityFailure'
  <2>1. CASE UNCHANGED vars
    BY <1>2, <2>1 DEF vars, NoCapacityFailure
  <2>2. CASE Calm
    BY <1>2, <2>2 DEF Calm, NoCapacityFailure
  <2>3. CASE RejectCapacity
    BY <1>2, <2>3, AlwaysAccepted DEF RejectCapacity, Admitting
  <2>4. ASSUME NEW hops, FailureResult(hops), ~Stopped
        PROVE  NoCapacityFailure'
    BY <1>2, <2>4, FailureReturns DEF NoCapacityFailure
  <2>5. QED
    BY <1>2, <2>1, <2>2, <2>3, <2>4, GateSteps
<1>3. QED
  BY <1>1, <1>2, QueueInvariant, PTL DEF Spec
=============================================================================
