-------------------------- MODULE ProcessorProofs --------------------------
(***************************************************************************)
(* What holds of Processor, and of the suppression it steps, for every     *)
(* rate, packet size, delay, fade and ring capacity.                       *)
(***************************************************************************)
EXTENDS Processor, SequenceTheorems, TLAPS

-----------------------------------------------------------------------------
(***************************************************************************)
(* Suppression: what a hop, a pause and a retry make of the spectrum.      *)
(***************************************************************************)
LEMMA FullDepthType == FullDepth \in Nat
BY SuppressionAssumption, SMT DEF FullDepth

\* A reset leaves the spectral state in step, at any depth.
LEMMA FreshInStep ==
    ASSUME NEW d \in 0 .. FullDepth, NEW overloaded \in BOOLEAN
    PROVE  /\ FreshSpectrum(d) \in SpectrumType
           /\ InStep(FreshSpectrum(d), overloaded)
<1>1. FreshSpectrum(d) \in SpectrumType
  BY SuppressionAssumption, FullDepthType, SMT
     DEF FreshSpectrum, SpectrumType, StartupLine, Stale, Startup
<1>2. HistoryInStep(FreshSpectrum(d))
  BY SuppressionAssumption, SMT DEF FreshSpectrum, HistoryInStep, Slots
<1>3. LineInStep(FreshSpectrum(d))
  BY SuppressionAssumption, SMT
     DEF FreshSpectrum, LineInStep, Hidden, Greatest, Taps
<1>4. QED
  BY <1>1, <1>2, <1>3, SuppressionAssumption, SMT
     DEF FreshSpectrum, InStep, Greatest

LEMMA NextDepthType ==
    ASSUME NEW sp \in SpectrumType,
           NEW paused \in BOOLEAN, NEW heard \in BOOLEAN
    PROVE  /\ FadedDepth(sp, paused, heard) \in 0 .. FullDepth
           /\ FadedDepth(sp, paused, heard) <= sp.depth
           /\ NextDepth(sp, paused, heard) \in 0 .. FullDepth
<1>1. FadedDepth(sp, paused, heard) \in 0 .. FullDepth
      /\ FadedDepth(sp, paused, heard) <= sp.depth
  BY SuppressionAssumption, FullDepthType, SMT
     DEF FadedDepth, SpectrumType, Greatest
<1>2. QED
  BY <1>1, SuppressionAssumption, FullDepthType, SMT
     DEF NextDepth, SpectrumType, Least

LEMMA HopType ==
    ASSUME NEW sp \in SpectrumType,
           NEW paused \in BOOLEAN, NEW heard \in BOOLEAN
    PROVE  HopAfter(sp, paused, heard) \in SpectrumType
<1>1. NextDepth(sp, paused, heard) \in 0 .. FullDepth
  BY NextDepthType
<1>2. LineAfter(sp, paused, heard) \in [Taps -> Int]
  BY SuppressionAssumption, SMT DEF LineAfter, SpectrumType, Taps
<1>3. [s \in Slots |-> IF s = sp.slot THEN sp.hops ELSE sp.history[s]]
        \in [Slots -> Int]
  BY SMT DEF SpectrumType
<1>4. NextSlot(sp) \in Slots \cup {0}
  BY SuppressionAssumption, SMT DEF NextSlot, Slots, SpectrumType
<1>5. QED
  BY <1>1, <1>2, <1>3, <1>4, SuppressionAssumption, SMT
     DEF HopAfter, SpectrumType, Greatest, Discarded

\* The ring of noisy spectra moves on by one hop.
LEMMA HopHistory ==
    ASSUME NEW sp \in SpectrumType, HistoryInStep(sp),
           NEW paused \in BOOLEAN, NEW heard \in BOOLEAN
    PROVE  HistoryInStep(HopAfter(sp, paused, heard))
<1> DEFINE next == HopAfter(sp, paused, heard)
<1>1. /\ next.slot = NextSlot(sp) /\ next.hops = sp.hops + 1
      /\ next.history = [s \in Slots |-> IF s = sp.slot THEN sp.hops
                                         ELSE sp.history[s]]
  BY DEF HopAfter
<1>2. CASE Delay = 0
  BY <1>1, <1>2, SMT DEF HistoryInStep, Slots, NextSlot, SpectrumType
<1>3. CASE Delay > 0
  <2>1. sp.slot \in Slots
    BY <1>3, SuppressionAssumption, SMT DEF SpectrumType, Slots
  <2>2. next.slot \in Slots /\ (next.hops < Delay => next.slot = next.hops)
    BY <1>1, <1>3, <2>1, SuppressionAssumption, SMT
       DEF HistoryInStep, NextSlot, Slots, SpectrumType
  <2>3. ASSUME NEW s \in Slots
        PROVE  /\ s < next.slot => next.history[s] = next.hops - next.slot + s
               /\ s >= next.slot /\ next.hops >= Delay =>
                    next.history[s] = next.hops - next.slot + s - Delay
    <3>1. /\ s \in Int /\ 0 <= s /\ s < Delay /\ Delay \in Int
          /\ sp.slot \in Int /\ 0 <= sp.slot /\ sp.slot < Delay
          /\ sp.hops \in Int /\ 0 <= sp.hops
      BY <2>1, SuppressionAssumption, SMT DEF Slots, SpectrumType
    <3>2. next.slot = IF sp.slot + 1 = Delay THEN 0 ELSE sp.slot + 1
      BY <1>1, <1>3, SMT DEF NextSlot
    <3>3. sp.hops < Delay => sp.slot = sp.hops
      BY DEF HistoryInStep
    <3>4. CASE s = sp.slot
      <4>1. next.history[s] = sp.hops
        BY <1>1, <2>1, <3>4
      <4>2. QED
        BY <1>1, <3>1, <3>2, <3>4, <4>1, SMT
    <3>5. CASE s # sp.slot
      <4>1. next.history[s] = sp.history[s]
        BY <1>1, <3>5
      <4>2. /\ s < sp.slot => sp.history[s] = sp.hops - sp.slot + s
            /\ s >= sp.slot /\ sp.hops >= Delay =>
                 sp.history[s] = sp.hops - sp.slot + s - Delay
        BY DEF HistoryInStep
      <4>3. QED
        BY <1>1, <3>1, <3>2, <3>3, <3>5, <4>1, <4>2, SMT
    <3>6. QED
      BY <3>4, <3>5
  <2>4. QED
    BY <2>2, <2>3 DEF HistoryInStep
<1>4. QED
  BY <1>2, <1>3, SuppressionAssumption, SMT

\* A hop on a running model moves its line on; a hop that leaves the model
\* out happens only in a pause that has faded out.
LEMMA HopLine ==
    ASSUME NEW sp \in SpectrumType, NEW paused \in BOOLEAN,
           NEW heard \in BOOLEAN,
           ~(paused /\ sp.depth = 0) => LineInStep(sp),
           ~(paused /\ HopAfter(sp, paused, heard).depth = 0)
    PROVE  LineInStep(HopAfter(sp, paused, heard))
<1> DEFINE next == HopAfter(sp, paused, heard)
<1>1. /\ next.depth = NextDepth(sp, paused, heard)
      /\ next.hops = sp.hops + 1 /\ next.line = LineAfter(sp, paused, heard)
      /\ next.warmup = Greatest(0, sp.warmup - 1)
      /\ next.bridge = Greatest(0, sp.bridge - 1)
  BY DEF HopAfter
<1> DEFINE faded == FadedDepth(sp, paused, heard)
<1>2. paused => faded # 0
  BY <1>1 DEF NextDepth
<1>3. faded \in 0 .. FullDepth /\ faded <= sp.depth
  BY NextDepthType
<1>4. LineInStep(sp) /\ ModelRuns(sp, paused, heard)
  <2>1. (paused => faded > 0 /\ sp.depth # 0)
    <3> HIDE DEF faded
    <3>1. sp.depth \in Int
      BY FullDepthType, SMT DEF SpectrumType
    <3>2. QED
      BY <1>2, <1>3, <3>1, FullDepthType, SMT
  <2>2. QED
    BY <2>1 DEF ModelRuns
<1>5. Hidden(next) = Greatest(0, Hidden(sp) - 1)
  BY <1>1, SMT DEF Hidden, Greatest, SpectrumType
<1>6. ASSUME NEW t \in Taps, t <= Delay - Hidden(next)
      PROVE  next.line[t] = next.hops - t
  <2>1. CASE t = 1
    BY <1>1, <1>4, <2>1, SMT DEF LineAfter, SpectrumType
  <2>2. CASE t # 1
    <3>1. t - 1 \in Taps /\ t - 1 <= Delay - Hidden(sp)
      BY <1>5, <1>6, <2>2, SuppressionAssumption, SMT
         DEF Hidden, Greatest, Taps, SpectrumType
    <3>2. next.line[t] = sp.line[t - 1]
      BY <1>1, <1>4, <2>2 DEF LineAfter
    <3>3. sp.line[t - 1] = sp.hops - (t - 1)
      BY <1>4, <3>1 DEF LineInStep
    <3>4. t \in Int /\ sp.hops \in Int
      BY SuppressionAssumption, SMT DEF Taps, SpectrumType
    <3>5. QED
      BY <1>1, <3>2, <3>3, <3>4, SMT
  <2>3. QED
    BY <2>1, <2>2
<1>7. QED
  BY <1>6 DEF LineInStep

\* In step before a hop, in step after it.
LEMMA HopInStep ==
    ASSUME NEW sp \in SpectrumType, NEW paused \in BOOLEAN,
           NEW heard \in BOOLEAN, InStep(sp, paused)
    PROVE  InStep(HopAfter(sp, paused, heard), paused)
<1> DEFINE next == HopAfter(sp, paused, heard)
<1>1. HistoryInStep(next)
  BY HopHistory DEF InStep
<1>2. ~(paused /\ next.depth = 0) => LineInStep(next)
  BY HopLine DEF InStep
<1>3. /\ next.warmup  = Greatest(0, Delay - next.hops)
      /\ next.emitted = Greatest(0, next.hops - Delay)
  BY SuppressionAssumption, SMT
     DEF InStep, HopAfter, Greatest, SpectrumType, Discarded
<1>4. next.bridge > 0 => next.depth = 0
  <2>1. ASSUME next.bridge > 0
        PROVE  next.depth = 0
    <3>1. sp.bridge > 0
      BY <2>1, SuppressionAssumption, SMT
         DEF HopAfter, Greatest, SpectrumType
    <3>2. sp.depth = 0 /\ ~ModelHeard(sp, paused, heard)
      BY <3>1, SMT DEF InStep, ModelHeard
    <3>3. next.depth = FadedDepth(sp, paused, heard)
      BY <3>2 DEF HopAfter, NextDepth
    <3>4. QED
      BY <3>2, <3>3, NextDepthType, FullDepthType, SMT
  <2>2. QED
    BY <2>1
<1>5. QED
  BY <1>1, <1>2, <1>3, <1>4 DEF InStep

LEMMA EmissionType ==
    ASSUME NEW sp \in SpectrumType, NEW paused \in BOOLEAN,
           NEW heard \in BOOLEAN
    PROVE  /\ Emission(sp, paused, heard).index = sp.emitted
           /\ Emission(sp, paused, heard).sources \in SUBSET Int
           /\ Emission(sp, paused, heard).level \in 0 .. FullDepth
           /\ Emission(sp, paused, heard).audible = heard
           /\ Emission(sp, paused, heard)
                \in [index : Int, sources : SUBSET Int,
                     level : 0 .. FullDepth, audible : BOOLEAN]
<1> DEFINE model   == ModelHeard(sp, paused, heard)
           sources == {DelayedSpectrum(sp)}
                        \cup (IF model THEN {ModelOutput(sp)} ELSE {})
           level   == IF model THEN NextDepth(sp, paused, heard) ELSE 0
<1>1. DelayedSpectrum(sp) \in Int
  BY SuppressionAssumption, SMT DEF DelayedSpectrum, SpectrumType, Slots
<1>2. ModelOutput(sp) \in Int
  BY SuppressionAssumption, SMT DEF ModelOutput, SpectrumType, Taps
<1>3. sources \in SUBSET Int
  BY <1>1, <1>2, Zenon
<1>4. level \in 0 .. FullDepth
  BY NextDepthType, FullDepthType, SMT
<1>5. sp.emitted \in Int
  BY SMT DEF SpectrumType
<1>6. Emission(sp, paused, heard)
        = [index |-> sp.emitted, sources |-> sources, level |-> level,
           audible |-> heard]
  BY DEF Emission
<1> HIDE DEF sources, level
<1>7. QED
  BY <1>3, <1>4, <1>5, <1>6

\* What an undiscarded hop hands to synthesis is made of one hop's audio.
LEMMA EmissionAligned ==
    ASSUME NEW sp \in SpectrumType, NEW paused \in BOOLEAN,
           NEW heard \in BOOLEAN, InStep(sp, paused), ~Discarded(sp)
    PROVE  Emission(sp, paused, heard).sources = {sp.emitted}
<1>1. sp.hops >= Delay /\ sp.emitted = sp.hops - Delay /\ sp.warmup = 0
  BY SuppressionAssumption, SMT DEF InStep, Discarded, Greatest, SpectrumType
<1>2. DelayedSpectrum(sp) = sp.emitted
  <2>1. CASE Delay = 0
    BY <1>1, <2>1, SMT DEF DelayedSpectrum, SpectrumType
  <2>2. CASE Delay # 0
    <3>1. sp.slot \in Slots /\ sp.hops \in Int /\ sp.slot \in Int
          /\ Delay \in Int
      BY <2>2, SuppressionAssumption, SMT DEF SpectrumType, Slots
    <3>2. sp.slot >= sp.slot /\ sp.hops >= Delay
      BY <1>1, <3>1, SMT
    <3>3. sp.history[sp.slot] = sp.hops - sp.slot + sp.slot - Delay
      BY <3>1, <3>2 DEF InStep, HistoryInStep
    <3>4. QED
      BY <1>1, <2>2, <3>1, <3>3, SMT DEF DelayedSpectrum
  <2>3. QED
    BY <2>1, <2>2
<1>3. ASSUME ModelHeard(sp, paused, heard)
      PROVE  ModelOutput(sp) = sp.emitted
  <2>1. CASE Delay = 0
    BY <1>1, <2>1, SMT DEF ModelOutput, SpectrumType
  <2>2. CASE Delay # 0
    <3>1. ~(paused /\ sp.depth = 0)
      BY <1>3, NextDepthType, FullDepthType, SMT
         DEF ModelHeard, ModelRuns, SpectrumType
    <3>2. Hidden(sp) = 0
      BY <1>1, <1>3, SMT DEF Hidden, Greatest, ModelHeard
    <3>3. Delay \in Taps
      BY <2>2, SuppressionAssumption, SMT DEF Taps
    <3>4. QED
      BY <1>1, <2>2, <3>1, <3>2, <3>3, SuppressionAssumption, SMT
         DEF InStep, LineInStep, ModelOutput, SpectrumType
  <2>3. QED
    BY <2>1, <2>2
<1>4. QED
  BY <1>2, <1>3 DEF Emission

\* The level a hop goes out with is the depth the hop ends with.
LEMMA EmissionLevel ==
    ASSUME NEW sp \in SpectrumType, NEW paused \in BOOLEAN,
           NEW heard \in BOOLEAN, InStep(sp, paused)
    PROVE  Emission(sp, paused, heard).level
             = HopAfter(sp, paused, heard).depth
<1>1. CASE ModelHeard(sp, paused, heard)
  BY <1>1 DEF Emission, HopAfter
<1>2. CASE ~ModelHeard(sp, paused, heard)
  <2>1. FadedDepth(sp, paused, heard) = 0
    BY <1>2, NextDepthType, FullDepthType, SuppressionAssumption, SMT
       DEF ModelHeard, ModelRuns, InStep, SpectrumType
  <2>2. QED
    BY <1>2, <2>1 DEF Emission, HopAfter, NextDepth
<1>3. QED
  BY <1>1, <1>2

\* From a hop that was heard to the next: one fade step at most.
LEMMA HopFades ==
    ASSUME NEW sp \in SpectrumType, NEW paused \in BOOLEAN, sp.emitted > 0
    PROVE  /\ HopAfter(sp, paused, TRUE).depth <= sp.depth + FadeOut
           /\ sp.depth <= HopAfter(sp, paused, TRUE).depth + FadeIn
<1> DEFINE next == HopAfter(sp, paused, TRUE)
<1>1. next.depth = NextDepth(sp, paused, TRUE)
  BY DEF HopAfter
<1> DEFINE faded == FadedDepth(sp, paused, TRUE)
           risen == Least(FullDepth, sp.depth + FadeOut)
<1>2. /\ sp.depth \in 0 .. FullDepth
      /\ FadeIn \in Nat \ {0} /\ FadeOut \in Nat \ {0}
  BY SuppressionAssumption, SMT DEF SpectrumType
<1>3. faded \in 0 .. FullDepth /\ faded <= sp.depth
  BY NextDepthType
<1>4. faded = IF paused THEN Greatest(0, sp.depth - FadeIn) ELSE sp.depth
  BY DEF FadedDepth
<1>5. sp.depth <= Greatest(0, sp.depth - FadeIn) + FadeIn
  BY <1>2, FullDepthType, SMT DEF Greatest
<1>6. sp.depth <= faded + FadeIn
  <2> HIDE DEF faded
  <2>1. CASE paused
    BY <1>4, <1>5, <2>1
  <2>2. CASE ~paused
    BY <1>2, <1>4, <2>2, FullDepthType, SMT
  <2>3. QED
    BY <2>1, <2>2
<1>7. risen \in sp.depth .. sp.depth + FadeOut
  BY <1>2, FullDepthType, SMT DEF Least
<1>8. next.depth = faded \/ next.depth = risen
  BY <1>1 DEF NextDepth
<1>9. QED
  <2> DEFINE now == next.depth
  <2>1. now = faded \/ now = risen
    BY <1>8
  <2>2. now <= sp.depth + FadeOut /\ sp.depth <= now + FadeIn
    <3> HIDE DEF faded, risen, now
    <3>1. QED
      BY <1>2, <1>3, <1>6, <1>7, <2>1, FullDepthType, SMT
  <2>3. QED
    BY <2>2

LEMMA ResumedType ==
    ASSUME NEW sp \in SpectrumType
    PROVE  Resumed(sp) \in SpectrumType
<1>1. [sp EXCEPT !.bridge = Delay] \in SpectrumType
  BY SuppressionAssumption, SMT DEF SpectrumType
<1>2. ASSUME NEW q \in SpectrumType
      PROVE  [q EXCEPT !.line = StartupLine] \in SpectrumType
  BY SMT DEF SpectrumType, StartupLine, Startup
<1>3. QED
  BY <1>1, <1>2 DEF Resumed

\* A retry in the middle of a fade goes on in step; one after it bridges the
\* restarted model until it is in step.
LEMMA ResumedInStep ==
    ASSUME NEW sp \in SpectrumType, InStep(sp, TRUE)
    PROVE  InStep(Resumed(sp), FALSE)
<1>1. CASE sp.depth = 0
  <2> DEFINE next == [sp EXCEPT !.bridge = Delay, !.line = StartupLine]
  <2>1. Resumed(sp) = next
    BY <1>1 DEF Resumed
  <2>2. LineInStep(next)
    BY SuppressionAssumption, SMT
       DEF LineInStep, Hidden, Greatest, Taps, SpectrumType
  <2>3. HistoryInStep(next)
    BY SMT DEF HistoryInStep, InStep, SpectrumType
  <2>4. QED
    BY <1>1, <2>1, <2>2, <2>3, SMT DEF InStep, SpectrumType
<1>2. CASE sp.depth # 0
  BY <1>2 DEF Resumed, InStep
<1>3. QED
  BY <1>1, <1>2

-----------------------------------------------------------------------------
(***************************************************************************)
(* Updates of one field keep a record in its type.                         *)
(***************************************************************************)
LEMMA GateSetters ==
    ASSUME NEW g \in GateType
    PROVE  /\ \A v \in Reasons :
                /\ [g EXCEPT !.reason = v] \in GateType
           /\ \A v \in 0 .. MaxFailures :
                /\ [g EXCEPT !.failures = v] \in GateType
           /\ \A v \in BOOLEAN :
                /\ [g EXCEPT !.reported = v] \in GateType
                /\ [g EXCEPT !.recovering = v] \in GateType
                /\ [g EXCEPT !.oversized = v] \in GateType
                /\ [g EXCEPT !.capacity = v] \in GateType
                /\ [g EXCEPT !.jumps = v] \in GateType
                /\ [g EXCEPT !.jumpPending = v] \in GateType
                /\ [g EXCEPT !.rateWarned = v] \in GateType
<1>1. ASSUME NEW v \in Reasons PROVE [g EXCEPT !.reason = v] \in GateType
  BY Zenon DEF GateType
<1>2. ASSUME NEW v \in 0 .. MaxFailures
      PROVE  [g EXCEPT !.failures = v] \in GateType
  BY Zenon DEF GateType
<1>3. ASSUME NEW v \in BOOLEAN PROVE [g EXCEPT !.reported = v] \in GateType
  BY Zenon DEF GateType
<1>4. ASSUME NEW v \in BOOLEAN PROVE [g EXCEPT !.recovering = v] \in GateType
  BY Zenon DEF GateType
<1>5. ASSUME NEW v \in BOOLEAN PROVE [g EXCEPT !.oversized = v] \in GateType
  BY Zenon DEF GateType
<1>6. ASSUME NEW v \in BOOLEAN PROVE [g EXCEPT !.capacity = v] \in GateType
  BY Zenon DEF GateType
<1>7. ASSUME NEW v \in BOOLEAN PROVE [g EXCEPT !.jumps = v] \in GateType
  BY Zenon DEF GateType
<1>8. ASSUME NEW v \in BOOLEAN PROVE [g EXCEPT !.jumpPending = v] \in GateType
  BY Zenon DEF GateType
<1>9. ASSUME NEW v \in BOOLEAN PROVE [g EXCEPT !.rateWarned = v] \in GateType
  BY Zenon DEF GateType
<1>10. QED
  BY <1>1, <1>2, <1>3, <1>4, <1>5, <1>6, <1>7, <1>8, <1>9

LEMMA LanesSetters ==
    ASSUME NEW l \in LanesType
    PROVE  /\ \A v \in Nat :
                /\ [l EXCEPT !.input = v] \in LanesType
                /\ [l EXCEPT !.output = v] \in LanesType
                /\ [l EXCEPT !.dry = v] \in LanesType
                /\ [l EXCEPT !.offset = v] \in LanesType
                /\ [l EXCEPT !.taken = v] \in LanesType
                /\ [l EXCEPT !.sent = v] \in LanesType
           /\ \A v \in Seq(Packets) :
                /\ [l EXCEPT !.info = v] \in LanesType
<1>1. ASSUME NEW v \in Nat PROVE [l EXCEPT !.input = v] \in LanesType
  BY Zenon DEF LanesType
<1>2. ASSUME NEW v \in Nat PROVE [l EXCEPT !.output = v] \in LanesType
  BY Zenon DEF LanesType
<1>3. ASSUME NEW v \in Nat PROVE [l EXCEPT !.dry = v] \in LanesType
  BY Zenon DEF LanesType
<1>4. ASSUME NEW v \in Nat PROVE [l EXCEPT !.offset = v] \in LanesType
  BY Zenon DEF LanesType
<1>5. ASSUME NEW v \in Nat PROVE [l EXCEPT !.taken = v] \in LanesType
  BY Zenon DEF LanesType
<1>6. ASSUME NEW v \in Nat PROVE [l EXCEPT !.sent = v] \in LanesType
  BY Zenon DEF LanesType
<1>7. ASSUME NEW v \in Seq(Packets)
      PROVE  [l EXCEPT !.info = v] \in LanesType
  BY Zenon DEF LanesType
<1>8. QED
  BY <1>1, <1>2, <1>3, <1>4, <1>5, <1>6, <1>7

LEMMA CallSetters ==
    ASSUME NEW c \in CallType
    PROVE  /\ \A v \in Pcs :
                /\ [c EXCEPT !.pc = v] \in CallType
           /\ \A v \in Nat :
                /\ [c EXCEPT !.frames = v] \in CallType
                /\ [c EXCEPT !.hops = v] \in CallType
                /\ [c EXCEPT !.missing = v] \in CallType
                /\ [c EXCEPT !.start = v] \in CallType
                /\ [c EXCEPT !.popped = v] \in CallType
<1>1. ASSUME NEW v \in Pcs PROVE [c EXCEPT !.pc = v] \in CallType
  BY Zenon DEF CallType
<1>2. ASSUME NEW v \in Nat PROVE [c EXCEPT !.frames = v] \in CallType
  BY Zenon DEF CallType
<1>3. ASSUME NEW v \in Nat PROVE [c EXCEPT !.hops = v] \in CallType
  BY Zenon DEF CallType
<1>4. ASSUME NEW v \in Nat PROVE [c EXCEPT !.missing = v] \in CallType
  BY Zenon DEF CallType
<1>5. ASSUME NEW v \in Nat PROVE [c EXCEPT !.start = v] \in CallType
  BY Zenon DEF CallType
<1>6. ASSUME NEW v \in Nat PROVE [c EXCEPT !.popped = v] \in CallType
  BY Zenon DEF CallType
<1>7. QED
  BY <1>1, <1>2, <1>3, <1>4, <1>5, <1>6

LEMMA ResamplerSetters ==
    ASSUME NEW r \in ResamplerType
    PROVE  /\ \A v \in Rates :
                /\ [r EXCEPT !.rate = v] \in ResamplerType
           /\ \A v \in BOOLEAN :
                /\ [r EXCEPT !.valid = v] \in ResamplerType
                /\ [r EXCEPT !.path = v] \in ResamplerType
           /\ \A v \in Nat :
                /\ [r EXCEPT !.inHeld = v] \in ResamplerType
                /\ [r EXCEPT !.outHeld = v] \in ResamplerType
<1>1. ASSUME NEW v \in Rates PROVE [r EXCEPT !.rate = v] \in ResamplerType
  BY Zenon DEF ResamplerType
<1>2. ASSUME NEW v \in BOOLEAN PROVE [r EXCEPT !.valid = v] \in ResamplerType
  BY Zenon DEF ResamplerType
<1>3. ASSUME NEW v \in BOOLEAN PROVE [r EXCEPT !.path = v] \in ResamplerType
  BY Zenon DEF ResamplerType
<1>4. ASSUME NEW v \in Nat PROVE [r EXCEPT !.inHeld = v] \in ResamplerType
  BY Zenon DEF ResamplerType
<1>5. ASSUME NEW v \in Nat PROVE [r EXCEPT !.outHeld = v] \in ResamplerType
  BY Zenon DEF ResamplerType
<1>6. QED
  BY <1>1, <1>2, <1>3, <1>4, <1>5

-----------------------------------------------------------------------------
(***************************************************************************)
(* What the parts that several actions share return.                       *)
(***************************************************************************)
LEMMA StartDepthType ==
    ASSUME NEW reason PROVE StartDepth(reason) \in 0 .. FullDepth
BY FullDepthType, SMT DEF StartDepth

LEMMA RecomputedType ==
    ASSUME NEW r \in ResamplerType, NEW isLoaded \in BOOLEAN
    PROVE  Recomputed(r, isLoaded) \in ResamplerType
<1>1. PathOf(r, isLoaded) \in BOOLEAN
  BY Zenon DEF PathOf
<1>2. QED
  BY <1>1, ResamplerSetters DEF Recomputed

LEMMA InvalidatedType ==
    ASSUME resampler \in ResamplerType, NEW stale \in BOOLEAN
    PROVE  Invalidated(stale) \in ResamplerType
<1>1. (resampler.valid /\ ~stale) \in BOOLEAN
  BY Zenon
<1>2. QED
  BY <1>1, ResamplerSetters DEF Invalidated

Pairs == {NoPair} \cup UNION {FreshPairs(rate) : rate \in Rates}

LEMMA WithPairType ==
    ASSUME NEW r \in ResamplerType, NEW pair \in Pairs
    PROVE  WithPair(r, pair) \in ResamplerType
<1>1. /\ pair.pair \in Rates \cup {NoRate}
      /\ pair.inHeld \in Nat /\ pair.outHeld \in Nat
      /\ pair.inPrimed \in Nat /\ pair.outPrimed \in Nat
  BY ProcessorAssumption, SMT DEF Pairs, NoPair, FreshPairs
<1>2. r.rate \in Rates /\ r.path \in BOOLEAN
  BY Zenon DEF ResamplerType
<1>3. QED
  BY <1>1, <1>2, Zenon DEF WithPair, ResamplerType

LEMMA EmptyLanesType ==
    ASSUME NEW n \in Nat PROVE EmptyLanes(n) \in LanesType
BY SMT DEF EmptyLanes, LanesType

LEMMA PrefillType ==
    ASSUME NEW r \in ResamplerType PROVE Prefill(r) \in Nat
<1>1. r.inPrimed \in Nat /\ r.outPrimed \in Nat
  BY Zenon DEF ResamplerType
<1>2. QED
  BY <1>1, ProcessorAssumption, SMT DEF Prefill, ProbeDelay

LEMMA NoVoiceType == NoVoice \in VoiceType
BY FullDepthType, SMT DEF NoVoice, VoiceType

LEMMA ResetAudioType ==
    ASSUME NEW r \in ResamplerType, NEW reason, NEW isLoaded \in BOOLEAN,
           ResetAudio(r, reason, isLoaded)
    PROVE  /\ resampler' \in ResamplerType /\ lanes' \in LanesType
           /\ spectrum' \in SpectrumType /\ voice' \in VoiceType
<1>1. resampler' \in ResamplerType
  BY RecomputedType DEF ResetAudio
<1>2. lanes' \in LanesType
  <2>1. Prefill(Recomputed(r, isLoaded)) \in Nat
    BY RecomputedType, PrefillType
  <2>2. QED
    BY <2>1, EmptyLanesType DEF ResetAudio
<1>3. spectrum' \in SpectrumType
  BY StartDepthType, FreshInStep DEF ResetAudio
<1>4. voice' \in VoiceType
  BY NoVoiceType DEF ResetAudio
<1>5. QED
  BY <1>1, <1>2, <1>3, <1>4

LEMMA ReturnType ==
    ASSUME NEW g \in GateType, NEW disposition \in Dispositions,
           NEW event \in Events, NEW refresh \in BOOLEAN, NEW hops \in Nat,
           NEW frames \in Nat, NEW start \in Int,
           Return(g, disposition, event, refresh, hops, frames, start)
    PROVE  gate' \in GateType /\ result' \in ResultType /\ call' \in CallType
<1>1. gate' \in GateType
  <2>1. (g.jumpPending /\ ~JumpReport(g, event)) \in BOOLEAN
    BY Zenon
  <2>2. QED
    BY <2>1, GateSetters DEF Return
<1>2. result' \in ResultType
  BY SMT DEF Return, ResultType, Events
<1>3. call' \in CallType
  BY SMT DEF Return, NoCall, CallType, Pcs
<1>4. QED
  BY <1>1, <1>2, <1>3

LEMMA AfterHopsType ==
    ASSUME gate \in GateType
    PROVE  /\ AfterHops \in GateType
           /\ AfterHops.reason = gate.reason
           /\ AfterHops.failures = 0 \/ AfterHops = gate
<1>1. 0 \in 0 .. MaxFailures
  BY SMT DEF MaxFailures
<1>2. [gate EXCEPT !.failures = 0, !.reported = FALSE] \in GateType
  BY <1>1, GateSetters
<1>3. CASE call.hops > 0
  BY <1>2, <1>3, SMT DEF AfterHops, GateType
<1>4. CASE ~(call.hops > 0)
  BY <1>4 DEF AfterHops
<1>5. QED
  BY <1>3, <1>4

LEMMA Delivered ==
    ASSUME NEW held \in Nat, NEW frames \in Nat,
           NEW out \in Deliveries(held, frames)
    PROVE  /\ out \in Nat /\ held + frames - out \in Nat
           /\ held + frames - out <= Holdback
BY ProcessorAssumption, SMT DEF Deliveries, Greatest

LEMMA PushedType ==
    ASSUME NEW l \in LanesType, NEW frames \in Nat \ {0}, NEW arrived \in Nat
    PROVE  /\ Pushed(l, frames, arrived) \in LanesType
           /\ Pushed(l, frames, arrived).info
                = Append(l.info, [frames |-> frames, start |-> l.taken])
           /\ Pushed(l, frames, arrived).offset = l.offset
           /\ Pushed(l, frames, arrived).taken = l.taken + frames
<1> DEFINE info == Append(l.info, [frames |-> frames, start |-> l.taken])
<1>1. l.taken \in Nat /\ l.dry \in Nat /\ l.input \in Nat
      /\ l.info \in Seq(Packets)
  BY Zenon DEF LanesType
<1>2. [frames |-> frames, start |-> l.taken] \in Packets
  BY <1>1, SMT DEF Packets
<1>3. info \in Seq(Packets)
  BY <1>1, <1>2, AppendProperties
<1>4. l.dry + frames \in Nat /\ l.input + arrived \in Nat
      /\ l.taken + frames \in Nat
  BY <1>1, SMT
<1>5. Pushed(l, frames, arrived) \in LanesType
  <2>1. [l EXCEPT !.info = info, !.dry = l.dry + frames] \in LanesType
    BY <1>3, <1>4, LanesSetters
  <2>2. [l EXCEPT !.info = info, !.dry = l.dry + frames,
                  !.input = l.input + arrived,
                  !.taken = l.taken + frames] \in LanesType
    BY <1>4, <2>1, LanesSetters
  <2>3. QED
    BY <2>2 DEF Pushed
<1>6. QED
  BY <1>5, SMT DEF Pushed, LanesType

LEMMA HoppedType ==
    ASSUME NEW l \in LanesType, HopReady(l), NEW out \in Nat
    PROVE  /\ Hopped(l, out) \in LanesType
           /\ Hopped(l, out).info = l.info /\ Hopped(l, out).offset = l.offset
<1>1. l.input - Hop \in Nat /\ l.output + out \in Nat
  BY LanesAssumption, SMT DEF LanesType, HopReady, Window
<1>2. Hopped(l, out) \in LanesType
  BY <1>1, LanesSetters DEF Hopped
<1>3. QED
  BY <1>2, SMT DEF Hopped, LanesType

LEMMA PoppedType ==
    ASSUME NEW l \in LanesType, NEW n \in Nat, n <= l.output, n <= l.dry
    PROVE  /\ Popped(l, n) \in LanesType
           /\ Popped(l, n).info = l.info /\ Popped(l, n).offset = l.offset
<1>1. l.output - n \in Nat /\ l.dry - n \in Nat /\ l.sent + n \in Nat
  BY SMT DEF LanesType
<1>2. Popped(l, n) \in LanesType
  BY <1>1, LanesSetters DEF Popped
<1>3. QED
  BY <1>2, SMT DEF Popped, LanesType

LEMMA AvailableType ==
    ASSUME NEW l \in LanesType
    PROVE  /\ Available(l) \in Nat /\ Available(l) <= l.output
           /\ Available(l) <= MaxPacket
BY LanesAssumption, SMT DEF Available, Shorter, LanesType

\* The front packet gives some of what is missing, and is retired when it has
\* nothing left.
LEMMA DrainedType ==
    ASSUME NEW l \in LanesType, NEW missing \in Nat \ {0}, l.info # <<>>,
           l.offset < l.info[1].frames
    PROVE  /\ Share(l, missing) \in 1 .. missing
           /\ Drained(l, missing) \in LanesType
           /\ FrontOpen(Drained(l, missing))
           /\ Drained(l, missing).output = l.output
           /\ Drained(l, missing).dry = l.dry
<1> DEFINE share == Share(l, missing)
           front == l.info[1]
<1>1. /\ l.offset \in Nat
      /\ l.info \in Seq(Packets)
  BY Zenon DEF LanesType
<1>2. front \in Packets /\ Tail(l.info) \in Seq(Packets)
  BY <1>1, EmptySeq, HeadTailProperties, ElementOfSeq
<1>3. front.frames \in Nat \ {0}
  BY <1>2, Zenon DEF Packets
<1>4. share \in 1 .. missing /\ l.offset + share <= front.frames
  BY <1>1, <1>3, SMT DEF Share, Shorter
<1>5. CASE l.offset + share = front.frames
  <2>1. Drained(l, missing) = [l EXCEPT !.info = Tail(l.info), !.offset = 0]
    BY <1>5 DEF Drained
  <2>2. Drained(l, missing) \in LanesType
    <3>1. [l EXCEPT !.info = Tail(l.info)] \in LanesType
      BY <1>2, LanesSetters
    <3>2. [l EXCEPT !.info = Tail(l.info), !.offset = 0] \in LanesType
      BY <3>1, LanesSetters
    <3>3. QED
      BY <2>1, <3>2
  <2>3. /\ Drained(l, missing).info = Tail(l.info)
        /\ Drained(l, missing).offset = 0
        /\ Drained(l, missing).output = l.output
        /\ Drained(l, missing).dry = l.dry
    BY <2>1, SMT DEF LanesType
  <2>4. Tail(l.info) # <<>> => Tail(l.info)[1].frames \in Nat \ {0}
    <3>1. Tail(l.info) # <<>> => Tail(l.info)[1] \in Packets
      BY <1>2, HeadTailProperties
    <3>2. QED
      BY <3>1, Zenon DEF Packets
  <2>5. Drained(l, missing).info # <<>> =>
            Drained(l, missing).offset < Drained(l, missing).info[1].frames
    <3> DEFINE next == Drained(l, missing).info[1].frames
    <3>1. Drained(l, missing).info # <<>> => next \in Nat \ {0}
      BY <2>3, <2>4
    <3> HIDE DEF next
    <3>2. Drained(l, missing).info # <<>> => 0 < next
      BY <3>1, SMT
    <3>3. QED
      BY <2>3, <3>2 DEF next
  <2>6. QED
    BY <1>4, <2>2, <2>3, <2>5 DEF FrontOpen
<1>6. CASE l.offset + share # front.frames
  <2>1. Drained(l, missing) = [l EXCEPT !.offset = l.offset + share]
    BY <1>6 DEF Drained
  <2>2. l.offset + share \in Nat
    BY <1>1, <1>4, SMT
  <2>3. Drained(l, missing) \in LanesType
    BY <2>1, <2>2, LanesSetters
  <2>4. /\ Drained(l, missing).info = l.info
        /\ Drained(l, missing).offset = l.offset + share
        /\ Drained(l, missing).output = l.output
        /\ Drained(l, missing).dry = l.dry
    BY <2>1, SMT DEF LanesType
  <2>5. l.offset + share < front.frames
    <3> HIDE DEF share, front
    <3>1. QED
      BY <1>1, <1>3, <1>4, <1>6, SMT
  <2>6. QED
    BY <1>4, <2>3, <2>4, <2>5 DEF FrontOpen
<1>7. QED
  BY <1>5, <1>6

-----------------------------------------------------------------------------
(***************************************************************************)
(* Types.  That counts stay natural numbers rests on CallInv: what is left *)
(* to pop is there, and the packet in front is never used up.              *)
(***************************************************************************)

\* A step that ends with no call in progress.
LEMMA CallInvIdle ==
    ASSUME call' = NoCall,
           gate'.failures = MaxFailures =>
             gate'.reason = "RepeatedProcessingFailures",
           FrontOpen(lanes')
    PROVE  CallInv'
<1>1. call'.pc = "idle"
  BY SMT DEF NoCall
<1>2. QED
  BY <1>1 DEF CallInv, Idle

LEMMA ResetLanes ==
    ASSUME NEW r, NEW reason, NEW isLoaded, ResetAudio(r, reason, isLoaded)
    PROVE  /\ lanes'.info = <<>> /\ FrontOpen(lanes') /\ voice' = NoVoice
BY DEF ResetAudio, EmptyLanes, FrontOpen

LEMMA ReturnedGate ==
    ASSUME NEW g \in GateType, NEW disposition, NEW event, NEW refresh,
           NEW hops, NEW frames, NEW start,
           Return(g, disposition, event, refresh, hops, frames, start)
    PROVE  /\ call' = NoCall /\ result'.disposition = disposition
           /\ gate'.failures = g.failures /\ gate'.reason = g.reason
           /\ gate'.recovering = g.recovering
BY SMT DEF Return, GateType

LEMMA FailureStep ==
    ASSUME TypeOK, CallInv, ~Stopped, NEW hops \in Nat, FailureResult(hops)
    PROVE  TypeOK' /\ CallInv'
<1> DEFINE failures == gate.failures + 1
           opened   == failures >= MaxFailures
           reason   == IF opened THEN "RepeatedProcessingFailures"
                       ELSE gate.reason
           fresh    == resampler.path
           event    == IF opened THEN "CircuitOpened"
                       ELSE IF gate.reported THEN "None"
                       ELSE "ProcessingFailure"
           g        == [gate EXCEPT !.failures = failures, !.reported = TRUE,
                                    !.reason = reason]
<1>1. /\ ResetAudio(Invalidated(fresh), reason, loaded)
      /\ haveTs' = FALSE
      /\ PassThrough(g, event, fresh /\ ~opened, hops)
      /\ UNCHANGED <<loaded, audible>>
  BY DEF FailureResult
<1>2. gate \in GateType /\ resampler \in ResamplerType
      /\ loaded \in BOOLEAN /\ audible \in BOOLEAN
  BY DEF TypeOK
<1>3. gate.failures \in 0 .. MaxFailures /\ gate.reason \in Reasons
      /\ resampler.path \in BOOLEAN
  BY <1>2, Zenon DEF GateType, ResamplerType
<1>4. failures \in 0 .. MaxFailures
  <2>1. gate.failures # MaxFailures
    BY DEF CallInv, Stopped
  <2>2. QED
    BY <1>3, <2>1, SMT DEF MaxFailures
<1>5. reason \in Reasons
  BY <1>3, SMT DEF Reasons
<1>6. event \in Events /\ (fresh /\ ~opened) \in BOOLEAN
  BY Zenon DEF Events
<1>7. g \in GateType
  <2>1. [gate EXCEPT !.failures = failures, !.reported = TRUE] \in GateType
    BY <1>2, <1>4, GateSetters
  <2>2. QED
    BY <1>5, <2>1, GateSetters
<1>8. g.failures = failures /\ g.reason = reason
  BY <1>2, SMT DEF GateType
<1>9. /\ resampler' \in ResamplerType /\ lanes' \in LanesType
      /\ spectrum' \in SpectrumType /\ voice' \in VoiceType
  <2>1. Invalidated(fresh) \in ResamplerType
    BY <1>2, <1>3, InvalidatedType
  <2>2. QED
    BY <1>1, <1>2, <2>1, ResetAudioType
<1>10. gate' \in GateType /\ result' \in ResultType /\ call' \in CallType
  <2>1. Return(g, "Passthrough", event, fresh /\ ~opened, hops, 0, 0)
    BY <1>1 DEF PassThrough
  <2>2. "Passthrough" \in Dispositions /\ 0 \in Nat /\ 0 \in Int
    BY SMT DEF Dispositions
  <2> HIDE DEF g, event, fresh, opened
  <2>3. QED
    BY <1>6, <1>7, <2>1, <2>2, ReturnType
<1>11. TypeOK'
  BY <1>1, <1>2, <1>9, <1>10 DEF TypeOK
<1>12. call' = NoCall /\ gate'.failures = failures /\ gate'.reason = reason
  <2>1. Return(g, "Passthrough", event, fresh /\ ~opened, hops, 0, 0)
    BY <1>1 DEF PassThrough
  <2> HIDE DEF g, event, fresh, opened
  <2>2. QED
    BY <1>7, <1>8, <2>1, ReturnedGate
<1>13. gate'.failures = MaxFailures =>
         gate'.reason = "RepeatedProcessingFailures"
  BY <1>4, <1>12, SMT DEF MaxFailures
<1>14. QED
  BY <1>1, <1>11, <1>12, <1>13, ResetLanes, CallInvIdle

LEMMA CapacityStep ==
    ASSUME TypeOK, CallInv, NEW oversized \in BOOLEAN,
           CapacityFailure(oversized)
    PROVE  TypeOK' /\ CallInv' /\ gate'.reason = gate.reason
<1> DEFINE fresh == ~gate.recovering /\ resampler.path
           seen  == IF oversized THEN gate.oversized ELSE gate.capacity
           event == IF seen THEN "None"
                    ELSE IF oversized THEN "OversizedPacket"
                    ELSE "CapacityInvariantFailure"
           over  == gate.oversized \/ oversized
           cap   == gate.capacity \/ ~oversized
           warn  == gate.rateWarned \/ fresh
           g     == [gate EXCEPT !.recovering = TRUE, !.oversized = over,
                                 !.capacity = cap, !.rateWarned = warn]
<1>1. /\ \/ gate.recovering /\ UNCHANGED audio
         \/ /\ ResetAudio(Invalidated(fresh), gate.reason, loaded)
            /\ haveTs' = FALSE
      /\ PassThrough(g, event, fresh, 0)
      /\ UNCHANGED <<loaded, audible>>
  BY DEF CapacityFailure
<1>2. gate \in GateType /\ resampler \in ResamplerType
      /\ loaded \in BOOLEAN /\ audible \in BOOLEAN /\ haveTs \in BOOLEAN
      /\ lanes \in LanesType /\ spectrum \in SpectrumType
      /\ voice \in VoiceType
  BY DEF TypeOK
<1>3. event \in Events /\ fresh \in BOOLEAN
      /\ over \in BOOLEAN /\ cap \in BOOLEAN /\ warn \in BOOLEAN
  BY Zenon DEF Events
<1>4. g \in GateType
  <2>1. [gate EXCEPT !.recovering = TRUE] \in GateType
    BY <1>2, GateSetters
  <2>2. [gate EXCEPT !.recovering = TRUE, !.oversized = over] \in GateType
    BY <1>3, <2>1, GateSetters
  <2>3. [gate EXCEPT !.recovering = TRUE, !.oversized = over,
                     !.capacity = cap] \in GateType
    BY <1>3, <2>2, GateSetters
  <2>4. QED
    BY <1>3, <2>3, GateSetters
<1>5. g.failures = gate.failures /\ g.reason = gate.reason
  BY <1>2, SMT DEF GateType
<1>6. Return(g, "Passthrough", event, fresh, 0, 0, 0)
  BY <1>1 DEF PassThrough
<1>7. gate' \in GateType /\ result' \in ResultType /\ call' \in CallType
      /\ call' = NoCall /\ gate'.failures = gate.failures
      /\ gate'.reason = gate.reason
  <2>1. "Passthrough" \in Dispositions /\ 0 \in Nat /\ 0 \in Int
    BY SMT DEF Dispositions
  <2> HIDE DEF g, event, fresh
  <2>2. QED
    BY <1>3, <1>4, <1>5, <1>6, <2>1, ReturnType, ReturnedGate
<1>8. gate'.failures = MaxFailures =>
        gate'.reason = "RepeatedProcessingFailures"
  BY <1>7 DEF CallInv
<1>9. CASE UNCHANGED audio
  <2>1. TypeOK'
    BY <1>1, <1>2, <1>7, <1>9 DEF TypeOK, audio
  <2>2. FrontOpen(lanes')
    BY <1>9 DEF CallInv, audio
  <2>3. QED
    BY <1>7, <1>8, <2>1, <2>2, CallInvIdle
<1>10. CASE /\ ResetAudio(Invalidated(fresh), gate.reason, loaded)
            /\ haveTs' = FALSE
  <2>1. Invalidated(fresh) \in ResamplerType
    BY <1>2, <1>3, InvalidatedType
  <2>2. /\ resampler' \in ResamplerType /\ lanes' \in LanesType
        /\ spectrum' \in SpectrumType /\ voice' \in VoiceType
    BY <1>2, <1>10, <2>1, ResetAudioType
  <2>3. TypeOK'
    BY <1>1, <1>2, <1>7, <1>10, <2>2 DEF TypeOK
  <2>4. QED
    BY <1>7, <1>8, <1>10, <2>3, ResetLanes, CallInvIdle
<1>11. QED
  BY <1>1, <1>9, <1>10

LEMMA ConstantRecords ==
    /\ NoCall \in CallType /\ NoResult \in ResultType
    /\ FreshGate \in GateType /\ FreshGate.failures = 0
    /\ MaxFailures # 0 /\ FreshGate.reason = "None"
<1>1. NoCall \in CallType
  BY SMT DEF NoCall, CallType, Pcs
<1>2. NoResult \in ResultType
  BY SMT DEF NoResult, ResultType, Dispositions, Events
<1>3. FreshGate \in GateType
  BY SMT DEF FreshGate, GateType, Reasons, MaxFailures
<1>4. FreshGate.failures = 0 /\ FreshGate.reason = "None"
  BY SMT DEF FreshGate
<1>5. QED
  BY <1>1, <1>2, <1>3, <1>4, SMT DEF MaxFailures

\* The methods that run between calls reset the lanes or leave them alone.
LEMMA BetweenStep ==
    ASSUME TypeOK, CallInv, Idle, UNCHANGED call, result' = NoResult,
           gate' \in GateType,
           gate'.failures = MaxFailures =>
             gate'.reason = "RepeatedProcessingFailures",
           loaded' \in BOOLEAN, audible' \in BOOLEAN, haveTs' \in BOOLEAN,
           \/ UNCHANGED <<lanes, voice>> /\ resampler' \in ResamplerType
              /\ spectrum' \in SpectrumType
           \/ \E r \in ResamplerType, reason \in Reasons,
                 isLoaded \in BOOLEAN : ResetAudio(r, reason, isLoaded)
    PROVE  TypeOK' /\ CallInv'
<1>1. call' \in CallType /\ result' \in ResultType /\ call'.pc = "idle"
  BY ConstantRecords DEF TypeOK, Idle
<1>2. CASE UNCHANGED <<lanes, voice>> /\ resampler' \in ResamplerType
           /\ spectrum' \in SpectrumType
  <2>1. TypeOK'
    BY <1>1, <1>2 DEF TypeOK
  <2>2. CallInv'
    BY <1>1, <1>2 DEF CallInv, Idle
  <2>3. QED
    BY <2>1, <2>2
<1>3. CASE \E r \in ResamplerType, reason \in Reasons,
              isLoaded \in BOOLEAN : ResetAudio(r, reason, isLoaded)
  <2>1. PICK r \in ResamplerType, reason \in Reasons, isLoaded \in BOOLEAN :
               ResetAudio(r, reason, isLoaded)
    BY <1>3
  <2>2. /\ resampler' \in ResamplerType /\ lanes' \in LanesType
        /\ spectrum' \in SpectrumType /\ voice' \in VoiceType
    BY <2>1, ResetAudioType
  <2>3. TypeOK'
    BY <1>1, <2>2 DEF TypeOK
  <2>4. CallInv'
    BY <1>1, <2>1, ResetLanes DEF CallInv, Idle
  <2>5. QED
    BY <2>3, <2>4
<1>4. QED
  BY <1>2, <1>3

LEMMA OverloadType ==
    ASSUME TypeOK, CallInv,
           DisableForRealtimeOverload \/ ResumeAfterOverload
    PROVE  TypeOK' /\ CallInv'
<1>1. gate \in GateType /\ spectrum \in SpectrumType
      /\ resampler \in ResamplerType /\ haveTs \in BOOLEAN
      /\ loaded \in BOOLEAN /\ audible \in BOOLEAN
  BY DEF TypeOK
<1>2. 0 \in 0 .. MaxFailures /\ 0 # MaxFailures
  BY SMT DEF MaxFailures
<1>3. ASSUME NEW reason \in Reasons
      PROVE  LET g == [gate EXCEPT !.reason = reason, !.failures = 0,
                                   !.reported = FALSE]
             IN  g \in GateType /\ g.failures = 0
  <2>1. [gate EXCEPT !.reason = reason] \in GateType
    BY <1>1, GateSetters
  <2>2. [gate EXCEPT !.reason = reason, !.failures = 0] \in GateType
    BY <1>2, <2>1, GateSetters
  <2>3. [gate EXCEPT !.reason = reason, !.failures = 0,
                     !.reported = FALSE] \in GateType
    BY <2>2, GateSetters
  <2>4. QED
    BY <1>1, <2>3, SMT DEF GateType
<1>4. "RealtimeOverload" \in Reasons /\ "None" \in Reasons
  BY SMT DEF Reasons
<1>5. CASE DisableForRealtimeOverload
  <2>1. /\ Idle /\ result' = NoResult /\ UNCHANGED <<audio, loaded, audible, call>>
        /\ gate' \in GateType /\ gate'.failures = 0
    BY <1>3, <1>4, <1>5 DEF DisableForRealtimeOverload, Between
  <2>2. QED
    BY <1>1, <1>2, <2>1, BetweenStep DEF audio
<1>6. CASE ResumeAfterOverload
  <2>1. /\ Idle /\ result' = NoResult
        /\ UNCHANGED <<lanes, resampler, haveTs, voice, loaded, audible, call>>
        /\ gate' \in GateType /\ gate'.failures = 0
        /\ spectrum' = Resumed(spectrum)
    BY <1>3, <1>4, <1>6 DEF ResumeAfterOverload, Between
  <2>2. Resumed(spectrum) \in SpectrumType
    BY <1>1, ResumedType
  <2>3. QED
    BY <1>1, <1>2, <2>1, <2>2, BetweenStep
<1>7. QED
  BY <1>5, <1>6

LEMMA OtherMethodsType ==
    ASSUME TypeOK, CallInv,
           \/ ResetState \/ EndStream \/ SetControls
           \/ \E rate \in Rates : SetFormat(rate)
           \/ \E pair \in Pairs : ReplaceResamplers(pair)
           \/ ReleaseInvalidResamplers
           \/ \E pair \in Pairs : ActivateModel(pair)
    PROVE  TypeOK' /\ CallInv'
<1>1. gate \in GateType /\ spectrum \in SpectrumType
      /\ resampler \in ResamplerType /\ haveTs \in BOOLEAN
      /\ loaded \in BOOLEAN /\ audible \in BOOLEAN
  BY DEF TypeOK
<1>2. /\ gate.reason \in Reasons /\ "None" \in Reasons
      /\ gate.rateWarned \in BOOLEAN
      /\ resampler.valid \in BOOLEAN
  BY <1>1, Zenon DEF GateType, Reasons, ResamplerType
<1>3. ASSUME NEW warned \in BOOLEAN
      PROVE  /\ [FreshGate EXCEPT !.rateWarned = warned] \in GateType
             /\ [FreshGate EXCEPT !.rateWarned = warned].failures = 0
  <2>1. [FreshGate EXCEPT !.rateWarned = warned] \in GateType
    BY ConstantRecords, GateSetters
  <2>2. [FreshGate EXCEPT !.rateWarned = warned].failures = 0
    BY SMT DEF FreshGate
  <2>3. QED
    BY <2>1, <2>2
<1>4. LET g == [gate EXCEPT !.rateWarned = FALSE]
      IN  /\ g \in GateType /\ g.failures = gate.failures
          /\ g.reason = gate.reason
  <2>1. [gate EXCEPT !.rateWarned = FALSE] \in GateType
    BY <1>1, GateSetters
  <2>2. QED
    BY <1>1, <2>1, SMT DEF GateType
<1>5. gate.failures = MaxFailures =>
        gate.reason = "RepeatedProcessingFailures"
  BY DEF CallInv
<1>6. CASE ResetState
  BY <1>1, <1>2, <1>3, <1>6, ConstantRecords, BetweenStep
     DEF ResetState, Between
<1>7. CASE EndStream
  BY <1>1, <1>2, <1>5, <1>7, BetweenStep DEF EndStream, Between
<1>8. CASE SetControls
  <2>1. (~audible) \in BOOLEAN
    BY Zenon
  <2>2. QED
    BY <1>1, <1>5, <1>8, <2>1, BetweenStep DEF SetControls, Between, audio
<1>9. ASSUME NEW rate \in Rates, SetFormat(rate)
      PROVE  TypeOK' /\ CallInv'
  <2> DEFINE stale == loaded /\ (rate # ModelRate \/ resampler.pair # NoRate)
  <2>1. /\ Idle /\ result' = NoResult /\ UNCHANGED <<loaded, audible, call>>
        /\ haveTs' = FALSE /\ gate' = [gate EXCEPT !.rateWarned = FALSE]
        /\ ResetAudio([Invalidated(stale) EXCEPT !.rate = rate], gate.reason,
                      loaded)
    BY <1>9 DEF SetFormat, Between
  <2>2. stale \in BOOLEAN
    BY Zenon
  <2>3. [Invalidated(stale) EXCEPT !.rate = rate] \in ResamplerType
    BY <1>1, <2>2, InvalidatedType, ResamplerSetters
  <2> HIDE DEF stale
  <2>4. QED
    BY <1>1, <1>2, <1>4, <1>5, <2>1, <2>3, BetweenStep
<1>10. ASSUME NEW pair \in Pairs, ReplaceResamplers(pair)
       PROVE  TypeOK' /\ CallInv'
  <2>1. Idle /\ result' = NoResult /\ UNCHANGED <<loaded, audible, call>>
    BY <1>10 DEF ReplaceResamplers, Between
  <2>2. CASE resampler.pair = NoRate /\ pair = NoPair
    <3>1. /\ resampler' = [resampler EXCEPT !.valid = TRUE]
          /\ UNCHANGED <<lanes, spectrum, haveTs, voice, gate>>
      BY <1>10, <2>2 DEF ReplaceResamplers
    <3>2. resampler' \in ResamplerType
      BY <1>1, <3>1, ResamplerSetters
    <3>3. QED
      BY <1>1, <1>5, <2>1, <3>1, <3>2, BetweenStep
  <2>3. CASE ~(resampler.pair = NoRate /\ pair = NoPair)
    <3>1. /\ ResetAudio(WithPair(resampler, pair), gate.reason, loaded)
          /\ gate' = [gate EXCEPT !.rateWarned = FALSE]
          /\ haveTs' = FALSE
      BY <1>10, <2>3 DEF ReplaceResamplers
    <3>2. WithPair(resampler, pair) \in ResamplerType
      BY <1>1, WithPairType
    <3>3. QED
      BY <1>1, <1>2, <1>4, <1>5, <2>1, <3>1, <3>2, BetweenStep
  <2>4. QED
    BY <2>2, <2>3
<1>11. CASE ReleaseInvalidResamplers
  <2>1. /\ Idle /\ result' = NoResult
        /\ UNCHANGED <<lanes, spectrum, haveTs, voice, loaded, audible, call>>
        /\ gate' = [gate EXCEPT !.rateWarned = FALSE]
        /\ resampler' = Recomputed(WithPair(resampler, NoPair), loaded)
    BY <1>11 DEF ReleaseInvalidResamplers, Between
  <2>2. resampler' \in ResamplerType
    BY <1>1, <2>1, WithPairType, RecomputedType DEF Pairs
  <2>3. QED
    BY <1>1, <1>4, <1>5, <2>1, <2>2, BetweenStep
<1>12. ASSUME NEW pair \in Pairs, ActivateModel(pair)
       PROVE  TypeOK' /\ CallInv'
  <2> DEFINE warned == gate.rateWarned /\ resampler.pair = NoRate
                         /\ pair = NoPair
  <2>1. /\ Idle /\ result' = NoResult /\ UNCHANGED <<audible, call>>
        /\ loaded' = TRUE /\ haveTs' = FALSE
        /\ ResetAudio(WithPair(resampler, pair), "None", TRUE)
        /\ gate' = [FreshGate EXCEPT !.rateWarned = warned]
    BY <1>12 DEF ActivateModel
  <2>2. warned \in BOOLEAN
    BY Zenon
  <2>3. WithPair(resampler, pair) \in ResamplerType
    BY <1>1, WithPairType
  <2> HIDE DEF warned
  <2>4. gate' \in GateType /\ gate'.failures = 0
    BY <1>3, <2>1, <2>2
  <2>5. QED
    BY <1>1, <1>2, <2>1, <2>3, <2>4, ConstantRecords, BetweenStep
<1>13. QED
  BY <1>6, <1>7, <1>8, <1>9, <1>10, <1>11, <1>12

LEMMA FramesType ==
    ASSUME NEW frames \in Frames, frames <= MaxPacket
    PROVE  frames \in Nat \ {0} /\ frames \in 1 .. MaxPacket
BY ProcessorAssumption, LanesAssumption, SMT

LEMMA AdmitType ==
    ASSUME NEW frames \in Nat, Admit(frames)
    PROVE  call' \in CallType /\ call'.pc = "admit" /\ call'.frames = frames
<1>1. "admit" \in Pcs
  BY SMT DEF Pcs
<1>2. call' \in CallType
  BY <1>1, ConstantRecords, CallSetters DEF Admit
<1>3. call'.pc = "admit" /\ call'.frames = frames
  BY SMT DEF Admit, NoCall
<1>4. QED
  BY <1>2, <1>3

LEMMA ArriveTypeOK ==
    ASSUME TypeOK, CallInv, Arrive
    PROVE  TypeOK' /\ CallInv'
<1>1. gate \in GateType /\ spectrum \in SpectrumType
      /\ resampler \in ResamplerType /\ haveTs \in BOOLEAN
      /\ loaded \in BOOLEAN /\ audible \in BOOLEAN /\ lanes \in LanesType
      /\ voice \in VoiceType
  BY DEF TypeOK
<1>2. /\ gate.failures = MaxFailures =>
           gate.reason = "RepeatedProcessingFailures"
      /\ FrontOpen(lanes)
  BY DEF CallInv
<1>3. "Passthrough" \in Dispositions /\ 0 \in Nat /\ 0 \in Int
      /\ "None" \in Events /\ "RateMismatch" \in Events
      /\ "ResamplerRefreshNeeded" \in Events
  BY SMT DEF Dispositions, Events
<1>4. ASSUME NEW g \in GateType, g.failures = gate.failures,
             g.reason = gate.reason, NEW event \in Events,
             PassThrough(g, event, FALSE, 0),
             UNCHANGED <<audio, loaded, audible>>
      PROVE  TypeOK' /\ CallInv'
  <2>1. gate' \in GateType /\ result' \in ResultType /\ call' \in CallType
    BY <1>3, <1>4, ReturnType DEF PassThrough
  <2>2. call' = NoCall /\ gate'.failures = g.failures
        /\ gate'.reason = g.reason
    BY <1>4, ReturnedGate DEF PassThrough
  <2>3. TypeOK'
    BY <1>1, <1>4, <2>1 DEF TypeOK, audio
  <2>4. CallInv'
    BY <1>2, <1>4, <2>2, CallInvIdle DEF audio
  <2>5. QED
    BY <2>3, <2>4
<1>5. CASE PassUntouched
  BY <1>1, <1>3, <1>4, <1>5 DEF PassUntouched
<1>6. ASSUME NEW frames \in Frames, RejectOversized(frames)
      PROVE  TypeOK' /\ CallInv'
  BY <1>6, CapacityStep DEF RejectOversized
<1>7. ASSUME NEW frames \in Frames, PassRateMismatch(frames)
      PROVE  TypeOK' /\ CallInv'
  <2> DEFINE g == [gate EXCEPT !.rateWarned = TRUE]
             event == IF gate.rateWarned THEN "None" ELSE "RateMismatch"
  <2>1. g \in GateType
    BY <1>1, GateSetters
  <2>2. g.failures = gate.failures /\ g.reason = gate.reason
    BY <1>1, SMT DEF GateType
  <2>3. event \in Events
    BY <1>3
  <2>4. PassThrough(g, event, FALSE, 0) /\ UNCHANGED <<audio, loaded, audible>>
    BY <1>7 DEF PassRateMismatch
  <2> HIDE DEF g, event
  <2>5. QED
    BY <1>4, <2>1, <2>2, <2>3, <2>4
<1>8. ASSUME NEW frames \in Frames, AcceptTimestamp(frames)
      PROVE  TypeOK' /\ CallInv'
  <2>1. frames \in Nat /\ frames \in 1 .. MaxPacket /\ ~Stopped
    BY <1>8, FramesType DEF AcceptTimestamp, Admissible
  <2>2. call' \in CallType /\ call'.pc = "admit" /\ call'.frames = frames
    BY <1>8, <2>1, AdmitType DEF AcceptTimestamp
  <2>3. TypeOK'
    BY <1>1, <1>8, <2>2, ConstantRecords DEF AcceptTimestamp, TypeOK
  <2>4. ~Stopped'
    BY <1>8, <2>1 DEF AcceptTimestamp, Stopped
  <2>5. CallInv'
    BY <1>2, <1>8, <2>1, <2>2, <2>4 DEF AcceptTimestamp, CallInv
  <2>6. QED
    BY <2>3, <2>5
<1>9. ASSUME NEW frames \in Frames, JumpNative(frames)
      PROVE  TypeOK' /\ CallInv'
  <2> DEFINE pending == gate.jumpPending \/ ~gate.jumps
             g == [gate EXCEPT !.jumps = TRUE, !.jumpPending = pending]
  <2>1. frames \in Nat /\ frames \in 1 .. MaxPacket /\ ~Stopped
    BY <1>9, FramesType DEF JumpNative, Admissible
  <2>2. call' \in CallType /\ call'.pc = "admit" /\ call'.frames = frames
    BY <1>9, <2>1, AdmitType DEF JumpNative
  <2>3. pending \in BOOLEAN
    BY Zenon
  <2>4. g \in GateType
    <3>1. [gate EXCEPT !.jumps = TRUE] \in GateType
      BY <1>1, GateSetters
    <3>2. QED
      BY <2>3, <3>1, GateSetters
  <2>5. g.failures = gate.failures /\ g.reason = gate.reason
    BY <1>1, SMT DEF GateType
  <2>6. /\ gate' = g /\ ResetAudio(resampler, gate.reason, loaded)
        /\ haveTs' = TRUE /\ result' = NoResult
        /\ UNCHANGED <<loaded, audible>>
    BY <1>9 DEF JumpNative
  <2>7. TypeOK'
    BY <1>1, <2>2, <2>4, <2>6, ResetAudioType, ConstantRecords DEF TypeOK
  <2>8. gate'.failures = gate.failures /\ gate'.reason = gate.reason
    BY <2>5, <2>6
  <2>9. ~Stopped'
    BY <2>1, <2>6, <2>8 DEF Stopped
  <2>10. CallInv'
    BY <1>2, <2>1, <2>2, <2>6, <2>8, <2>9, ResetLanes DEF CallInv
  <2>11. QED
    BY <2>7, <2>10
<1>10. ASSUME NEW frames \in Frames, JumpResampled(frames)
       PROVE  TypeOK' /\ CallInv'
  <2> DEFINE g == [gate EXCEPT !.jumps = TRUE, !.jumpPending = FALSE,
                               !.rateWarned = TRUE]
  <2>1. /\ ResetAudio(Invalidated(TRUE), gate.reason, loaded)
        /\ haveTs' = FALSE /\ UNCHANGED <<loaded, audible>>
        /\ Return(g, "Passthrough", "ResamplerRefreshNeeded", TRUE, 0, 0, 0)
    BY <1>10 DEF JumpResampled, PassThrough
  <2>2. g \in GateType
    <3>1. [gate EXCEPT !.jumps = TRUE] \in GateType
      BY <1>1, GateSetters
    <3>2. [gate EXCEPT !.jumps = TRUE, !.jumpPending = FALSE] \in GateType
      BY <3>1, GateSetters
    <3>3. QED
      BY <3>2, GateSetters
  <2>3. g.failures = gate.failures /\ g.reason = gate.reason
    BY <1>1, SMT DEF GateType
  <2> HIDE DEF g
  <2>4. gate' \in GateType /\ result' \in ResultType /\ call' \in CallType
        /\ call' = NoCall /\ gate'.failures = gate.failures
        /\ gate'.reason = gate.reason
    BY <1>3, <2>1, <2>2, <2>3, ReturnType, ReturnedGate
  <2>5. /\ resampler' \in ResamplerType /\ lanes' \in LanesType
        /\ spectrum' \in SpectrumType /\ voice' \in VoiceType
    BY <1>1, <2>1, InvalidatedType, ResetAudioType
  <2>6. TypeOK'
    BY <1>1, <2>1, <2>4, <2>5 DEF TypeOK
  <2>7. CallInv'
    BY <1>2, <2>1, <2>4, ResetLanes, CallInvIdle
  <2>8. QED
    BY <2>6, <2>7
<1>11. QED
  BY <1>5, <1>6, <1>7, <1>8, <1>9, <1>10 DEF Arrive

LEMMA TakeInputType ==
    ASSUME TypeOK, CallInv, TakeInput
    PROVE  TypeOK' /\ CallInv'
<1>1. gate \in GateType /\ resampler \in ResamplerType /\ lanes \in LanesType
      /\ call \in CallType
  BY DEF TypeOK
<1>2. PICK arrived \in IF resampler.path
                       THEN Deliveries(resampler.inHeld, call.frames)
                       ELSE {call.frames} :
         /\ lanes'     = Pushed(lanes, call.frames, arrived)
         /\ resampler' = FedInput(resampler, call.frames, arrived)
  BY DEF TakeInput
<1>3. /\ call.pc = "admit" /\ gate' = [gate EXCEPT !.recovering = FALSE]
      /\ call' = [call EXCEPT !.pc = "hops"]
      /\ UNCHANGED <<spectrum, voice, haveTs, loaded, audible, result>>
  BY DEF TakeInput, Admitting
<1>4. call.frames \in 1 .. MaxPacket /\ ~Stopped
  BY <1>3, SMT DEF CallInv, Idle
<1>5. call.frames \in Nat \ {0} /\ resampler.inHeld \in Nat
  BY <1>1, <1>4, LanesAssumption, SMT DEF ResamplerType
<1>6. arrived \in Nat /\ resampler.inHeld + call.frames - arrived \in Nat
  <2>1. CASE resampler.path
    BY <1>2, <1>5, <2>1, Delivered
  <2>2. CASE ~resampler.path
    BY <1>2, <1>5, <2>2, SMT
  <2>3. QED
    BY <2>1, <2>2
<1>7. lanes' \in LanesType /\ lanes'.offset = lanes.offset
      /\ lanes'.info = Append(lanes.info, [frames |-> call.frames,
                                           start |-> lanes.taken])
  BY <1>1, <1>2, <1>5, <1>6, PushedType
<1>8. resampler' \in ResamplerType
  BY <1>1, <1>2, <1>6, ResamplerSetters DEF FedInput
<1>9. gate' \in GateType /\ gate'.failures = gate.failures
      /\ gate'.reason = gate.reason
  <2>1. gate' \in GateType
    BY <1>1, <1>3, GateSetters
  <2>2. QED
    BY <1>1, <1>3, <2>1, SMT DEF GateType
<1>10. call' \in CallType /\ call'.pc = "hops" /\ call'.frames = call.frames
  <2>1. "hops" \in Pcs
    BY SMT DEF Pcs
  <2>2. call' \in CallType
    BY <1>1, <1>3, <2>1, CallSetters
  <2>3. QED
    BY <1>1, <1>3, <2>2, SMT DEF CallType
<1>11. TypeOK'
  BY <1>3, <1>7, <1>8, <1>9, <1>10 DEF TypeOK
<1>12. FrontOpen(lanes')
  <2>1. lanes.info \in Seq(Packets) /\ lanes.offset \in Nat
    BY <1>1, Zenon DEF LanesType
  <2>2. CASE lanes.info = <<>>
    <3>1. lanes'.info[1] = [frames |-> call.frames, start |-> lanes.taken]
      BY <1>7, <2>2, SMT
    <3>2. lanes'.info[1].frames = call.frames
      BY <3>1
    <3>3. lanes.offset = 0
      BY <2>2 DEF CallInv, FrontOpen
    <3>4. lanes'.offset < call.frames
      BY <1>5, <1>7, <3>3, SMT
    <3>5. lanes'.info # <<>>
      BY <1>7, <2>1, SMT
    <3>6. QED
      BY <3>2, <3>4, <3>5 DEF FrontOpen
  <2>3. CASE lanes.info # <<>>
    <3>1. lanes'.info[1] = lanes.info[1] /\ lanes'.info # <<>>
      BY <1>7, <2>1, <2>3, SMT
    <3>2. QED
      BY <1>7, <2>3, <3>1 DEF CallInv, FrontOpen
  <2>4. QED
    BY <2>2, <2>3
<1>13. CallInv'
  BY <1>3, <1>4, <1>9, <1>10, <1>12, SMT DEF CallInv, Stopped
<1>14. QED
  BY <1>11, <1>13

LEMMA HopStepType ==
    ASSUME TypeOK, CallInv, DiscardHop \/ EmitHop
    PROVE  TypeOK' /\ CallInv'
<1>1. gate \in GateType /\ resampler \in ResamplerType /\ lanes \in LanesType
      /\ call \in CallType /\ spectrum \in SpectrumType /\ audible \in BOOLEAN
  BY DEF TypeOK
<1>2. /\ call.pc = "hops" /\ HopReady(lanes)
      /\ spectrum' = HopAfter(spectrum, Paused, audible)
      /\ call' = [call EXCEPT !.hops = call.hops + 1]
      /\ UNCHANGED <<haveTs, gate, loaded, audible, result>>
  BY DEF DiscardHop, EmitHop, Hopping
<1>3. Paused \in BOOLEAN
  BY Zenon DEF Paused
<1>4. spectrum' \in SpectrumType
  BY <1>1, <1>2, <1>3, HopType
<1>5. call' \in CallType /\ call'.pc = "hops" /\ call'.frames = call.frames
  <2>1. call.hops + 1 \in Nat
    BY <1>1, SMT DEF CallType
  <2>2. call' \in CallType
    BY <1>1, <1>2, <2>1, CallSetters
  <2>3. QED
    BY <1>1, <1>2, <2>2, SMT DEF CallType
<1>6. /\ voice' \in VoiceType /\ resampler' \in ResamplerType
      /\ lanes' \in LanesType /\ lanes'.info = lanes.info
      /\ lanes'.offset = lanes.offset
  <2>1. CASE DiscardHop
    <3>1. UNCHANGED <<voice, resampler>> /\ lanes' = Hopped(lanes, 0)
      BY <2>1 DEF DiscardHop
    <3>2. 0 \in Nat
      BY SMT
    <3>3. QED
      BY <1>1, <1>2, <3>1, <3>2, HoppedType DEF TypeOK
  <2>2. CASE EmitHop
    <3>1. PICK synthesised \in IF resampler.path
                               THEN Deliveries(resampler.outHeld, Hop)
                               ELSE {Hop} :
             /\ lanes'     = Hopped(lanes, synthesised)
             /\ resampler' = FedOutput(resampler, synthesised)
      BY <2>2 DEF EmitHop
    <3>2. Hop \in Nat /\ resampler.outHeld \in Nat
      BY <1>1, LanesAssumption, SMT DEF ResamplerType
    <3>3. synthesised \in Nat /\ resampler.outHeld + Hop - synthesised \in Nat
      <4>1. CASE resampler.path
        BY <3>1, <3>2, <4>1, Delivered
      <4>2. CASE ~resampler.path
        BY <3>1, <3>2, <4>2, SMT
      <4>3. QED
        BY <4>1, <4>2
    <3>4. resampler' \in ResamplerType
      BY <1>1, <3>1, <3>3, ResamplerSetters DEF FedOutput
    <3>5. voice' \in VoiceType
      BY <1>1, <1>3, <2>2, EmissionType DEF EmitHop, VoiceType
    <3>6. QED
      BY <1>1, <1>2, <3>1, <3>3, <3>4, <3>5, HoppedType
  <2>3. QED
    BY <2>1, <2>2
<1>7. TypeOK'
  BY <1>2, <1>4, <1>5, <1>6 DEF TypeOK
<1>8. CallInv'
  <2>1. FrontOpen(lanes')
    BY <1>6 DEF CallInv, FrontOpen
  <2>2. ~Stopped /\ call.frames \in 1 .. MaxPacket
    BY <1>2, SMT DEF CallInv, Idle
  <2>3. QED
    BY <1>2, <1>5, <2>1, <2>2, SMT DEF CallInv, Stopped
<1>9. QED
  BY <1>7, <1>8

LEMMA PopStepType ==
    ASSUME TypeOK, CallInv,
           ReturnPending \/ StartDrain \/ DrainInfo \/ EmitPacket
    PROVE  TypeOK' /\ CallInv'
<1>1. gate \in GateType /\ resampler \in ResamplerType /\ lanes \in LanesType
      /\ call \in CallType
  BY DEF TypeOK
<1>2. /\ gate.failures = MaxFailures =>
           gate.reason = "RepeatedProcessingFailures"
      /\ FrontOpen(lanes)
  BY DEF CallInv
<1>3. /\ "Pending" \in Dispositions /\ "Processed" \in Dispositions
      /\ "None" \in Events /\ 0 \in Nat /\ 0 \in Int /\ "drain" \in Pcs
  BY SMT DEF Dispositions, Events, Pcs
<1>4. /\ call.hops \in Nat /\ call.missing \in Nat /\ call.popped \in Nat
      /\ call.start \in Nat
  BY <1>1, SMT DEF CallType
<1>5. /\ AfterHops \in GateType /\ AfterHops.reason = gate.reason
      /\ AfterHops.failures = MaxFailures =>
           AfterHops.reason = "RepeatedProcessingFailures"
  <2>1. AfterHops \in GateType /\ AfterHops.reason = gate.reason
        /\ (AfterHops.failures = 0 \/ AfterHops = gate)
    BY <1>1, AfterHopsType
  <2>2. QED
    BY <1>2, <2>1, ConstantRecords
<1>6. CASE ReturnPending
  <2>1. /\ Return(AfterHops, "Pending", "None", FALSE, call.hops, 0, 0)
        /\ UNCHANGED <<audio, loaded, audible>>
    BY <1>6 DEF ReturnPending
  <2>2. gate' \in GateType /\ result' \in ResultType /\ call' \in CallType
        /\ call' = NoCall /\ gate'.failures = AfterHops.failures
        /\ gate'.reason = AfterHops.reason
    BY <1>3, <1>4, <1>5, <2>1, ReturnType, ReturnedGate
  <2>3. TypeOK'
    BY <2>1, <2>2 DEF TypeOK, audio
  <2>4. CallInv'
    BY <1>2, <1>5, <2>1, <2>2, CallInvIdle DEF audio
  <2>5. QED
    BY <2>3, <2>4
<1>7. CASE StartDrain
  <2>1. /\ HopsDone /\ ~NothingToPop(lanes) /\ gate' = AfterHops
        /\ call' = [call EXCEPT !.pc = "drain", !.missing = Available(lanes),
                                !.start = OutputStart(lanes),
                                !.popped = 0]
        /\ UNCHANGED <<audio, loaded, audible, result>>
    BY <1>7 DEF StartDrain
  <2>2. lanes.info # <<>> /\ lanes.info \in Seq(Packets)
        /\ lanes.offset \in Nat /\ lanes.dry \in Nat
        /\ ~(lanes.dry < Available(lanes))
    BY <1>1, <2>1, Zenon DEF NothingToPop, LanesType
  <2>3. lanes.info[1] \in Packets
    BY <2>2, EmptySeq, ElementOfSeq, SMT
  <2>4. lanes.info[1].start \in Nat
    BY <2>3, Zenon DEF Packets
  <2>5. OutputStart(lanes) \in Nat /\ Available(lanes) \in Nat
        /\ Available(lanes) <= lanes.dry
    <3>1. Available(lanes) \in Nat
      BY <1>1, AvailableType
    <3>2. OutputStart(lanes) \in Nat
      BY <2>2, <2>4, SMT DEF OutputStart
    <3> DEFINE available == Available(lanes)
    <3> HIDE DEF available
    <3>3. available \in Nat /\ ~(lanes.dry < available)
      BY <2>2, <3>1 DEF available
    <3>4. available <= lanes.dry
      BY <2>2, <3>3, SMT
    <3>5. QED
      BY <3>1, <3>2, <3>4 DEF available
  <2>6. call' \in CallType
    <3>1. [call EXCEPT !.pc = "drain", !.missing = Available(lanes)]
            \in CallType
      <4>1. [call EXCEPT !.pc = "drain"] \in CallType
        BY <1>1, <1>3, CallSetters
      <4>2. QED
        BY <2>5, <4>1, CallSetters
    <3>2. [call EXCEPT !.pc = "drain", !.missing = Available(lanes),
                       !.start = OutputStart(lanes)] \in CallType
      BY <2>5, <3>1, CallSetters
    <3>3. QED
      BY <1>3, <2>1, <3>2, CallSetters
  <2>7. call'.pc = "drain" /\ call'.missing = Available(lanes)
        /\ call'.popped = 0 /\ call'.frames = call.frames
    BY <1>1, <2>1, SMT DEF CallType
  <2>8. TypeOK'
    BY <1>5, <2>1, <2>6 DEF TypeOK, audio
  <2>9. ~Stopped' /\ call'.frames \in 1 .. MaxPacket
    <3>1. call.pc # "idle"
      BY <2>1, SMT DEF HopsDone
    <3>2. QED
      BY <1>5, <2>1, <2>7, <3>1 DEF CallInv, Stopped, Idle
  <2>10. call'.popped + call'.missing = Available(lanes)
    BY <2>5, <2>7, SMT
  <2>11. CallInv'
    BY <1>2, <1>5, <2>1, <2>5, <2>7, <2>9, <2>10 DEF CallInv, audio
  <2>12. QED
    BY <2>8, <2>11
<1>8. CASE DrainInfo
  <2> DEFINE share == Share(lanes, call.missing)
  <2>1. /\ call.pc = "drain" /\ call.missing > 0 /\ lanes.info # <<>>
        /\ lanes' = Drained(lanes, call.missing)
        /\ call' = [call EXCEPT !.missing = call.missing - share,
                                !.popped = call.popped + share]
        /\ UNCHANGED <<spectrum, resampler, haveTs, voice, gate, loaded,
                       audible, result>>
    BY <1>8 DEF DrainInfo, MoreToDrain
  <2>2. call.missing \in Nat \ {0}
    BY <1>4, <2>1, SMT
  <2>3. /\ share \in 1 .. call.missing /\ lanes' \in LanesType
        /\ FrontOpen(lanes')
        /\ lanes'.output = lanes.output /\ lanes'.dry = lanes.dry
    <3>1. lanes.offset < lanes.info[1].frames
      BY <1>2, <2>1 DEF FrontOpen
    <3>2. QED
      BY <1>1, <2>1, <2>2, <3>1, DrainedType
  <2> HIDE DEF share
  <2>4. call.missing - share \in Nat /\ call.popped + share \in Nat
    BY <1>4, <2>3, SMT
  <2>5. call' \in CallType
    <3>1. [call EXCEPT !.missing = call.missing - share] \in CallType
      BY <1>1, <2>4, CallSetters
    <3>2. QED
      BY <2>1, <2>4, <3>1, CallSetters
  <2>6. call'.pc = "drain" /\ call'.missing = call.missing - share
        /\ call'.popped = call.popped + share /\ call'.frames = call.frames
    BY <1>1, <2>1, SMT DEF CallType
  <2>7. TypeOK'
    BY <2>1, <2>3, <2>5 DEF TypeOK
  <2>8. Available(lanes') = Available(lanes)
    BY <2>3 DEF Available
  <2>9. call'.popped + call'.missing = call.popped + call.missing
    BY <1>4, <2>3, <2>6, SMT
  <2>10. call.popped + call.missing = Available(lanes)
         /\ Available(lanes) <= lanes.dry
         /\ ~Stopped /\ call.frames \in 1 .. MaxPacket
    BY <2>1, SMT DEF CallInv, Idle
  <2>11. CallInv'
    BY <1>2, <2>1, <2>3, <2>6, <2>8, <2>9, <2>10 DEF CallInv, Stopped
  <2>12. QED
    BY <2>7, <2>11
<1>9. CASE EmitPacket
  <2>1. /\ call.pc = "drain" /\ lanes' = Popped(lanes, call.popped)
        /\ Return(gate, "Processed", "None", FALSE, call.hops, call.popped,
                  call.start - Latency(resampler))
        /\ UNCHANGED <<spectrum, resampler, haveTs, voice, loaded, audible>>
    BY <1>9 DEF EmitPacket
  <2>2. call.popped <= lanes.output /\ call.popped <= lanes.dry
    <3> DEFINE available == Available(lanes)
    <3>1. call.popped + call.missing = available /\ available <= lanes.dry
      BY <2>1 DEF CallInv
    <3>2. available \in Nat /\ available <= lanes.output
      BY <1>1, AvailableType
    <3>3. lanes.output \in Nat /\ lanes.dry \in Nat
      BY <1>1, Zenon DEF LanesType
    <3> HIDE DEF available
    <3>4. QED
      BY <1>4, <3>1, <3>2, <3>3, SMT
  <2>3. lanes' \in LanesType /\ lanes'.info = lanes.info
        /\ lanes'.offset = lanes.offset
    BY <1>1, <1>4, <2>1, <2>2, PoppedType
  <2>4. call.start - Latency(resampler) \in Int
    <3>1. Latency(resampler) \in Nat
      BY <1>1, PrefillType DEF Latency, Prefill
    <3>2. QED
      BY <1>4, <3>1, SMT
  <2>5. gate' \in GateType /\ result' \in ResultType /\ call' \in CallType
        /\ call' = NoCall /\ gate'.failures = gate.failures
        /\ gate'.reason = gate.reason
    BY <1>1, <1>3, <1>4, <2>1, <2>4, ReturnType, ReturnedGate
  <2>6. TypeOK'
    BY <2>1, <2>3, <2>5 DEF TypeOK
  <2>7. CallInv'
    <3>1. FrontOpen(lanes')
      BY <1>2, <2>3 DEF FrontOpen
    <3>2. QED
      BY <1>2, <2>5, <3>1, CallInvIdle
  <2>8. QED
    BY <2>6, <2>7
<1>10. QED
  BY <1>6, <1>7, <1>8, <1>9

LEMMA ContinueTypeOK ==
    ASSUME TypeOK, CallInv, Continue
    PROVE  TypeOK' /\ CallInv'
<1>1. call.hops \in Nat /\ 0 \in Nat
  BY SMT DEF TypeOK, CallType
<1>2. CASE RejectCapacity
  BY <1>2, CapacityStep DEF RejectCapacity
<1>3. CASE InputResamplerFails \/ InferenceFails \/ OutputResamplerFails
  <2>1. ~Stopped
    <3>1. call.pc = "admit" \/ call.pc = "hops"
      BY <1>3 DEF InputResamplerFails, InferenceFails, OutputResamplerFails,
                  Admitting, Hopping
    <3>2. QED
      BY <3>1, SMT DEF CallInv, Idle
  <2>2. FailureResult(0) \/ FailureResult(call.hops)
    BY <1>3 DEF InputResamplerFails, InferenceFails, OutputResamplerFails
  <2>3. QED
    BY <1>1, <2>1, <2>2, FailureStep
<1>4. QED
  BY <1>2, <1>3, TakeInputType, HopStepType, PopStepType DEF Continue

LEMMA OthersPairs ==
    ASSUME TypeOK, Others
    PROVE  \/ DisableForRealtimeOverload \/ ResumeAfterOverload
           \/ ResetState \/ EndStream \/ SetControls
           \/ \E rate \in Rates : SetFormat(rate)
           \/ \E pair \in Pairs : ReplaceResamplers(pair)
           \/ ReleaseInvalidResamplers
           \/ \E pair \in Pairs : ActivateModel(pair)
<1>1. resampler.rate \in Rates
  BY Zenon DEF TypeOK, ResamplerType
<1>2. QED
  BY <1>1 DEF Others, Pairs

LEMMA TypeStep ==
    ASSUME TypeOK, CallInv, [Next]_vars
    PROVE  TypeOK' /\ CallInv'
<1>1. CASE Arrive
  BY <1>1, ArriveTypeOK
<1>2. CASE Continue
  BY <1>2, ContinueTypeOK
<1>3. CASE Others
  BY <1>3, OthersPairs, OverloadType, OtherMethodsType
<1>4. CASE UNCHANGED vars
  <2>1. TypeOK'
    BY <1>4 DEF vars, TypeOK
  <2>2. CallInv'
    BY <1>4 DEF vars, CallInv, Idle, Stopped
  <2>3. QED
    BY <2>1, <2>2
<1>5. QED
  BY <1>1, <1>2, <1>3, <1>4 DEF Next

LEMMA TypeInit ==
    ASSUME Init PROVE TypeOK /\ CallInv
<1>1. resampler \in ResamplerType
  <2>1. PICK r \in Rates :
          resampler = [rate |-> r, valid |-> TRUE, path |-> FALSE,
                       pair |-> NoRate, inHeld |-> 0, outHeld |-> 0,
                       inPrimed |-> 0, outPrimed |-> 0]
    BY DEF Init
  <2>2. 0 \in Nat /\ NoRate \in Rates \cup {NoRate}
    BY SMT
  <2>3. QED
    BY <2>1, <2>2, Zenon DEF ResamplerType
<1>2. lanes \in LanesType /\ FrontOpen(lanes)
  <2>1. 0 \in Nat
    BY SMT
  <2>2. lanes = EmptyLanes(0)
    BY DEF Init
  <2>3. QED
    BY <2>1, <2>2, EmptyLanesType DEF EmptyLanes, FrontOpen
<1>3. spectrum \in SpectrumType
  <2>1. FullDepth \in 0 .. FullDepth
    BY FullDepthType, SMT
  <2>2. QED
    BY <2>1, FreshInStep DEF Init
<1>4. TypeOK
  BY <1>1, <1>2, <1>3, ConstantRecords, NoVoiceType DEF Init, TypeOK
<1>5. CallInv
  <2>1. call.pc = "idle" /\ gate = FreshGate
    BY SMT DEF Init, NoCall
  <2>2. QED
    BY <1>2, <2>1, ConstantRecords DEF CallInv, Idle
<1>6. QED
  BY <1>4, <1>5

\* A call in progress has passed process_packet's checks and finds what it set
\* out to pop.
THEOREM CallInvariant == Spec => [](TypeOK /\ CallInv)
<1>1. Init => TypeOK /\ CallInv
  BY TypeInit
<1>2. TypeOK /\ CallInv /\ [Next]_vars => (TypeOK /\ CallInv)'
  BY TypeStep
<1>3. QED
  BY <1>1, <1>2, PTL DEF Spec

\* Counts stay natural numbers, the failures stay within the circuit's limit,
\* the depth within the fade and the history slot within the ring, through
\* every interleaving of packets, failures, pauses and resets.
THEOREM TypeCorrect == Spec => []TypeOK
BY CallInvariant, PTL

-----------------------------------------------------------------------------
(***************************************************************************)
(* The spectral state.  Of all that a step does, only six things concern   *)
(* it: it is kept, reset, advanced by a hop that is discarded or emitted,  *)
(* paused or resumed.                                                      *)
(***************************************************************************)
Kept == UNCHANGED <<spectrum, voice>> /\ gate'.reason = gate.reason

Reset == /\ \E depth \in 0 .. FullDepth : spectrum' = FreshSpectrum(depth)
         /\ voice' = NoVoice

LEMMA ResetAudioResets ==
    ASSUME NEW r, NEW reason, NEW isLoaded, ResetAudio(r, reason, isLoaded)
    PROVE  Reset
BY StartDepthType DEF ResetAudio, Reset

LEMMA CapacitySpectral ==
    ASSUME TypeOK, CallInv, NEW oversized \in BOOLEAN,
           CapacityFailure(oversized)
    PROVE  Kept \/ Reset
<1>1. CASE gate.recovering
  BY <1>1, CapacityStep DEF CapacityFailure, Kept, audio
<1>2. CASE ~gate.recovering
  BY <1>2, ResetAudioResets DEF CapacityFailure
<1>3. QED
  BY <1>1, <1>2

LEMMA SpectralSteps ==
    ASSUME TypeOK, CallInv, [Next]_vars
    PROVE  \/ Kept \/ Reset
           \/ DiscardHop \/ EmitHop
           \/ DisableForRealtimeOverload \/ ResumeAfterOverload
<1>1. gate \in GateType
  BY DEF TypeOK
<1>2. ASSUME NEW g, g.reason = gate.reason, NEW disposition, NEW event,
             NEW refresh, NEW hops, NEW frames, NEW start, g \in GateType,
             Return(g, disposition, event, refresh, hops, frames, start)
      PROVE  gate'.reason = gate.reason
  BY <1>2, ReturnedGate
<1>3. AfterHops \in GateType /\ AfterHops.reason = gate.reason
  BY <1>1, AfterHopsType
<1>4. CASE Arrive
  <2>1. CASE PassUntouched
    BY <1>1, <1>2, <2>1 DEF PassUntouched, PassThrough, Kept, audio
  <2>2. ASSUME NEW frames \in Frames, RejectOversized(frames)
        PROVE  Kept \/ Reset
    BY <2>2, CapacitySpectral DEF RejectOversized
  <2>3. ASSUME NEW frames \in Frames, PassRateMismatch(frames)
        PROVE  Kept
    <3> DEFINE g == [gate EXCEPT !.rateWarned = TRUE]
               event == IF gate.rateWarned THEN "None" ELSE "RateMismatch"
    <3>1. g \in GateType
      BY <1>1, GateSetters
    <3>2. g.reason = gate.reason
      BY <1>1, SMT DEF GateType
    <3>3. /\ Return(g, "Passthrough", event, FALSE, 0, 0, 0)
          /\ UNCHANGED <<spectrum, voice>>
      BY <2>3 DEF PassRateMismatch, PassThrough, audio
    <3> HIDE DEF g, event
    <3>4. QED
      BY <1>2, <3>1, <3>2, <3>3 DEF Kept
  <2>4. ASSUME NEW frames \in Frames, AcceptTimestamp(frames)
        PROVE  Kept
    BY <2>4 DEF AcceptTimestamp, Kept
  <2>5. ASSUME NEW frames \in Frames,
               JumpNative(frames) \/ JumpResampled(frames)
        PROVE  Reset
    BY <2>5, ResetAudioResets DEF JumpNative, JumpResampled
  <2>6. QED
    BY <1>4, <2>1, <2>2, <2>3, <2>4, <2>5 DEF Arrive
<1>5. CASE Continue
  <2>1. CASE RejectCapacity
    BY <2>1, CapacitySpectral DEF RejectCapacity
  <2>2. CASE InputResamplerFails \/ InferenceFails \/ OutputResamplerFails
    BY <2>2, ResetAudioResets
       DEF InputResamplerFails, InferenceFails, OutputResamplerFails,
           FailureResult
  <2>3. CASE TakeInput
    <3>1. gate'.reason = gate.reason
      BY <1>1, <2>3, SMT DEF TakeInput, GateType
    <3>2. QED
      BY <2>3, <3>1 DEF TakeInput, Kept
  <2>4. CASE ReturnPending \/ EmitPacket
    <3>1. UNCHANGED <<spectrum, voice>>
      BY <2>4 DEF ReturnPending, EmitPacket, audio
    <3>2. gate'.reason = gate.reason
      BY <1>1, <1>2, <1>3, <2>4 DEF ReturnPending, EmitPacket
    <3>3. QED
      BY <3>1, <3>2 DEF Kept
  <2>5. CASE StartDrain \/ DrainInfo
    BY <1>3, <2>5 DEF StartDrain, DrainInfo, Kept, audio
  <2>6. QED
    BY <1>5, <2>1, <2>2, <2>3, <2>4, <2>5 DEF Continue
<1>6. CASE Others
  <2>1. CASE ResetState \/ EndStream
    BY <2>1, ResetAudioResets DEF ResetState, EndStream
  <2>2. CASE SetControls
    BY <2>2 DEF SetControls, Kept, audio
  <2>3. ASSUME NEW rate \in Rates, SetFormat(rate)
        PROVE  Reset
    BY <2>3, ResetAudioResets DEF SetFormat
  <2>4. ASSUME NEW pair \in Pairs, ReplaceResamplers(pair)
        PROVE  Kept \/ Reset
    BY <2>4, ResetAudioResets DEF ReplaceResamplers, Kept
  <2>5. CASE ReleaseInvalidResamplers
    <3>1. gate'.reason = gate.reason
      BY <1>1, <2>5, SMT DEF ReleaseInvalidResamplers, GateType
    <3>2. QED
      BY <2>5, <3>1 DEF ReleaseInvalidResamplers, Kept
  <2>6. ASSUME NEW pair \in Pairs, ActivateModel(pair)
        PROVE  Reset
    BY <2>6, ResetAudioResets DEF ActivateModel
  <2>7. QED
    BY <1>6, <2>1, <2>2, <2>3, <2>4, <2>5, <2>6, OthersPairs
<1>7. CASE UNCHANGED vars
  BY <1>7 DEF vars, Kept
<1>8. QED
  BY <1>4, <1>5, <1>6, <1>7 DEF Next

SpectralInv == SpectrumInv /\ VoiceInv

LEMMA HopSpectral ==
    ASSUME TypeOK, CallInv, SpectralInv, DiscardHop \/ EmitHop
    PROVE  SpectralInv'
<1>1. /\ spectrum \in SpectrumType /\ audible \in BOOLEAN
      /\ gate.reason \in Reasons /\ voice \in VoiceType
  BY Zenon DEF TypeOK, GateType
<1>2. /\ spectrum' = HopAfter(spectrum, Paused, audible)
      /\ UNCHANGED gate /\ call.pc = "hops"
  BY DEF DiscardHop, EmitHop, Hopping
<1>3. Paused = (gate.reason = "RealtimeOverload") /\ Paused \in BOOLEAN
  <2>1. ~Stopped
    BY <1>2, SMT DEF CallInv, Idle
  <2>2. gate.reason # "RepeatedProcessingFailures"
    BY <2>1 DEF Stopped
  <2>3. QED
    BY <1>1, <2>2, SMT DEF Paused, Reasons
<1>4. InStep(spectrum, Paused)
  BY <1>3 DEF SpectralInv, SpectrumInv
<1>5. SpectrumInv'
  <2>1. InStep(spectrum', Paused)
    BY <1>1, <1>2, <1>3, <1>4, HopInStep
  <2>2. QED
    BY <1>2, <1>3, <2>1 DEF SpectrumInv
<1>6. CASE DiscardHop
  <2>1. UNCHANGED voice /\ Discarded(spectrum)
    BY <1>6 DEF DiscardHop
  <2>2. spectrum.emitted = 0
    BY <1>1, <1>4, <2>1, SuppressionAssumption, SMT
       DEF Discarded, InStep, Greatest, SpectrumType
  <2>3. voice = NoVoice
    BY <2>2, SMT DEF SpectralInv, VoiceInv
  <2>4. VoiceInv'
    BY <2>1, <2>3 DEF VoiceInv, Aligned
  <2>5. QED
    BY <1>5, <2>4 DEF SpectralInv
<1>7. CASE EmitHop
  <2>1. voice' = Emission(spectrum, Paused, audible) /\ ~Discarded(spectrum)
    BY <1>7 DEF EmitHop
  <2>2. voice'.sources = {voice'.index}
    BY <1>1, <1>3, <1>4, <2>1, EmissionAligned, EmissionType
  <2>3. voice'.level = spectrum'.depth
    BY <1>1, <1>2, <1>3, <1>4, <2>1, EmissionLevel
  <2>4. spectrum'.emitted > 0
    <3>1. spectrum'.emitted = spectrum.emitted + 1
      BY <1>2, <2>1 DEF HopAfter
    <3>2. QED
      BY <1>1, <3>1, SMT DEF SpectrumType
  <2>5. VoiceInv'
    BY <2>2, <2>3, <2>4 DEF VoiceInv, Aligned
  <2>6. QED
    BY <1>5, <2>5 DEF SpectralInv
<1>8. QED
  BY <1>6, <1>7

LEMMA SpectralStep ==
    ASSUME TypeOK, CallInv, SpectralInv, [Next]_vars
    PROVE  SpectralInv'
<1>1. /\ spectrum \in SpectrumType /\ gate.reason \in Reasons
      /\ gate \in GateType
  BY Zenon DEF TypeOK, GateType
<1>2. CASE Kept
  BY <1>2 DEF Kept, SpectralInv, SpectrumInv, VoiceInv, Aligned
<1>3. CASE Reset
  <2>1. PICK depth \in 0 .. FullDepth : spectrum' = FreshSpectrum(depth)
    BY <1>3 DEF Reset
  <2>2. (gate'.reason = "RealtimeOverload") \in BOOLEAN
    BY Zenon
  <2>3. SpectrumInv'
    BY <2>1, <2>2, FreshInStep DEF SpectrumInv
  <2>4. VoiceInv'
    BY <1>3 DEF Reset, VoiceInv, Aligned
  <2>5. QED
    BY <2>3, <2>4 DEF SpectralInv
<1>4. CASE DiscardHop \/ EmitHop
  BY <1>4, HopSpectral
<1>5. CASE DisableForRealtimeOverload
  <2>1. UNCHANGED <<spectrum, voice>> /\ gate.reason = "None"
    BY <1>5 DEF DisableForRealtimeOverload, audio
  <2>2. SpectrumInv'
    BY <2>1, SMT DEF SpectralInv, SpectrumInv, InStep
  <2>3. QED
    BY <2>1, <2>2 DEF SpectralInv, VoiceInv, Aligned
<1>6. CASE ResumeAfterOverload
  <2>1. /\ UNCHANGED voice /\ spectrum' = Resumed(spectrum)
        /\ gate.reason = "RealtimeOverload"
    BY <1>6 DEF ResumeAfterOverload
  <2>2. gate'.reason = "None"
    BY <1>1, <1>6, SMT DEF ResumeAfterOverload, GateType
  <2>3. SpectrumInv'
    <3>1. InStep(Resumed(spectrum), FALSE)
      BY <1>1, <2>1, ResumedInStep DEF SpectralInv, SpectrumInv
    <3>2. (gate'.reason = "RealtimeOverload") = FALSE
      BY <2>2, SMT
    <3>3. QED
      BY <2>1, <3>1, <3>2 DEF SpectrumInv
  <2>4. spectrum'.depth = spectrum.depth
        /\ spectrum'.emitted = spectrum.emitted
    BY <1>1, <2>1, SMT DEF Resumed, SpectrumType
  <2>5. VoiceInv'
    BY <2>1, <2>4 DEF SpectralInv, VoiceInv, Aligned
  <2>6. QED
    BY <2>3, <2>5 DEF SpectralInv
<1>7. QED
  BY <1>2, <1>3, <1>4, <1>5, <1>6, SpectralSteps

LEMMA SpectralInit ==
    ASSUME Init PROVE SpectralInv
<1>1. FullDepth \in 0 .. FullDepth
      /\ (gate.reason = "RealtimeOverload") \in BOOLEAN
  BY FullDepthType, SMT
<1>2. SpectrumInv
  BY <1>1, FreshInStep DEF Init, SpectrumInv
<1>3. QED
  BY <1>2 DEF Init, SpectralInv, VoiceInv, Aligned

LEMMA SpectralInvariant == Spec => [](TypeOK /\ CallInv /\ SpectralInv)
<1>1. Init => TypeOK /\ CallInv /\ SpectralInv
  BY TypeInit, SpectralInit
<1>2. TypeOK /\ CallInv /\ SpectralInv /\ [Next]_vars
        => (TypeOK /\ CallInv /\ SpectralInv)'
  BY TypeStep, SpectralStep
<1>3. QED
  BY <1>1, <1>2, PTL DEF Spec

\* Whatever the model's delay and the fade lengths, and wherever pauses,
\* retries, failures and resets fall, a hop that reaches synthesis mixes the
\* noisy and the enhanced spectrum of one and the same hop.
THEOREM AlwaysAligned == Spec => []Aligned
<1>1. SpectralInv => Aligned
  BY DEF SpectralInv, VoiceInv
<1>2. QED
  BY <1>1, SpectralInvariant, PTL

\* Between neighbouring hops in which it can be heard, the suppression moves by
\* one step of a fade at most.
THEOREM AlwaysSmooth == Spec => SmoothFade
<1> DEFINE Heard == voice # NoVoice /\ voice' # NoVoice
                      /\ voice.audible /\ voice'.audible
<1>1. ASSUME TypeOK, CallInv, SpectralInv, [Next]_vars, Heard
      PROVE  Fades(voice, voice')
  <2>1. spectrum \in SpectrumType /\ spectrum.depth \in 0 .. FullDepth
        /\ audible \in BOOLEAN /\ FadeIn \in Nat /\ FadeOut \in Nat
    BY <1>1, SuppressionAssumption, SMT DEF TypeOK, SpectrumType
  <2>2. voice.level = spectrum.depth /\ spectrum.emitted > 0
    BY <1>1 DEF SpectralInv, VoiceInv
  <2>3. voice'.level = spectrum'.depth
    <3>1. SpectralInv'
      BY <1>1, SpectralStep
    <3>2. QED
      BY <1>1, <3>1 DEF SpectralInv, VoiceInv
  <2>4. CASE spectrum'.depth = spectrum.depth
    BY <2>1, <2>2, <2>3, <2>4, FullDepthType, SMT DEF Fades
  <2>5. CASE Kept \/ DisableForRealtimeOverload \/ ResumeAfterOverload
    <3>1. spectrum' = spectrum \/ spectrum' = Resumed(spectrum)
      BY <2>5 DEF Kept, DisableForRealtimeOverload, ResumeAfterOverload, audio
    <3>2. Resumed(spectrum).depth = spectrum.depth
      BY <2>1, SMT DEF Resumed, SpectrumType
    <3>3. QED
      BY <2>4, <3>1, <3>2
  <2>6. CASE Reset
    BY <1>1, <2>6 DEF Reset
  <2>7. CASE DiscardHop
    <3>1. UNCHANGED voice
      BY <2>7 DEF DiscardHop
    <3>2. QED
      BY <2>2, <2>3, <2>4, <3>1
  <2>8. CASE EmitHop
    <3>1. /\ spectrum' = HopAfter(spectrum, Paused, audible)
          /\ voice' = Emission(spectrum, Paused, audible)
      BY <2>8 DEF EmitHop
    <3>2. Paused \in BOOLEAN
      BY Zenon DEF Paused
    <3>3. audible = TRUE
      <4>1. voice'.audible = audible
        BY <2>1, <3>1, <3>2, EmissionType
      <4>2. QED
        BY <1>1, <2>1, <4>1
    <3>4. /\ spectrum'.depth <= spectrum.depth + FadeOut
          /\ spectrum.depth <= spectrum'.depth + FadeIn
      BY <2>1, <2>2, <3>1, <3>2, <3>3, HopFades
    <3>5. QED
      BY <2>2, <2>3, <3>4 DEF Fades
  <2>9. QED
    BY <1>1, <2>5, <2>6, <2>7, <2>8, SpectralSteps
<1>2. TypeOK /\ CallInv /\ SpectralInv /\ [Next]_vars
        => [Heard => Fades(voice, voice')]_vars
  BY <1>1
<1>3. QED
  BY <1>2, SpectralInvariant, PTL DEF Spec, SmoothFade
=============================================================================
