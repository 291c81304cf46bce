--------------------------- MODULE CapacityProofs ---------------------------
(***************************************************************************)
(* The plan of CapacityPlan, made at three rates, has room for one packet  *)
(* more at every rate between them; and the lanes of TwoRates never ask    *)
(* for more than that, so that rings made by it never refuse a packet.     *)
(***************************************************************************)
EXTENDS TwoRates, SequenceTheorems, TLAPS

\* Rounding up: the least whole number of frames that is enough.
LEMMA DivBounds ==
    ASSUME NEW a \in Nat, NEW b \in Nat \ {0}
    PROVE  /\ a \div b \in Nat
           /\ (a \div b) * b <= a
           /\ a < (a \div b) * b + b
  OBVIOUS

LEMMA CeilBounds ==
    ASSUME NEW frames \in Nat, NEW num \in Nat, NEW den \in Nat \ {0}
    PROVE  /\ ScaleCeil(frames, num, den) \in Nat
           /\ frames * num <= ScaleCeil(frames, num, den) * den
           /\ ScaleCeil(frames, num, den) * den <= frames * num + den - 1
<1> DEFINE a == frames * num + den - 1
           q == a \div den
<1>1. frames * num \in Nat  OBVIOUS
<1>2. a \in Nat  BY <1>1
<1>3. /\ q \in Nat /\ q * den <= a /\ a < q * den + den
  <2> HIDE DEF a
  <2> QED BY <1>2, DivBounds
<1>4. q * den \in Nat  BY <1>3
<1>5. ScaleCeil(frames, num, den) = q  BY DEF ScaleCeil
<1> DEFINE p == frames * num
           d == q * den
<1>6. /\ d <= p + den - 1 /\ p + den - 1 < d + den /\ d \in Nat /\ p \in Nat
  BY <1>1, <1>3, <1>4
<1>7. p <= d
  <2> HIDE DEF p, d
  <2> QED BY <1>6
<1> QED BY <1>3, <1>5, <1>6, <1>7

LEMMA TimesMonotone ==
    ASSUME NEW a \in Nat, NEW b \in Nat, NEW c \in Nat, a <= b
    PROVE  a * c <= b * c
  OBVIOUS

LEMMA TimesCancel ==
    ASSUME NEW a \in Nat, NEW b \in Nat, NEW c \in Nat \ {0}, a * c <= b * c
    PROVE  a <= b
  OBVIOUS

LEMMA LongerType ==
    ASSUME NEW a \in Nat, NEW b \in Nat
    PROVE  Longer(a, b) \in Nat /\ a <= Longer(a, b) /\ b <= Longer(a, b)
  BY DEF Longer

LEMMA FramesType ==
    ASSUME NEW frames \in Nat, NEW native \in Nat \ {0},
           NEW model \in Nat \ {0}
    PROVE  /\ ModelFrames(frames, native, model) \in Nat
           /\ NativeFrames(frames, native, model) \in Nat
<1> DEFINE up   == ScaleCeil(frames, model, native)
           down == ScaleCeil(frames, native, model)
<1>1. up \in Nat /\ down \in Nat
  BY CeilBounds
<1>2. Slack \in Nat
  BY LanesAssumption
<1> HIDE DEF up, down
<1>3. /\ ModelFrames(frames, native, model)
           = IF native = model THEN frames ELSE up + Slack
      /\ NativeFrames(frames, native, model)
           = IF native = model THEN frames ELSE down + Slack
  BY DEF ModelFrames, NativeFrames, up, down
<1> QED BY <1>1, <1>2, <1>3

LEMMA SamplesType ==
    ASSUME NEW native \in Nat \ {0}, NEW model \in Nat \ {0},
           NEW window \in Nat, NEW delay \in Nat
    PROVE  /\ InputSamples(native, model, window) \in Nat
           /\ OutputSamples(native, model, window) \in Nat
           /\ DrySamples(native, model, window, delay) \in Nat
<1>1. InputSamples(native, model, window) \in Nat
  BY FramesType, LanesAssumption DEF InputSamples
<1>2. OutputSamples(native, model, window) \in Nat
  <2> DEFINE i == InputSamples(native, model, window)
             o == NativeFrames(i, native, model)
  <2>1. o \in Nat
    <3> HIDE DEF i
    <3> QED BY <1>1, FramesType DEF i
  <2>2. OutputSamples(native, model, window) = MaxPacket + o
    BY DEF OutputSamples
  <2> HIDE DEF o
  <2> QED BY <2>1, <2>2, LanesAssumption
<1>3. ScaleCeil(delay, native, model) \in Nat
  BY CeilBounds
<1> QED BY <1>1, <1>2, <1>3, LanesAssumption, PlanAssumption DEF DrySamples

PlanType == [input : Nat, output : Nat, dry : Nat, infos : Nat]

LEMMA IncludeGrows ==
    ASSUME NEW plan \in PlanType,
           NEW native \in Nat \ {0}, NEW model \in Nat \ {0},
           NEW window \in Nat, NEW delay \in Nat,
           NEW new, new = Include(plan, native, model, window, delay)
    PROVE  /\ new \in PlanType
           /\ plan.input <= new.input /\ plan.output <= new.output
           /\ plan.dry <= new.dry /\ plan.infos <= new.infos
           /\ InputSamples(native, model, window) <= new.input
           /\ OutputSamples(native, model, window) <= new.output
           /\ DrySamples(native, model, window, delay) <= new.dry
           /\ DrySamples(native, model, window, delay) <= new.infos
<1> DEFINE i == InputSamples(native, model, window)
           o == OutputSamples(native, model, window)
           d == DrySamples(native, model, window, delay)
<1>1. i \in Nat /\ o \in Nat /\ d \in Nat  BY SamplesType
<1>2. new = [input |-> Longer(plan.input, i),
             output |-> Longer(plan.output, o),
             dry |-> Longer(plan.dry, d), infos |-> Longer(plan.infos, d)]
  BY DEF Include
<1> HIDE DEF i, o, d
<1>3. /\ plan.input \in Nat /\ plan.output \in Nat
      /\ plan.dry \in Nat /\ plan.infos \in Nat
  BY DEF PlanType
<1>4. /\ new \in PlanType
      /\ plan.input <= new.input /\ plan.output <= new.output
      /\ plan.dry <= new.dry /\ plan.infos <= new.infos
      /\ i <= new.input /\ o <= new.output /\ d <= new.dry /\ d <= new.infos
  BY <1>1, <1>2, <1>3, LongerType DEF PlanType
<1> QED BY <1>4 DEF i, o, d

\* A plan has the room of each of the three rates it is made for.
LEMMA PlanHasRoom ==
    ASSUME NEW model \in Nat, NEW window \in Nat, NEW delay \in Nat,
           Supported(model, window),
           NEW rate \in {MinRate, model, MaxRate}
    PROVE  LET plan == Plan(model, window, delay)
           IN  /\ plan \in PlanType
               /\ InputSamples(rate, model, window) <= plan.input
               /\ OutputSamples(rate, model, window) <= plan.output
               /\ DrySamples(rate, model, window, delay) <= plan.dry
               /\ DrySamples(rate, model, window, delay) <= plan.infos
<1> DEFINE one   == Include(LeastPlan, MinRate, model, window, delay)
           two   == Include(one, model, model, window, delay)
           three == Include(two, MaxRate, model, window, delay)
<1>1. /\ model \in Nat \ {0} /\ MinRate \in Nat \ {0}
      /\ MaxRate \in Nat \ {0} /\ rate \in Nat \ {0}
  BY PlanAssumption DEF Supported
<1>2. Plan(model, window, delay) = three
  BY DEF Plan
<1> HIDE DEF one, two, three
<1>3. LeastPlan \in PlanType
  BY PlanAssumption DEF PlanType
<1>4. /\ one \in PlanType
      /\ InputSamples(MinRate, model, window) <= one.input
      /\ OutputSamples(MinRate, model, window) <= one.output
      /\ DrySamples(MinRate, model, window, delay) <= one.dry
      /\ DrySamples(MinRate, model, window, delay) <= one.infos
  BY <1>1, <1>3, IncludeGrows DEF one
<1>5. /\ two \in PlanType
      /\ one.input <= two.input /\ one.output <= two.output
      /\ one.dry <= two.dry /\ one.infos <= two.infos
      /\ InputSamples(model, model, window) <= two.input
      /\ OutputSamples(model, model, window) <= two.output
      /\ DrySamples(model, model, window, delay) <= two.dry
      /\ DrySamples(model, model, window, delay) <= two.infos
  BY <1>1, <1>4, IncludeGrows DEF two
<1>6. /\ three \in PlanType
      /\ two.input <= three.input /\ two.output <= three.output
      /\ two.dry <= three.dry /\ two.infos <= three.infos
      /\ InputSamples(MaxRate, model, window) <= three.input
      /\ OutputSamples(MaxRate, model, window) <= three.output
      /\ DrySamples(MaxRate, model, window, delay) <= three.dry
      /\ DrySamples(MaxRate, model, window, delay) <= three.infos
  BY <1>1, <1>5, IncludeGrows DEF three
<1>7. /\ InputSamples(rate, model, window) \in Nat
      /\ OutputSamples(rate, model, window) \in Nat
      /\ DrySamples(rate, model, window, delay) \in Nat
  BY <1>1, SamplesType
<1>8. /\ one.input \in Nat /\ one.output \in Nat
      /\ one.dry \in Nat /\ one.infos \in Nat
      /\ two.input \in Nat /\ two.output \in Nat
      /\ two.dry \in Nat /\ two.infos \in Nat
      /\ three.input \in Nat /\ three.output \in Nat
      /\ three.dry \in Nat /\ three.infos \in Nat
  BY <1>4, <1>5, <1>6 DEF PlanType
<1>9. /\ InputSamples(rate, model, window) <= three.input
      /\ OutputSamples(rate, model, window) <= three.output
      /\ DrySamples(rate, model, window, delay) <= three.dry
      /\ DrySamples(rate, model, window, delay) <= three.infos
  <2>1. CASE rate = MinRate
    BY <2>1, <1>4, <1>5, <1>6, <1>7, <1>8
  <2>2. CASE rate = model
    BY <2>2, <1>5, <1>6, <1>7, <1>8
  <2>3. CASE rate = MaxRate
    BY <2>3, <1>6
  <2> QED BY <2>1, <2>2, <2>3
<1> QED BY <1>2, <1>6, <1>9

LEMMA CeilMonotone ==
    ASSUME NEW a \in Nat, NEW more \in Nat, a <= more, NEW num \in Nat,
           NEW low \in Nat \ {0}, NEW den \in Nat \ {0}, low <= den
    PROVE  ScaleCeil(a, num, den) <= ScaleCeil(more, num, low)
<1> DEFINE g == ScaleCeil(a, num, den)
           h == ScaleCeil(more, num, low)
<1>1. g \in Nat /\ g * den <= a * num + den - 1
  BY CeilBounds
<1>2. h \in Nat /\ more * num <= h * low
  BY CeilBounds
<1> HIDE DEF g, h
<1>3. a * num <= more * num /\ low * h <= den * h
  BY <1>2, TimesMonotone
<1>4. /\ h * low = low * h /\ den * h = h * den
      /\ a * num \in Nat /\ more * num \in Nat /\ h * low \in Nat
      /\ h * den \in Nat /\ g * den \in Nat
  BY <1>1, <1>2
<1>5. g * den <= h * den + den - 1
  BY <1>1, <1>2, <1>3, <1>4
<1>6. ~(h + 1 <= g)
  <2> SUFFICES ASSUME h + 1 <= g PROVE FALSE  OBVIOUS
  <2>1. (h + 1) * den <= g * den
    BY <1>1, <1>2, TimesMonotone
  <2>2. (h + 1) * den = h * den + den
    BY <1>2
  <2> QED BY <2>1, <2>2, <1>4, <1>5
<1>7. g <= h  BY <1>1, <1>2, <1>6
<1> QED BY <1>7 DEF g, h

(***************************************************************************)
(* What a packet asks for, and what the plan has, in frames times rates.   *)
(***************************************************************************)
LEMMA RoomAsked ==
    ASSUME NEW native \in Nat \ {0}, NEW model \in Nat \ {0},
           native # model,
           NEW window \in Nat, NEW spare \in Nat, NEW frames \in Nat,
           NEW input \in Nat, NEW output \in Nat,
           output * model + input * native
             <= window * native + spare * model
    PROVE  LET arriving == input + ModelFrames(frames, native, model)
           IN  (output + NativeFrames(arriving, native, model)) * model
                 <= window * native + spare * model + frames * model
                      + native + Slack * native + model + Slack * model - 2
<1> DEFINE g == ScaleCeil(frames, model, native)
           arriving == input + ModelFrames(frames, native, model)
           t == ScaleCeil(input + g + Slack, native, model)
<1>1. Slack \in Nat  BY LanesAssumption
<1>2. g \in Nat /\ g * native <= frames * model + native - 1
  BY CeilBounds
<1>3. arriving = input + g + Slack
  <2>1. ModelFrames(frames, native, model) = g + Slack
    BY DEF ModelFrames
  <2> HIDE DEF g
  <2> QED BY <1>1, <1>2, <2>1
<1>4. NativeFrames(arriving, native, model) = t + Slack
  <2> HIDE DEF arriving, g
  <2> QED BY <1>3 DEF NativeFrames
<1>5. t \in Nat /\ t * model <= (input + g + Slack) * native + model - 1
  <2> HIDE DEF g
  <2>1. input + g + Slack \in Nat  BY <1>1, <1>2
  <2> QED BY <2>1, CeilBounds
<1> HIDE DEF g, t, arriving
<1>6. (output + NativeFrames(arriving, native, model)) * model
        = output * model + t * model + Slack * model
  BY <1>1, <1>4, <1>5
<1>7. (input + g + Slack) * native
        = input * native + g * native + Slack * native
  BY <1>1, <1>2
<1>8. /\ output * model \in Nat /\ t * model \in Nat
      /\ Slack * model \in Nat /\ Slack * native \in Nat
      /\ input * native \in Nat /\ g * native \in Nat
      /\ frames * model \in Nat /\ window * native \in Nat
      /\ spare * model \in Nat
  BY <1>1, <1>2, <1>5
<1> DEFINE om == output * model
           tm == t * model
           sm == Slack * model
           sn == Slack * native
           in == input * native
           gn == g * native
           fm == frames * model
           wn == window * native
           pm == spare * model
<1>9. om + tm + sm <= wn + pm + fm + native + sn + model + sm - 2
  <2>1. /\ om + in <= wn + pm /\ gn <= fm + native - 1
        /\ tm <= in + gn + sn + model - 1
        /\ om \in Nat /\ tm \in Nat /\ sm \in Nat /\ sn \in Nat
        /\ in \in Nat /\ gn \in Nat /\ fm \in Nat /\ wn \in Nat
        /\ pm \in Nat
    BY <1>2, <1>5, <1>7, <1>8
  <2> HIDE DEF om, tm, sm, sn, in, gn, fm, wn, pm
  <2> QED BY <2>1
<1>10. (output + NativeFrames(arriving, native, model)) * model
         <= wn + pm + fm + native + sn + model + sm - 2
  BY <1>6, <1>9
<1> QED BY <1>10 DEF arriving

LEMMA RoomPlanned ==
    ASSUME NEW model \in Nat \ {0}, NEW window \in Nat,
           NEW rate \in Nat \ {0}, rate # model
    PROVE  2 * (MaxPacket * model) + window * rate + Slack * rate
             + Slack * model <= OutputSamples(rate, model, window) * model
<1> DEFINE G == ScaleCeil(MaxPacket, model, rate)
           T == ScaleCeil(window + (G + Slack), rate, model)
<1>1. Slack \in Nat /\ MaxPacket \in Nat  BY LanesAssumption
<1>2. G \in Nat /\ MaxPacket * model <= G * rate
  BY <1>1, CeilBounds
<1>3. T \in Nat /\ (window + (G + Slack)) * rate <= T * model
  <2> HIDE DEF G
  <2>1. window + (G + Slack) \in Nat  BY <1>1, <1>2
  <2> QED BY <2>1, CeilBounds
<1>4. OutputSamples(rate, model, window) = MaxPacket + (T + Slack)
  BY DEF OutputSamples, InputSamples, ModelFrames, NativeFrames
<1> HIDE DEF G, T
<1>5. (MaxPacket + (T + Slack)) * model
        = MaxPacket * model + T * model + Slack * model
  BY <1>1, <1>3
<1>6. (window + (G + Slack)) * rate
        = window * rate + G * rate + Slack * rate
  BY <1>1, <1>2
<1> DEFINE pm == MaxPacket * model
           tm == T * model
           sm == Slack * model
           wr == window * rate
           gr == G * rate
           sr == Slack * rate
<1>7. /\ pm \in Nat /\ tm \in Nat /\ sm \in Nat
      /\ wr \in Nat /\ gr \in Nat /\ sr \in Nat
  BY <1>1, <1>2, <1>3
<1>8. pm <= gr /\ wr + gr + sr <= tm
  BY <1>2, <1>3, <1>6
<1>9. 2 * pm + wr + sr + sm <= pm + tm + sm
  <2> HIDE DEF pm, tm, sm, wr, gr, sr
  <2> QED BY <1>7, <1>8
<1> QED BY <1>4, <1>5, <1>9

(***************************************************************************)
(* The setting of the theorem.                                             *)
(***************************************************************************)
Stream(native, model, window, delay, spare) ==
    /\ model \in MinRate .. MaxRate /\ native \in MinRate .. MaxRate
    /\ Covers(native, model)
    /\ window \in 1 .. MaxWindow /\ delay \in Nat /\ spare \in Nat
    /\ Spare(spare)

LEMMA StreamFacts ==
    ASSUME NEW native, NEW model, NEW window, NEW delay, NEW spare,
           Stream(native, model, window, delay, spare)
    PROVE  /\ model \in Nat \ {0} /\ native \in Nat \ {0}
           /\ window \in Nat /\ delay \in Nat /\ spare \in Nat
           /\ MinRate <= model /\ model <= MaxRate
           /\ MinRate <= native /\ native <= MaxRate
           /\ Supported(model, window)
           /\ MinRate \in Nat \ {0} /\ MaxRate \in Nat \ {0}
           /\ Slack \in Nat /\ MaxPacket \in Nat /\ MaxPrefill \in Nat
           /\ spare + 2 * Slack + 2 <= MaxPacket
  BY LanesAssumption, PlanAssumption DEF Stream, Spare, Supported

LEMMA InputFits ==
    ASSUME NEW native, NEW model, NEW window, NEW delay, NEW spare,
           Stream(native, model, window, delay, spare),
           NEW frames \in 0 .. MaxPacket, NEW input \in 0 .. window - 1
    PROVE  input + ModelFrames(frames, native, model)
             <= Plan(model, window, delay).input
<1> DEFINE plan == Plan(model, window, delay)
<1>1. /\ model \in Nat \ {0} /\ native \in Nat \ {0}
      /\ window \in Nat /\ delay \in Nat
      /\ MinRate <= model /\ MinRate <= native /\ Supported(model, window)
      /\ MinRate \in Nat \ {0} /\ Slack \in Nat /\ MaxPacket \in Nat
  BY StreamFacts
<1>2. /\ plan.input \in Nat
      /\ InputSamples(model, model, window) <= plan.input
      /\ InputSamples(MinRate, model, window) <= plan.input
  BY <1>1, PlanHasRoom DEF PlanType
<1> HIDE DEF plan
<1>3. CASE native = model
  <2>1. ModelFrames(frames, native, model) = frames
    BY <1>3 DEF ModelFrames
  <2>2. InputSamples(model, model, window) = window + MaxPacket
    BY DEF InputSamples, ModelFrames
  <2>3. input + frames <= window + MaxPacket
    BY <1>1
  <2>4. input + frames \in Nat /\ window + MaxPacket \in Nat
    BY <1>1
  <2> QED BY <1>2, <2>1, <2>2, <2>3, <2>4 DEF plan
<1>4. CASE native # model /\ model # MinRate
  <2> DEFINE g == ScaleCeil(frames, model, native)
             h == ScaleCeil(MaxPacket, model, MinRate)
  <2>1. g <= h /\ g \in Nat /\ h \in Nat
    <3>1. frames \in Nat /\ frames <= MaxPacket  BY <1>1
    <3> QED BY <1>1, <3>1, CeilMonotone, CeilBounds
  <2>2. ModelFrames(frames, native, model) = g + Slack
    BY <1>4 DEF ModelFrames
  <2>3. InputSamples(MinRate, model, window) = window + (h + Slack)
    BY <1>4 DEF InputSamples, ModelFrames
  <2> HIDE DEF g, h
  <2>4. input + (g + Slack) <= window + (h + Slack)
    BY <1>1, <2>1
  <2>5. input + (g + Slack) \in Nat /\ window + (h + Slack) \in Nat
    BY <1>1, <2>1
  <2> QED BY <1>2, <2>2, <2>3, <2>4, <2>5 DEF plan
<1>5. CASE native # model /\ model = MinRate
  <2> DEFINE g == ScaleCeil(frames, model, native)
             most == MaxPacket - Slack
  <2>1. g \in Nat /\ g * native <= frames * model + native - 1
    <3>1. frames \in Nat  BY <1>1
    <3> QED BY <1>1, <3>1, CeilBounds
  <2>2. most \in Nat /\ MaxPacket * model <= most * native
    BY <1>1, <1>5, StreamFacts DEF Stream, Covers
  <2>3. frames \in Nat /\ frames * model <= MaxPacket * model
    BY <1>1, TimesMonotone
  <2> HIDE DEF g, most
  <2>4. g * native <= most * native + native - 1
    <3> DEFINE gn == g * native
               fm == frames * model
               pm == MaxPacket * model
               mn == most * native
    <3>1. gn \in Nat /\ fm \in Nat /\ pm \in Nat /\ mn \in Nat
      BY <1>1, <2>1, <2>2, <2>3
    <3>2. gn <= mn + native - 1
      <4>1. gn <= fm + native - 1 /\ fm <= pm /\ pm <= mn
        BY <2>1, <2>2, <2>3
      <4> HIDE DEF gn, fm, pm, mn
      <4> QED BY <1>1, <3>1, <4>1
    <3> QED BY <3>2
  <2>5. ~(most + 1 <= g)
    <3> SUFFICES ASSUME most + 1 <= g PROVE FALSE  OBVIOUS
    <3>1. (most + 1) * native <= g * native
      BY <1>1, <2>1, <2>2, TimesMonotone
    <3>2. (most + 1) * native = most * native + native
      BY <1>1, <2>2
    <3> QED BY <1>1, <2>1, <2>2, <2>4, <3>1, <3>2
  <2>6. g + Slack <= MaxPacket
    <3>1. most + Slack = MaxPacket  BY <1>1 DEF most
    <3> QED BY <1>1, <2>1, <2>2, <2>5, <3>1
  <2>7. ModelFrames(frames, native, model) = g + Slack
    BY <1>5 DEF ModelFrames, g
  <2>8. InputSamples(model, model, window) = window + MaxPacket
    BY DEF InputSamples, ModelFrames
  <2>9. input + (g + Slack) <= window + MaxPacket
    BY <1>1, <2>1, <2>6
  <2>10. input + (g + Slack) \in Nat /\ window + MaxPacket \in Nat
    BY <1>1, <2>1
  <2> QED BY <1>2, <2>7, <2>8, <2>9, <2>10 DEF plan
<1> QED BY <1>3, <1>4, <1>5

LEMMA OutputFits ==
    ASSUME NEW native, NEW model, NEW window, NEW delay, NEW spare,
           Stream(native, model, window, delay, spare),
           NEW frames \in 0 .. MaxPacket,
           NEW input \in Nat, NEW output \in Nat,
           output * model + input * native
             <= window * native + spare * model
    PROVE  output + NativeFrames(input + ModelFrames(frames, native, model),
                                 native, model)
             <= Plan(model, window, delay).output
<1> DEFINE plan == Plan(model, window, delay)
           arriving == input + ModelFrames(frames, native, model)
           need == output + NativeFrames(arriving, native, model)
<1>1. /\ model \in Nat \ {0} /\ native \in Nat \ {0}
      /\ window \in Nat /\ delay \in Nat /\ spare \in Nat
      /\ MinRate <= model /\ model <= MaxRate /\ native <= MaxRate
      /\ Supported(model, window)
      /\ MinRate \in Nat \ {0} /\ MaxRate \in Nat \ {0}
      /\ Slack \in Nat /\ MaxPacket \in Nat /\ frames \in Nat
      /\ frames <= MaxPacket /\ spare + 2 * Slack + 2 <= MaxPacket
  BY StreamFacts
<1>2. /\ plan.output \in Nat
      /\ OutputSamples(model, model, window) <= plan.output
      /\ OutputSamples(MaxRate, model, window) <= plan.output
  BY <1>1, PlanHasRoom DEF PlanType
<1>3. OutputSamples(model, model, window)
        = MaxPacket + (window + MaxPacket)
  BY DEF OutputSamples, InputSamples, ModelFrames, NativeFrames
<1>4. need \in Nat
  <2> DEFINE came == ModelFrames(frames, native, model)
             made == NativeFrames(arriving, native, model)
  <2>1. came \in Nat
    BY <1>1, FramesType
  <2>2. arriving \in Nat
    <3> HIDE DEF came
    <3> QED BY <2>1 DEF came
  <2>3. made \in Nat
    <3> HIDE DEF arriving
    <3> QED BY <1>1, <2>2, FramesType
  <2>4. need = output + made
    OBVIOUS
  <2> HIDE DEF need, made
  <2> QED BY <2>3, <2>4
<1> HIDE DEF plan
<1>5. CASE native = model
  <2>1. need = output + (input + frames)
    BY <1>5 DEF NativeFrames, ModelFrames
  <2>2. (output + input) * model <= (window + spare) * model
    BY <1>1, <1>5
  <2>3. output + input <= window + spare
    BY <1>1, <2>2, TimesCancel
  <2>4. need <= MaxPacket + (window + MaxPacket)
    BY <1>1, <2>1, <2>3
  <2> QED BY <1>1, <1>2, <1>3, <1>4, <2>4 DEF plan
<1>6. CASE native # model
  <2> DEFINE wn == window * native
             pm == spare * model
             fm == frames * model
             sn == Slack * native
             sm == Slack * model
             km == MaxPacket * model
  <2>1. need * model <= wn + pm + fm + native + sn + model + sm - 2
    BY <1>1, <1>6, RoomAsked
  <2>2. /\ wn \in Nat /\ pm \in Nat /\ fm \in Nat /\ sn \in Nat
        /\ sm \in Nat /\ km \in Nat /\ fm <= km
    BY <1>1, TimesMonotone
  <2>3. CASE model = MaxRate
    <3>1. native <= model /\ window * native <= window * model
            /\ Slack * native <= Slack * model
      BY <1>1, <2>3
    <3>2. need * model
            <= window * model + pm + km + model + sm + model + sm
      <4> DEFINE wm == window * model
      <4>1. wm \in Nat /\ wn <= wm /\ sn <= sm /\ native <= model
        BY <1>1, <3>1
      <4>2. need * model \in Nat  BY <1>1, <1>4
      <4> DEFINE nm == need * model
      <4>3. nm <= wm + pm + km + model + sm + model + sm
        <5> HIDE DEF wn, pm, fm, sn, sm, km, wm, nm, need
        <5> QED BY <1>1, <2>1, <2>2, <4>1, <4>2 DEF nm
      <4> QED BY <4>3
    <3>3. window * model + pm + km + model + sm + model + sm
            = (window + spare + MaxPacket + 2 + 2 * Slack) * model
      BY <1>1
    <3>4. need <= window + spare + MaxPacket + 2 + 2 * Slack
      <4> DEFINE most == window + spare + MaxPacket + 2 + 2 * Slack
      <4>1. most \in Nat /\ need * model <= most * model
        BY <1>1, <3>2, <3>3
      <4> HIDE DEF need, most
      <4>2. need <= most  BY <1>1, <1>4, <4>1, TimesCancel
      <4> QED BY <4>2 DEF most
    <3>5. need <= MaxPacket + (window + MaxPacket)
      <4> HIDE DEF need
      <4> QED BY <1>1, <1>4, <3>4
    <3> QED BY <1>1, <1>2, <1>3, <1>4, <3>5 DEF plan
  <2>4. CASE model # MaxRate
    <3> DEFINE wr == window * MaxRate
               sr == Slack * MaxRate
               out == OutputSamples(MaxRate, model, window)
    <3>1. 2 * km + wr + sr + sm <= out * model
      BY <1>1, <2>4, RoomPlanned
    <3>2. wn <= wr /\ sn <= sr /\ wr \in Nat /\ sr \in Nat
      BY <1>1
    <3>3. pm + model + native <= km
      <4> DEFINE k == MaxPacket - spare - 1
      <4>1. k \in Nat /\ MaxRate <= k * MinRate
        <5>1. (spare + 1) * MinRate + MaxRate <= MaxPacket * MinRate
          BY DEF Stream, Spare
        <5>2. k \in Nat  BY <1>1
        <5>3. k * MinRate = MaxPacket * MinRate - (spare + 1) * MinRate
          BY <1>1
        <5> QED BY <1>1, <5>1, <5>2, <5>3
      <4>2. k * MinRate <= k * model
        <5> HIDE DEF k
        <5> QED BY <1>1, <4>1
      <4>3. k * model = km - pm - model
        BY <1>1
      <4>4. k * MinRate \in Nat /\ k * model \in Nat
        <5> HIDE DEF k
        <5> QED BY <1>1, <4>1
      <4> HIDE DEF k, km, pm
      <4> QED BY <1>1, <2>2, <4>1, <4>2, <4>3, <4>4
    <3>4. out \in Nat
      BY <1>1, SamplesType
    <3>5. need * model <= out * model
      <4> DEFINE nm == need * model
                 om == out * model
      <4>1. nm \in Nat /\ om \in Nat  BY <1>1, <1>4, <3>4
      <4>2. nm <= wn + pm + fm + native + sn + model + sm - 2
              /\ 2 * km + wr + sr + sm <= om
        BY <2>1, <3>1
      <4> HIDE DEF nm, om, wn, pm, fm, sn, sm, km, wr, sr
      <4>3. nm <= om  BY <1>1, <2>2, <3>2, <3>3, <4>1, <4>2
      <4> QED BY <4>3 DEF nm, om
    <3>6. need <= out
      <4> HIDE DEF need, out
      <4> QED BY <1>1, <1>4, <3>4, <3>5, TimesCancel
    <3> QED BY <1>2, <1>4, <3>4, <3>6 DEF plan
  <2> QED BY <2>3, <2>4
<1> QED BY <1>5, <1>6 DEF plan

LEMMA DryFits ==
    ASSUME NEW native, NEW model, NEW window, NEW delay, NEW spare,
           Stream(native, model, window, delay, spare),
           NEW frames \in 0 .. MaxPacket, NEW dry \in Nat,
           NEW input \in Nat, NEW output \in Nat,
           output * model + input * native
             <= window * native + spare * model,
           dry * model <= (MaxPrefill + output + spare) * model
                            + (input + delay) * native
    PROVE  \E rate \in {MinRate, model, MaxRate} :
              dry + frames <= DrySamples(rate, model, window, delay)
<1>1. /\ model \in Nat \ {0} /\ native \in Nat \ {0}
      /\ window \in Nat /\ delay \in Nat /\ spare \in Nat
      /\ model <= MaxRate /\ native <= MaxRate
      /\ MaxRate \in Nat \ {0}
      /\ Slack \in Nat /\ MaxPacket \in Nat /\ MaxPrefill \in Nat
      /\ frames \in Nat /\ frames <= MaxPacket /\ spare <= MaxPacket
  BY StreamFacts
<1> DEFINE wn == window * native
           pm == spare * model
           dn == delay * native
           fm == MaxPrefill * model
           dm == dry * model
<1>2. dm <= fm + 2 * pm + wn + dn
  <2>1. (MaxPrefill + output + spare) * model = fm + output * model + pm
    BY <1>1
  <2>2. (input + delay) * native = input * native + dn
    BY <1>1
  <2> DEFINE om == output * model
             in == input * native
  <2>3. /\ om \in Nat /\ in \in Nat /\ wn \in Nat /\ pm \in Nat
        /\ dn \in Nat /\ fm \in Nat /\ dm \in Nat
    BY <1>1
  <2>4. om + in <= wn + pm /\ dm <= fm + om + pm + in + dn
    BY <2>1, <2>2, <2>3
  <2> HIDE DEF om, in, wn, pm, dn, fm, dm
  <2> QED BY <2>3, <2>4
<1>3. CASE model = MaxRate
  <2> DEFINE late == ScaleCeil(delay, model, model)
             most == MaxPrefill + 2 * spare + window + delay
  <2>1. late \in Nat /\ delay <= late
    <3>1. late \in Nat /\ delay * model <= late * model
      BY <1>1, CeilBounds
    <3> HIDE DEF late
    <3> QED BY <1>1, <3>1, TimesCancel
  <2>2. wn <= window * model /\ dn <= delay * model
    BY <1>1, <1>3
  <2>3. most * model = fm + 2 * pm + window * model + delay * model
    BY <1>1
  <2>4. dry * model <= most * model
    <3> DEFINE wm == window * model
               lm == delay * model
               mm == most * model
    <3>1. /\ wm \in Nat /\ lm \in Nat /\ mm = fm + 2 * pm + wm + lm
          /\ fm \in Nat /\ pm \in Nat /\ wn \in Nat /\ dn \in Nat
          /\ dm \in Nat /\ wn <= wm /\ dn <= lm
      BY <1>1, <2>2, <2>3
    <3>2. dm <= mm
      <4> HIDE DEF wm, lm, mm, fm, pm, wn, dn, dm
      <4> QED BY <1>2, <3>1
    <3> QED BY <3>2
  <2>5. dry <= most
    <3>1. most \in Nat  BY <1>1
    <3> HIDE DEF most
    <3> QED BY <1>1, <2>4, <3>1, TimesCancel
  <2>6. DrySamples(model, model, window, delay)
          = MaxPrefill + MaxPacket + (MaxPacket + (window + MaxPacket)) + late
    BY DEF DrySamples, OutputSamples, InputSamples, ModelFrames, NativeFrames
  <2>7. dry + frames
          <= MaxPrefill + MaxPacket + (MaxPacket + (window + MaxPacket)) + late
    <3> HIDE DEF late
    <3> QED BY <1>1, <2>1, <2>5
  <2> QED BY <2>6, <2>7
<1>4. CASE model # MaxRate
  <2> DEFINE late == ScaleCeil(delay, MaxRate, model)
             out  == OutputSamples(MaxRate, model, window)
             have == MaxPrefill + MaxPacket + out + late
             km == MaxPacket * model
             wr == window * MaxRate
             dr == delay * MaxRate
             om == out * model
             lm == late * model
             gm == frames * model
  <2>1. late \in Nat /\ dr <= lm
    BY <1>1, CeilBounds
  <2>2. out \in Nat
    BY <1>1, SamplesType
  <2>3. /\ 2 * km + wr + Slack * MaxRate + Slack * model <= om
        /\ Slack * MaxRate \in Nat /\ Slack * model \in Nat
    BY <1>1, <1>4, RoomPlanned
  <2>4. have * model = fm + km + om + lm
    <3> HIDE DEF late, out
    <3> QED BY <1>1, <2>1, <2>2
  <2>5. (dry + frames) * model = dm + gm
    BY <1>1
  <2>6. /\ km \in Nat /\ wr \in Nat /\ dr \in Nat /\ fm \in Nat
        /\ pm \in Nat /\ wn \in Nat /\ dn \in Nat /\ dm \in Nat
        /\ gm \in Nat /\ wn <= wr /\ dn <= dr /\ pm <= km /\ gm <= km
    BY <1>1
  <2>7. om \in Nat /\ lm \in Nat
    <3> HIDE DEF out, late
    <3> QED BY <1>1, <2>1, <2>2
  <2>8. 2 * km + wr <= om
    <3> DEFINE s == Slack * MaxRate
               t == Slack * model
    <3>1. 2 * km + wr + s + t <= om /\ s \in Nat /\ t \in Nat
      BY <2>3
    <3> HIDE DEF s, t, km, wr, om
    <3> QED BY <2>6, <2>7, <3>1
  <2>9. dm + gm <= fm + km + om + lm
    <3> HIDE DEF km, wr, dr, om, lm, gm, fm, pm, wn, dn, dm, late, out
    <3> QED BY <1>2, <2>1, <2>6, <2>7, <2>8
  <2>10. dry + frames <= have
    <3>1. have \in Nat
      <4> HIDE DEF out, late
      <4> QED BY <1>1, <2>1, <2>2
    <3>2. (dry + frames) * model <= have * model
      BY <2>4, <2>5, <2>9
    <3> HIDE DEF have
    <3> QED BY <1>1, <3>1, <3>2, TimesCancel
  <2>11. DrySamples(MaxRate, model, window, delay) = have
    BY DEF DrySamples
  <2> QED BY <2>10, <2>11
<1> QED BY <1>3, <1>4

\* The plan, made before the rate of OBS is known and looking at three rates
\* only, has room for a packet of any legal length at every rate between
\* them that Covers allows (processor.cpp:226-244, 577-597), while resamplers
\* run ahead by no more than `spare' frames.
THEOREM PlanAcceptsEveryPacket ==
    ASSUME NEW native, NEW model, NEW window, NEW delay, NEW spare,
           Stream(native, model, window, delay, spare),
           NEW q \in PlanType,
           Waiting(q, native, model, window, delay, spare),
           NEW frames \in 1 .. MaxPacket
    PROVE  Accepts(Plan(model, window, delay), q, frames, native, model)
<1> DEFINE plan == Plan(model, window, delay)
<1>1. /\ model \in Nat /\ window \in Nat /\ delay \in Nat
      /\ Supported(model, window) /\ MaxPacket \in Nat
  BY StreamFacts
<1>2. /\ q.input \in Nat /\ q.output \in Nat /\ q.dry \in Nat
      /\ q.infos \in Nat /\ frames \in 0 .. MaxPacket
      /\ q.input \in 0 .. window - 1 /\ q.infos <= q.dry
      /\ q.output * model + q.input * native
           <= window * native + spare * model
      /\ q.dry * model <= (MaxPrefill + q.output + spare) * model
                            + (q.input + delay) * native
  BY <1>1 DEF Waiting, PlanType
<1>3. q.input + ModelFrames(frames, native, model) <= plan.input
  BY <1>2, InputFits
<1>4. q.output + NativeFrames(q.input + ModelFrames(frames, native, model),
                              native, model) <= plan.output
  BY <1>2, OutputFits
<1>5. PICK rate \in {MinRate, model, MaxRate} :
         q.dry + frames <= DrySamples(rate, model, window, delay)
  BY <1>2, DryFits
<1>6. /\ plan \in PlanType
      /\ DrySamples(rate, model, window, delay) <= plan.dry
      /\ DrySamples(rate, model, window, delay) <= plan.infos
  BY <1>1, PlanHasRoom
<1>7. DrySamples(rate, model, window, delay) \in Nat
  BY <1>1, StreamFacts, SamplesType
<1>8. q.dry + frames <= plan.dry /\ q.infos + 1 <= plan.infos
  <2>1. plan.dry \in Nat /\ plan.infos \in Nat
    BY <1>6 DEF PlanType
  <2> HIDE DEF plan
  <2> QED BY <1>1, <1>2, <1>5, <1>6, <1>7, <2>1
<1> QED BY <1>3, <1>4, <1>8 DEF Accepts
-----------------------------------------------------------------------------
(***************************************************************************)
(* The lanes between two rates.  First the sizes, types and products that  *)
(* every step needs.                                                       *)
(***************************************************************************)
LEMMA Distributes ==
    ASSUME NEW a \in Int, NEW b \in Int, NEW c \in Int
    PROVE  /\ a * c \in Int /\ b * c \in Int
           /\ (a + b) * c = a * c + b * c
           /\ (a - b) * c = a * c - b * c
  OBVIOUS

LEMMA Sizes ==
    /\ Hop \in Nat \ {0} /\ MaxPacket \in Nat \ {0} /\ Slack \in Nat
    /\ ModelRate \in Nat \ {0} /\ MinRate \in Nat \ {0} /\ MinRate <= ModelRate
    /\ \A rate \in Rates : rate \in Nat \ {0} /\ MinRate <= rate
    /\ Delay \in Nat /\ Jitter \in Nat /\ MaxPrefill \in Nat
    /\ Jitter <= Slack * MinRate
    /\ Window = 2 * Hop /\ Window \in Nat \ {0} /\ Delay * Hop \in Nat
    /\ Frames \subseteq 1 .. MaxPacket
    /\ MaxPrefill * ModelRate \in Nat
<1>1. /\ Hop \in Nat \ {0} /\ MaxPacket \in Nat \ {0} /\ Slack \in Nat
      /\ MinRate \in Nat \ {0} /\ MaxRate \in Nat /\ MaxPrefill \in Nat
      /\ ModelRate \in MinRate .. MaxRate /\ Rates \subseteq MinRate .. MaxRate
      /\ Delay \in Nat /\ Jitter \in Nat /\ Jitter <= Slack * MinRate
      /\ Frames \subseteq 1 .. MaxPacket
  BY LanesAssumption, PlanAssumption, TwoRatesAssumption
<1>2. ModelRate \in Nat \ {0} /\ MinRate <= ModelRate
  BY <1>1
<1>3. ASSUME NEW rate \in Rates
      PROVE  rate \in Nat \ {0} /\ MinRate <= rate
  BY <1>1
<1>4. Window = 2 * Hop /\ Window \in Nat \ {0}
  BY <1>1 DEF Window
<1>5. Delay * Hop \in Nat /\ MaxPrefill * ModelRate \in Nat
  BY <1>1, <1>2
<1> QED BY <1>1, <1>2, <1>3, <1>4, <1>5

LEMMA RingsType == Rings \in PlanType /\ Supported(ModelRate, Window)
<1>1. Supported(ModelRate, Window)
  BY TwoRatesAssumption, Sizes DEF Supported
<1> QED BY <1>1, Sizes, PlanHasRoom DEF Rings

\* What may be held covers neither more than the slack in model frames nor
\* more than the slack in native frames.
LEMMA SlackCovers ==
    ASSUME NEW rate \in Rates
    PROVE  Jitter <= Slack * rate /\ Jitter <= Slack * ModelRate
<1>1. MinRate * Slack <= rate * Slack /\ MinRate * Slack <= ModelRate * Slack
  BY Sizes, TimesMonotone
<1>2. /\ rate * Slack = Slack * rate /\ ModelRate * Slack = Slack * ModelRate
      /\ MinRate * Slack = Slack * MinRate
      /\ Slack * rate \in Nat /\ Slack * ModelRate \in Nat
      /\ Slack * MinRate \in Nat
  BY Sizes
<1> DEFINE sr == Slack * rate
           sm == Slack * ModelRate
           sn == Slack * MinRate
<1>3. /\ sr \in Nat /\ sm \in Nat /\ sn \in Nat /\ sn <= sr /\ sn <= sm
      /\ Jitter \in Nat /\ Jitter <= sn
  BY <1>1, <1>2, Sizes
<1> HIDE DEF sr, sm, sn
<1>4. Jitter <= sr /\ Jitter <= sm
  BY <1>3
<1> QED BY <1>4 DEF sr, sm

LEMMA Fields ==
    ASSUME TypeOK
    PROVE  /\ sampleRate \in Rates /\ sampleRate \in Nat \ {0}
           /\ Play \in Nat /\ Play <= Jitter
           /\ pair.input \in 0 .. Play /\ pair.output \in 0 .. Play
           /\ pair.input \in Nat /\ pair.output \in Nat
           /\ pair.lag \in Nat /\ pair.lag <= MaxPrefill * ModelRate
           /\ lanes.input \in Nat /\ lanes.output \in Nat /\ lanes.dry \in Nat
           /\ lanes.info \in Seq(Packets) /\ lanes.offset \in Nat
           /\ lanes.taken \in Nat /\ lanes.sent \in Nat
           /\ warmup \in Nat /\ warmup <= Delay /\ Delay - warmup \in Nat
           /\ call.pc \in {"idle", "hops", "drain"}
           /\ call.frames \in Nat /\ call.frames <= MaxPacket
           /\ call.missing \in Nat /\ call.popped \in Nat
<1>1. Play \in Nat /\ Play <= Jitter
  BY Sizes DEF Play
<1>2. /\ pair.input \in 0 .. Play /\ pair.output \in 0 .. Play
      /\ pair.lag \in 0 .. MaxPrefill * ModelRate
  BY Zenon DEF TypeOK
<1>3. /\ lanes.input \in Nat /\ lanes.output \in Nat /\ lanes.dry \in Nat
      /\ lanes.info \in Seq(Packets) /\ lanes.offset \in Nat
      /\ lanes.taken \in Nat /\ lanes.sent \in Nat
  BY Zenon DEF TypeOK, LanesType
<1>4. /\ call.pc \in {"idle", "hops", "drain"} /\ call.frames \in 0 .. MaxPacket
      /\ call.missing \in Nat /\ call.popped \in Nat
  BY Zenon DEF TypeOK
<1>5. sampleRate \in Rates /\ warmup \in 0 .. Delay
  BY DEF TypeOK
<1>6. sampleRate \in Nat \ {0}
  BY <1>5, Sizes
<1> DEFINE most == MaxPrefill * ModelRate
<1>7. pair.lag \in 0 .. most /\ most \in Nat
  BY <1>2, Sizes
<1> HIDE DEF most
<1>8. pair.lag \in Nat /\ pair.lag <= most
  BY <1>7
<1>9. /\ pair.input \in Nat /\ pair.output \in Nat
      /\ warmup \in Nat /\ warmup <= Delay /\ Delay - warmup \in Nat
      /\ call.frames \in Nat /\ call.frames <= MaxPacket
  BY <1>1, <1>2, <1>4, <1>5, Sizes
<1> QED BY <1>1, <1>2, <1>3, <1>4, <1>5, <1>6, <1>8, <1>9 DEF most

LEMMA Delivered ==
    ASSUME NEW play \in Nat, play = Play, NEW held \in Nat, NEW fed \in Nat,
           NEW unit \in Nat \ {0}, NEW n \in Deliveries(held, fed, unit)
    PROVE  /\ n \in Nat /\ n * unit \in Nat /\ n * unit <= held + fed
           /\ held + fed - n * unit \in 0 .. play
<1> DEFINE q == (held + fed) \div unit
<1>1. q \in Nat /\ q * unit <= held + fed /\ held + fed \in Nat
  BY DivBounds
<1>2. n \in 0 .. q /\ held + fed - n * unit <= play
  BY DEF Deliveries
<1> HIDE DEF q
<1>3. n \in Nat /\ n <= q
  BY <1>1, <1>2
<1>4. n * unit <= q * unit
  BY <1>1, <1>3, TimesMonotone
<1> DEFINE out == n * unit
           most == q * unit
<1>5. out \in Nat /\ most \in Nat
  BY <1>1, <1>3
<1>6. out <= most /\ most <= held + fed /\ held + fed - out <= play
  BY <1>1, <1>2, <1>4
<1> HIDE DEF out, most
<1>7. out <= held + fed /\ held + fed - out \in 0 .. play
  BY <1>1, <1>5, <1>6
<1> QED BY <1>3, <1>5, <1>7 DEF out

\* A fresh pair is prefilled with what it delays the voice, in whole frames.
LEMMA Fresh ==
    ASSUME NEW rate \in Rates, NEW p \in FreshPairs(rate),
           NEW play, play = IF rate = ModelRate THEN 0 ELSE Jitter
    PROVE  /\ p \in [input : 0 .. play, output : 0 .. play,
                     lag : 0 .. MaxPrefill * ModelRate]
           /\ p.input \in 0 .. play /\ p.output \in 0 .. play
           /\ p.lag \in Nat
           /\ Prefill(p) \in 0 .. MaxPrefill
           /\ Prefill(p) * ModelRate = p.lag + p.input + p.output
<1>1. p \in [input : 0 .. play, output : 0 .. play,
             lag : 0 .. MaxPrefill * ModelRate]
  <2>1. CASE rate = ModelRate
    <3>1. p = NoPair /\ play = 0
      BY <2>1 DEF FreshPairs
    <3>2. 0 \in 0 .. play /\ 0 \in 0 .. MaxPrefill * ModelRate
      BY <3>1, Sizes
    <3> QED BY <3>1, <3>2 DEF NoPair
  <2>2. CASE rate # ModelRate
    BY <2>2 DEF FreshPairs
  <2> QED BY <2>1, <2>2
<1>2. \E frames \in 0 .. MaxPrefill :
         p.lag + p.input + p.output = frames * ModelRate
  <2>1. CASE rate = ModelRate
    <3>1. p.lag = 0 /\ p.input = 0 /\ p.output = 0
      BY <2>1 DEF FreshPairs, NoPair
    <3>2. 0 \in 0 .. MaxPrefill /\ 0 * ModelRate = 0
      BY Sizes
    <3>3. p.lag + p.input + p.output = 0 * ModelRate
      BY <3>1, <3>2
    <3> QED BY <3>2, <3>3
  <2>2. CASE rate # ModelRate
    BY <2>2 DEF FreshPairs
  <2> QED BY <2>1, <2>2
<1>3. /\ p.input \in 0 .. play /\ p.output \in 0 .. play
      /\ p.lag \in 0 .. MaxPrefill * ModelRate
  BY <1>1, Zenon
<1>4. PICK frames \in 0 .. MaxPrefill :
         p.lag + p.input + p.output = frames * ModelRate
  BY <1>2
<1>5. frames \in Nat
  BY Sizes
<1> DEFINE f == Prefill(p)
           a == frames * ModelRate
<1>6. a \in Nat /\ f = a \div ModelRate
  BY <1>4, <1>5, Sizes DEF Prefill
<1>7. f \in Nat /\ f * ModelRate <= a /\ a < f * ModelRate + ModelRate
  <2> HIDE DEF a
  <2> QED BY <1>6, Sizes, DivBounds
<1>8. f = frames
  <2> HIDE DEF f
  <2>1. f <= frames
    BY <1>5, <1>7, Sizes, TimesCancel
  <2>2. ~(f + 1 <= frames)
    <3> SUFFICES ASSUME f + 1 <= frames PROVE FALSE  OBVIOUS
    <3>1. (f + 1) * ModelRate <= frames * ModelRate
      BY <1>5, <1>7, Sizes, TimesMonotone
    <3>2. (f + 1) * ModelRate = f * ModelRate + ModelRate
      BY <1>7, Sizes
    <3> QED BY <1>6, <1>7, <3>1, <3>2, Sizes
  <2> QED BY <1>5, <1>7, <2>1, <2>2
<1>9. p.lag \in Nat
  BY <1>3, Sizes
<1> QED BY <1>1, <1>3, <1>4, <1>8, <1>9

\* Whatever the rates, the dry ring can hold the zeros of the longest prefill.
LEMMA ZerosFit == MaxPrefill \in Nat /\ MaxPrefill <= Rings.dry
<1> DEFINE o == OutputSamples(ModelRate, ModelRate, Window)
           c == ScaleCeil(Delay * Hop, ModelRate, ModelRate)
           d == DrySamples(ModelRate, ModelRate, Window, Delay * Hop)
<1>1. d <= Rings.dry
  BY RingsType, Sizes, PlanHasRoom DEF Rings
<1>2. Rings.dry \in Nat
  BY RingsType DEF PlanType
<1>3. /\ o \in Nat /\ c \in Nat
  BY Sizes, SamplesType, CeilBounds
<1>4. d = MaxPrefill + MaxPacket + o + c
  BY DEF DrySamples
<1> HIDE DEF d, o, c
<1> QED BY <1>1, <1>2, <1>3, <1>4, Sizes

\* The invariant holds where a stream starts.
Started == /\ sampleRate \in Rates /\ pair \in FreshPairs(sampleRate)
           /\ lanes = EmptyLanes(Prefill(pair))
           /\ warmup = Delay /\ call = NoCall

LEMMA StartedWell == Started => IInv
<1> SUFFICES ASSUME Started PROVE IInv  OBVIOUS
<1> DEFINE zeros == Prefill(pair)
<1>1. /\ sampleRate \in Rates /\ warmup = Delay
      /\ lanes.input = 0 /\ lanes.output = 0 /\ lanes.dry = zeros
      /\ lanes.info = <<>> /\ lanes.offset = 0
      /\ lanes.taken = 0 /\ lanes.sent = 0
      /\ call.pc = "idle" /\ call.frames = 0 /\ call.missing = 0
      /\ call.popped = 0
  BY DEF Started, EmptyLanes, NoCall
<1>2. /\ pair \in [input : 0 .. Play, output : 0 .. Play,
                   lag : 0 .. MaxPrefill * ModelRate]
      /\ pair.input \in 0 .. Play /\ pair.output \in 0 .. Play
      /\ pair.lag \in Nat /\ zeros \in 0 .. MaxPrefill
      /\ zeros * ModelRate = pair.lag + pair.input + pair.output
  BY Fresh DEF Started, Play
<1>3. zeros \in Nat /\ Play \in Nat /\ sampleRate \in Nat \ {0}
  <2>1. Play \in Nat
    BY Sizes DEF Play
  <2>2. zeros \in Nat
    <3> HIDE DEF zeros
    <3> QED BY <1>2, Sizes
  <2> QED BY <1>1, <2>1, <2>2, Sizes
<1> HIDE DEF zeros
<1>4. TypeOK
  <2>1. EmptyLanes(zeros) \in LanesType
    BY <1>3 DEF EmptyLanes, LanesType
  <2>2. lanes \in LanesType
    BY <2>1 DEF Started, zeros
  <2>3. NoCall \in [pc : {"idle", "hops", "drain"}, frames : 0 .. MaxPacket,
                    missing : Nat, popped : Nat]
    BY Sizes DEF NoCall
  <2>4. warmup \in 0 .. Delay
    BY <1>1, Sizes
  <2> QED BY <1>1, <1>2, <2>2, <2>3, <2>4 DEF TypeOK, Started
<1>5. /\ pair.input \in Nat /\ pair.output \in Nat
      /\ pair.input <= Play /\ pair.output <= Play
  BY <1>2, <1>3
<1>6. lanes.dry * ModelRate = pair.lag + pair.input + pair.output
  BY <1>1, <1>2
<1>7. InTime
  <2>1. lanes.output * ModelRate = 0
    BY <1>1, Sizes
  <2>2. (lanes.input + (Delay - warmup) * Hop) * sampleRate = 0
    <3>1. Delay - warmup = 0
      BY <1>1, Sizes
    <3>2. (Delay - warmup) * Hop = 0
      BY <3>1, Sizes
    <3>3. lanes.input + (Delay - warmup) * Hop = 0
      BY <1>1, <3>2
    <3> QED BY <1>3, <3>3
  <2>3. pair.lag + pair.input + pair.output + 0 + 0
          = pair.lag + pair.input + pair.output
    BY <1>2, <1>5
  <2> QED BY <1>6, <2>1, <2>2, <2>3 DEF InTime
<1>8. CallInv
  BY <1>1 DEF CallInv, Idle
<1>9. InfoInv
  <2>1. Len(lanes.info) = 0
    BY <1>1
  <2>2. ~\E i \in 1 .. Len(lanes.info) : TRUE
    BY <2>1
  <2>3. lanes.taken = lanes.sent + call.popped
    BY <1>1
  <2> QED BY <1>1, <2>2, <2>3 DEF InfoInv
<1>10. ZerosInv
  <2>1. Zeros = zeros
    BY <1>1, <1>3 DEF Zeros
  <2>2. zeros <= MaxPrefill
    BY <1>2, <1>3, Sizes
  <2>3. /\ pair.lag <= pair.lag + pair.input + pair.output
        /\ pair.lag + pair.input + pair.output <= pair.lag + 2 * Play
    BY <1>2, <1>3, <1>5
  <2> QED BY <1>2, <2>1, <2>2, <2>3 DEF ZerosInv
<1>11. LoadInv
  <2>1. lanes.input < Window
    BY <1>1, Sizes
  <2>2. InLane = pair.input + pair.output
    <3>1. /\ lanes.input * sampleRate = 0 /\ lanes.output * ModelRate = 0
      BY <1>1, <1>3, Sizes
    <3> QED BY <1>5, <3>1 DEF InLane
  <2>3. call.frames * ModelRate = 0 /\ Window * sampleRate \in Nat
    BY <1>1, <1>3, Sizes
  <2> DEFINE ws == Window * sampleRate
  <2>4. ws \in Nat /\ pair.input + pair.output <= ws + 0 + 2 * Play
    <3>1. ws \in Nat  BY <2>3
    <3> HIDE DEF ws
    <3> QED BY <1>3, <1>5, <3>1
  <2> QED BY <2>1, <2>2, <2>3, <2>4 DEF LoadInv
<1>12. RoomInv
  <2>1. /\ Rings.input \in Nat /\ Rings.output \in Nat /\ Rings.dry \in Nat
        /\ Rings.infos \in Nat
    BY RingsType DEF PlanType
  <2>2. Len(lanes.info) = 0
    BY <1>1
  <2>3. lanes.dry <= Rings.dry
    BY <1>1, <1>2, <1>3, <2>1, ZerosFit
  <2>4. PushesFit
    BY <1>1, <2>1, <2>2, <2>3 DEF PushesFit
  <2> QED BY <1>1, <2>4 DEF RoomInv
<1> QED BY <1>4, <1>7, <1>8, <1>9, <1>10, <1>11, <1>12 DEF IInv

-----------------------------------------------------------------------------
(***************************************************************************)
(* What each step does, field by field, and that types are kept.           *)
(***************************************************************************)
LEMMA LanesFields ==
    ASSUME NEW l \in LanesType
    PROVE  /\ \A n \in Nat :
                /\ [l EXCEPT !.input = n] \in LanesType
                /\ [l EXCEPT !.output = n] \in LanesType
                /\ [l EXCEPT !.dry = n] \in LanesType
                /\ [l EXCEPT !.offset = n] \in LanesType
                /\ [l EXCEPT !.taken = n] \in LanesType
                /\ [l EXCEPT !.sent = n] \in LanesType
           /\ \A info \in Seq(Packets) :
                [l EXCEPT !.info = info] \in LanesType
<1>1. ASSUME NEW n \in Nat
      PROVE  /\ [l EXCEPT !.input = n] \in LanesType
             /\ [l EXCEPT !.output = n] \in LanesType
             /\ [l EXCEPT !.dry = n] \in LanesType
             /\ [l EXCEPT !.offset = n] \in LanesType
             /\ [l EXCEPT !.taken = n] \in LanesType
             /\ [l EXCEPT !.sent = n] \in LanesType
  BY Zenon DEF LanesType
<1>2. ASSUME NEW info \in Seq(Packets)
      PROVE  [l EXCEPT !.info = info] \in LanesType
  BY Zenon DEF LanesType
<1> QED BY <1>1, <1>2

Took(frames, arrived) ==
    /\ frames \in Nat \ {0} /\ frames <= MaxPacket /\ arrived \in Nat
    /\ arrived * sampleRate <= pair.input + frames * ModelRate
    /\ sampleRate' = sampleRate /\ warmup' = warmup
    /\ pair'.input = pair.input + frames * ModelRate - arrived * sampleRate
    /\ pair'.output = pair.output /\ pair'.lag = pair.lag
    /\ lanes'.input = lanes.input + arrived /\ lanes'.output = lanes.output
    /\ lanes'.dry = lanes.dry + frames /\ lanes'.offset = lanes.offset
    /\ lanes'.taken = lanes.taken + frames /\ lanes'.sent = lanes.sent
    /\ lanes'.info = Append(lanes.info,
                            [frames |-> frames, start |-> lanes.taken])
    /\ call.pc = "idle" /\ call'.pc = "hops" /\ call'.frames = frames
    /\ call'.missing = 0 /\ call'.popped = 0

LEMMA TakeStep ==
    ASSUME TypeOK, NEW frames \in Frames, TakeInput(frames)
    PROVE  /\ TypeOK'
           /\ \E arrived \in Nat : Took(frames, arrived)
<1>1. frames \in Nat \ {0} /\ frames <= MaxPacket /\ frames \in 0 .. MaxPacket
  BY Sizes
<1> DEFINE fed == frames * ModelRate
<1>2. fed \in Nat
  BY <1>1, Sizes
<1>3. PICK arrived \in Deliveries(pair.input, fed, sampleRate) :
         /\ lanes' = Pushed(lanes, frames, arrived)
         /\ pair' = [pair EXCEPT !.input = pair.input + fed
                                             - arrived * sampleRate]
  BY DEF TakeInput
<1>4. /\ arrived \in Nat /\ arrived * sampleRate \in Nat
      /\ arrived * sampleRate <= pair.input + fed
      /\ pair.input + fed - arrived * sampleRate \in 0 .. Play
  <2> HIDE DEF fed
  <2> QED BY <1>2, <1>3, Fields, Delivered
<1>5. /\ sampleRate' = sampleRate /\ warmup' = warmup /\ call.pc = "idle"
      /\ call' = [NoCall EXCEPT !.pc = "hops", !.frames = frames]
  BY DEF TakeInput, Idle
<1> DEFINE held == pair.input + fed - arrived * sampleRate
           packet == [frames |-> frames, start |-> lanes.taken]
<1>6. /\ packet \in Packets
      /\ Append(lanes.info, packet) \in Seq(Packets)
  <2>1. packet \in Packets
    BY <1>1, Fields DEF Packets
  <2> HIDE DEF packet
  <2> QED BY <2>1, Fields
<1> HIDE DEF fed, held, packet
<1>7. held \in 0 .. Play
  BY <1>4 DEF held
<1>8. pair' = [pair EXCEPT !.input = held]
  BY <1>3 DEF held
<1>9. pair \in [input : 0 .. Play, output : 0 .. Play,
                lag : 0 .. MaxPrefill * ModelRate]
  BY DEF TypeOK
<1>10. /\ pair' \in [input : 0 .. Play, output : 0 .. Play,
                     lag : 0 .. MaxPrefill * ModelRate]
       /\ pair'.input = held /\ pair'.output = pair.output
       /\ pair'.lag = pair.lag
  <2> DEFINE most == MaxPrefill * ModelRate
  <2> HIDE DEF most
  <2>1. pair \in [input : 0 .. Play, output : 0 .. Play, lag : 0 .. most]
    BY <1>9 DEF most
  <2>2. /\ pair' \in [input : 0 .. Play, output : 0 .. Play, lag : 0 .. most]
        /\ pair'.input = held /\ pair'.output = pair.output
        /\ pair'.lag = pair.lag
    BY <1>7, <1>8, <2>1
  <2> QED BY <2>2 DEF most
<1>11. Play' = Play
  BY <1>5 DEF Play
<1>12. lanes' = [lanes EXCEPT !.info = Append(lanes.info, packet),
                              !.dry = lanes.dry + frames,
                              !.input = lanes.input + arrived,
                              !.taken = lanes.taken + frames]
  BY <1>3 DEF Pushed, packet
<1>13. /\ lanes.dry + frames \in Nat /\ lanes.input + arrived \in Nat
       /\ lanes.taken + frames \in Nat
  <2>1. lanes.dry \in Nat /\ lanes.input \in Nat /\ lanes.taken \in Nat
    BY Fields
  <2>2. frames \in Nat /\ arrived \in Nat
    BY <1>1, <1>4
  <2> QED BY <2>1, <2>2
<1> DEFINE info == Append(lanes.info, packet)
<1>19. lanes \in LanesType /\ info \in Seq(Packets)
  BY <1>6 DEF TypeOK
<1> HIDE DEF info
<1>14. lanes' \in LanesType
  <2>1. [lanes EXCEPT !.info = info, !.dry = lanes.dry + frames]
          \in LanesType
    BY <1>13, <1>19, LanesFields
  <2>2. [lanes EXCEPT !.info = info, !.dry = lanes.dry + frames,
                      !.input = lanes.input + arrived,
                      !.taken = lanes.taken + frames] \in LanesType
    BY <1>13, <2>1, LanesFields
  <2> QED BY <1>12, <2>2 DEF info
<1>15. /\ lanes'.input = lanes.input + arrived /\ lanes'.output = lanes.output
       /\ lanes'.dry = lanes.dry + frames /\ lanes'.offset = lanes.offset
       /\ lanes'.taken = lanes.taken + frames /\ lanes'.sent = lanes.sent
       /\ lanes'.info = info
  BY <1>12, <1>19, SMT DEF LanesType, info
<1>16. /\ call'.pc = "hops" /\ call'.frames = frames /\ call'.missing = 0
       /\ call'.popped = 0
       /\ call' \in [pc : {"idle", "hops", "drain"}, frames : 0 .. MaxPacket,
                     missing : Nat, popped : Nat]
  BY <1>1, <1>5 DEF NoCall
<1>17. TypeOK'
  BY <1>5, <1>10, <1>11, <1>14, <1>16 DEF TypeOK
<1>18. Took(frames, arrived)
  BY <1>1, <1>4, <1>5, <1>10, <1>15, <1>16
     DEF Took, fed, held, packet, info
<1> QED BY <1>4, <1>17, <1>18

\* A hop: `out' frames come out of synthesis, and `held' ticks stay behind.
Ran(out, held) ==
    /\ out \in Nat /\ held \in Nat
    /\ sampleRate' = sampleRate
    /\ pair'.input = pair.input /\ pair'.output = held /\ pair'.lag = pair.lag
    /\ lanes.input >= Window /\ lanes'.input = lanes.input - Hop
    /\ lanes'.output = lanes.output + out
    /\ lanes'.dry = lanes.dry /\ lanes'.offset = lanes.offset
    /\ lanes'.taken = lanes.taken /\ lanes'.sent = lanes.sent
    /\ lanes'.info = lanes.info
    /\ call.pc = "hops" /\ call' = call

Discarded(out, held) ==
    out = 0 /\ held = pair.output /\ warmup > 0 /\ warmup' = warmup - 1

Synthesised(out, held) ==
    /\ out * ModelRate \in Nat
    /\ out * ModelRate + held = pair.output + Hop * sampleRate
    /\ warmup' = warmup

LEMMA HoppedLanes ==
    ASSUME TypeOK, NEW out \in Nat, HopReady(lanes),
           lanes' = Hopped(lanes, out)
    PROVE  /\ lanes' \in LanesType
           /\ lanes.input >= Window /\ lanes'.input = lanes.input - Hop
           /\ lanes'.output = lanes.output + out
           /\ lanes'.dry = lanes.dry /\ lanes'.offset = lanes.offset
           /\ lanes'.taken = lanes.taken /\ lanes'.sent = lanes.sent
           /\ lanes'.info = lanes.info
<1>1. lanes' = [lanes EXCEPT !.input = lanes.input - Hop,
                             !.output = lanes.output + out]
  BY DEF Hopped
<1>2. /\ lanes.input >= Window /\ lanes.input - Hop \in Nat
      /\ lanes.output + out \in Nat
  <2>1. lanes.input >= Window /\ lanes.input \in Nat /\ lanes.output \in Nat
    BY Fields DEF HopReady
  <2> QED BY <2>1, Sizes
<1>3. lanes \in LanesType
  BY DEF TypeOK
<1>4. lanes' \in LanesType
  <2>1. [lanes EXCEPT !.input = lanes.input - Hop] \in LanesType
    BY <1>2, <1>3, LanesFields
  <2>2. [lanes EXCEPT !.input = lanes.input - Hop,
                      !.output = lanes.output + out] \in LanesType
    BY <1>2, <2>1, LanesFields
  <2> QED BY <1>1, <2>2
<1> QED BY <1>1, <1>2, <1>3, <1>4, SMT DEF LanesType

LEMMA HopStep ==
    ASSUME TypeOK, DiscardHop \/ EmitHop
    PROVE  /\ TypeOK'
           /\ \E out \in Nat, held \in Nat :
                 /\ Ran(out, held)
                 /\ Discarded(out, held) \/ Synthesised(out, held)
<1>1. /\ call.pc = "hops" /\ HopReady(lanes)
      /\ sampleRate' = sampleRate /\ call' = call
  BY DEF DiscardHop, EmitHop, Hopping
<1>2. Play' = Play
  BY <1>1 DEF Play
<1>3. CASE DiscardHop
  <2>1. /\ lanes' = Hopped(lanes, 0) /\ pair' = pair /\ warmup > 0
        /\ warmup' = warmup - 1
    BY <1>3 DEF DiscardHop, StartingUp
  <2>2. warmup' \in 0 .. Delay
    <3>1. warmup \in Nat /\ warmup <= Delay /\ Delay \in Nat
      BY Fields, Sizes
    <3> QED BY <2>1, <3>1
  <2>3. TypeOK'
    BY <1>1, <1>2, <2>1, <2>2, HoppedLanes DEF TypeOK
  <2>4. 0 \in Nat /\ pair.output \in Nat
    BY Fields
  <2>5. Ran(0, pair.output) /\ Discarded(0, pair.output)
    BY <1>1, <2>1, <2>4, HoppedLanes DEF Ran, Discarded
  <2> QED BY <2>3, <2>4, <2>5
<1>4. CASE EmitHop
  <2> DEFINE fed == Hop * sampleRate
  <2>1. fed \in Nat
    BY Fields, Sizes
  <2>2. PICK out \in Deliveries(pair.output, fed, ModelRate) :
           /\ lanes' = Hopped(lanes, out)
           /\ pair' = [pair EXCEPT !.output = pair.output + fed
                                                - out * ModelRate]
    BY <1>4 DEF EmitHop
  <2>3. /\ out \in Nat /\ out * ModelRate \in Nat
        /\ out * ModelRate <= pair.output + fed
        /\ pair.output + fed - out * ModelRate \in 0 .. Play
    <3> HIDE DEF fed
    <3> QED BY <2>1, <2>2, Fields, Sizes, Delivered
  <2> DEFINE held == pair.output + fed - out * ModelRate
             product == out * ModelRate
  <2>4. product \in Nat /\ held = pair.output + fed - product
    BY <2>3
  <2> HIDE DEF fed, held, product
  <2>5. /\ held \in 0 .. Play /\ held \in Nat
        /\ product + held = pair.output + fed
    <3>1. held \in 0 .. Play
      BY <2>3 DEF held
    <3> QED BY <2>1, <2>4, <3>1, Fields
  <2>6. pair' = [pair EXCEPT !.output = held]
    BY <2>2 DEF held
  <2>7. /\ pair' \in [input : 0 .. Play, output : 0 .. Play,
                      lag : 0 .. MaxPrefill * ModelRate]
        /\ pair'.output = held /\ pair'.input = pair.input
        /\ pair'.lag = pair.lag
    <3> DEFINE most == MaxPrefill * ModelRate
    <3> HIDE DEF most
    <3>1. pair \in [input : 0 .. Play, output : 0 .. Play, lag : 0 .. most]
      BY DEF TypeOK, most
    <3>2. /\ pair' \in [input : 0 .. Play, output : 0 .. Play, lag : 0 .. most]
          /\ pair'.output = held /\ pair'.input = pair.input
          /\ pair'.lag = pair.lag
      BY <2>5, <2>6, <3>1
    <3> QED BY <3>2 DEF most
  <2>8. warmup' = warmup
    BY <1>4 DEF EmitHop
  <2>9. TypeOK'
    BY <1>1, <1>2, <2>2, <2>3, <2>7, <2>8, HoppedLanes DEF TypeOK
  <2>10. Ran(out, held)
    BY <1>1, <2>2, <2>3, <2>5, <2>7, HoppedLanes DEF Ran
  <2>11. Synthesised(out, held)
    BY <2>3, <2>5, <2>8 DEF Synthesised, fed, product
  <2> QED BY <2>3, <2>5, <2>9, <2>10, <2>11
<1> QED BY <1>3, <1>4

\* A turn of the packet loop: `share' frames of the packet in front.
Drew(share) ==
    /\ share \in Nat \ {0} /\ share <= call.missing
    /\ sampleRate' = sampleRate /\ pair' = pair /\ warmup' = warmup
    /\ lanes'.input = lanes.input /\ lanes'.output = lanes.output
    /\ lanes'.dry = lanes.dry
    /\ lanes'.taken = lanes.taken /\ lanes'.sent = lanes.sent
    /\ lanes.info # <<>>
    /\ \/ /\ lanes.offset + share = lanes.info[1].frames
          /\ lanes'.info = Tail(lanes.info) /\ lanes'.offset = 0
       \/ /\ lanes.offset + share < lanes.info[1].frames
          /\ lanes'.info = lanes.info /\ lanes'.offset = lanes.offset + share
    /\ call.pc = "drain" /\ call'.pc = "drain" /\ call'.frames = call.frames
    /\ call'.missing = call.missing - share
    /\ call'.popped = call.popped + share

LEMMA CallFields ==
    ASSUME TypeOK, NEW missing \in Nat, NEW popped \in Nat,
           \/ /\ call' = [call EXCEPT !.missing = missing, !.popped = popped]
              /\ call.pc = "drain"
           \/ /\ call' = [call EXCEPT !.pc = "drain", !.missing = missing]
              /\ call.popped = popped
    PROVE  /\ call' \in [pc : {"idle", "hops", "drain"},
                         frames : 0 .. MaxPacket, missing : Nat, popped : Nat]
           /\ call'.pc = "drain" /\ call'.frames = call.frames
           /\ call'.missing = missing /\ call'.popped = popped
<1> DEFINE Lengths == 0 .. MaxPacket
           Pc == {"idle", "hops", "drain"}
<1>1. "drain" \in Pc  OBVIOUS
<1>2. call \in [pc : Pc, frames : Lengths, missing : Nat, popped : Nat]
  BY DEF TypeOK
<1> HIDE DEF Lengths, Pc
<1>3. CASE call' = [call EXCEPT !.missing = missing, !.popped = popped]
           /\ call.pc = "drain"
  <2>1. /\ call' \in [pc : Pc, frames : Lengths, missing : Nat, popped : Nat]
        /\ call'.pc = call.pc /\ call'.frames = call.frames
        /\ call'.missing = missing /\ call'.popped = popped
    BY <1>2, <1>3
  <2> QED BY <1>3, <2>1 DEF Lengths, Pc
<1>4. CASE call' = [call EXCEPT !.pc = "drain", !.missing = missing]
           /\ call.popped = popped
  <2>1. /\ call' \in [pc : Pc, frames : Lengths, missing : Nat, popped : Nat]
        /\ call'.pc = "drain" /\ call'.frames = call.frames
        /\ call'.missing = missing /\ call'.popped = call.popped
    BY <1>1, <1>2, <1>4
  <2> QED BY <1>4, <2>1 DEF Lengths, Pc
<1> QED BY <1>3, <1>4

LEMMA DrainStep ==
    ASSUME TypeOK, InfoInv, DrainInfo
    PROVE  TypeOK' /\ \E share \in Nat : Drew(share)
<1> DEFINE share == Share(lanes, call.missing)
           front == lanes.info[1].frames
<1>1. /\ call.pc = "drain" /\ call.missing > 0 /\ lanes.info # <<>>
      /\ lanes' = Drained(lanes, call.missing)
      /\ call' = [call EXCEPT !.missing = call.missing - share,
                              !.popped = call.popped + share]
      /\ sampleRate' = sampleRate /\ pair' = pair /\ warmup' = warmup
  BY DEF DrainInfo, MoreToDrain
<1>2. /\ lanes.info \in Seq(Packets) /\ lanes.offset \in Nat
      /\ call.missing \in Nat /\ call.popped \in Nat
  BY Fields
<1>3. lanes.info[1] \in Packets /\ Tail(lanes.info) \in Seq(Packets)
  BY <1>1, <1>2, EmptySeq, HeadTailProperties, ElementOfSeq
<1>4. front \in Nat \ {0}
  BY <1>3, Zenon DEF Packets
<1>5. lanes.offset < front
  BY <1>1 DEF InfoInv
<1>6. /\ share \in Nat \ {0} /\ share <= call.missing
      /\ lanes.offset + share <= front
  <2>1. share = IF call.missing < front - lanes.offset THEN call.missing
                ELSE front - lanes.offset
    BY DEF Share, Shorter
  <2> HIDE DEF share, front
  <2> QED BY <1>1, <1>2, <1>4, <1>5, <2>1
<1>7. lanes \in LanesType
  BY DEF TypeOK
<1>8. lanes' = IF lanes.offset + share = front
               THEN [lanes EXCEPT !.info = Tail(lanes.info), !.offset = 0]
               ELSE [lanes EXCEPT !.offset = lanes.offset + share]
  BY <1>1 DEF Drained
<1> HIDE DEF share, front
<1>9. /\ call.missing - share \in Nat /\ call.popped + share \in Nat
      /\ lanes.offset + share \in Nat
  BY <1>2, <1>6
<1>10. /\ lanes' \in LanesType
       /\ lanes'.input = lanes.input /\ lanes'.output = lanes.output
       /\ lanes'.dry = lanes.dry
       /\ lanes'.taken = lanes.taken /\ lanes'.sent = lanes.sent
       /\ \/ /\ lanes.offset + share = front
             /\ lanes'.info = Tail(lanes.info) /\ lanes'.offset = 0
          \/ /\ lanes.offset + share < front
             /\ lanes'.info = lanes.info
             /\ lanes'.offset = lanes.offset + share
  <2>1. CASE lanes.offset + share = front
    <3> DEFINE rest == Tail(lanes.info)
    <3> HIDE DEF rest
    <3>1. rest \in Seq(Packets)
      BY <1>3 DEF rest
    <3>2. lanes' = [lanes EXCEPT !.info = rest, !.offset = 0]
      BY <1>8, <2>1 DEF rest
    <3>3. lanes' \in LanesType
      <4>1. [lanes EXCEPT !.info = rest] \in LanesType
        BY <1>7, <3>1, LanesFields
      <4>2. [lanes EXCEPT !.info = rest, !.offset = 0] \in LanesType
        BY <4>1, LanesFields
      <4> QED BY <3>2, <4>2
    <3>4. /\ lanes'.input = lanes.input /\ lanes'.output = lanes.output
          /\ lanes'.dry = lanes.dry
          /\ lanes'.taken = lanes.taken /\ lanes'.sent = lanes.sent
          /\ lanes'.info = rest /\ lanes'.offset = 0
      BY <1>7, <3>2, SMT DEF LanesType
    <3> QED BY <2>1, <3>3, <3>4 DEF rest
  <2>2. CASE lanes.offset + share # front
    <3>1. lanes' = [lanes EXCEPT !.offset = lanes.offset + share]
      BY <1>8, <2>2
    <3>2. lanes' \in LanesType
      BY <1>7, <1>9, <3>1, LanesFields
    <3>3. /\ lanes'.input = lanes.input /\ lanes'.output = lanes.output
          /\ lanes'.dry = lanes.dry
          /\ lanes'.taken = lanes.taken /\ lanes'.sent = lanes.sent
          /\ lanes'.info = lanes.info /\ lanes'.offset = lanes.offset + share
      BY <1>7, <3>1, SMT DEF LanesType
    <3>4. lanes.offset + share < front
      BY <1>2, <1>4, <1>6, <2>2
    <3> QED BY <3>2, <3>3, <3>4
  <2> QED BY <2>1, <2>2
<1>11. /\ call' \in [pc : {"idle", "hops", "drain"}, frames : 0 .. MaxPacket,
                     missing : Nat, popped : Nat]
       /\ call'.pc = "drain" /\ call'.frames = call.frames
       /\ call'.missing = call.missing - share
       /\ call'.popped = call.popped + share
  <2>1. call' = [call EXCEPT !.missing = call.missing - share,
                             !.popped = call.popped + share]
    BY <1>1 DEF share
  <2> QED BY <1>1, <1>9, <2>1, CallFields
<1>12. Play' = Play
  BY <1>1 DEF Play
<1>13. TypeOK'
  BY <1>1, <1>10, <1>11, <1>12 DEF TypeOK
<1>14. Drew(share)
  BY <1>1, <1>6, <1>10, <1>11 DEF Drew, front
<1> QED BY <1>6, <1>13, <1>14

\* The end of a pop: the frames drained leave the voice and the dry lane.
Emitted ==
    /\ sampleRate' = sampleRate /\ pair' = pair /\ warmup' = warmup
    /\ call.popped <= lanes.output /\ call.popped <= lanes.dry
    /\ lanes'.input = lanes.input
    /\ lanes'.output = lanes.output - call.popped
    /\ lanes'.dry = lanes.dry - call.popped
    /\ lanes'.offset = lanes.offset /\ lanes'.info = lanes.info
    /\ lanes'.taken = lanes.taken /\ lanes'.sent = lanes.sent + call.popped
    /\ call.pc = "drain" /\ call' = NoCall
    /\ call.missing = 0 \/ lanes.info = <<>>

LEMMA AvailableFrames ==
    ASSUME TypeOK
    PROVE  /\ Available(lanes) \in Nat /\ Available(lanes) <= lanes.output
           /\ Available(lanes) <= MaxPacket
           /\ Available(lanes) \in {lanes.output, MaxPacket}
<1>1. lanes.output \in Nat
  BY Fields
<1> QED BY <1>1, Sizes DEF Available, Shorter

LEMMA NoCallType ==
    /\ NoCall \in [pc : {"idle", "hops", "drain"}, frames : 0 .. MaxPacket,
                   missing : Nat, popped : Nat]
    /\ NoCall.pc = "idle" /\ NoCall.frames = 0 /\ NoCall.missing = 0
    /\ NoCall.popped = 0
  BY Sizes DEF NoCall

LEMMA EmitStep ==
    ASSUME TypeOK, CallInv, EmitPacket
    PROVE  TypeOK' /\ Emitted
<1> DEFINE p == call.popped
<1>1. /\ call.pc = "drain" /\ lanes' = Popped(lanes, p) /\ call' = NoCall
      /\ ~(call.missing > 0 /\ lanes.info # <<>>)
      /\ sampleRate' = sampleRate /\ pair' = pair /\ warmup' = warmup
  BY DEF EmitPacket, MoreToDrain
<1>2. /\ p + call.missing = Available(lanes) /\ Available(lanes) <= lanes.dry
  BY <1>1 DEF CallInv
<1>3. /\ p \in Nat /\ call.missing \in Nat /\ lanes.output \in Nat
      /\ lanes.dry \in Nat /\ lanes.sent \in Nat
  BY Fields
<1> HIDE DEF p
<1>4. /\ p <= lanes.output /\ p <= lanes.dry
      /\ call.missing = 0 \/ lanes.info = <<>>
  <2> DEFINE a == Available(lanes)
  <2>1. a \in Nat /\ a <= lanes.output
    BY AvailableFrames
  <2> HIDE DEF a
  <2>2. p + call.missing = a /\ a <= lanes.dry
    BY <1>2 DEF a
  <2>3. p <= lanes.output /\ p <= lanes.dry
    BY <1>3, <2>1, <2>2
  <2> QED BY <1>1, <1>3, <2>3
<1>5. /\ lanes.output - p \in Nat /\ lanes.dry - p \in Nat
      /\ lanes.sent + p \in Nat
  BY <1>3, <1>4
<1>6. lanes \in LanesType
  BY DEF TypeOK
<1>7. lanes' = [lanes EXCEPT !.output = lanes.output - p,
                             !.dry = lanes.dry - p, !.sent = lanes.sent + p]
  BY <1>1 DEF Popped, p
<1>8. lanes' \in LanesType
  <2>1. [lanes EXCEPT !.output = lanes.output - p] \in LanesType
    BY <1>5, <1>6, LanesFields
  <2>2. [lanes EXCEPT !.output = lanes.output - p, !.dry = lanes.dry - p]
          \in LanesType
    BY <1>5, <2>1, LanesFields
  <2>3. [lanes EXCEPT !.output = lanes.output - p, !.dry = lanes.dry - p,
                      !.sent = lanes.sent + p] \in LanesType
    BY <1>5, <2>2, LanesFields
  <2> QED BY <1>7, <2>3
<1>9. /\ lanes'.input = lanes.input /\ lanes'.output = lanes.output - p
      /\ lanes'.dry = lanes.dry - p /\ lanes'.offset = lanes.offset
      /\ lanes'.info = lanes.info /\ lanes'.taken = lanes.taken
      /\ lanes'.sent = lanes.sent + p
  BY <1>6, <1>7, SMT DEF LanesType
<1>10. Play' = Play
  BY <1>1 DEF Play
<1>11. TypeOK'
  BY <1>1, <1>8, <1>10, NoCallType DEF TypeOK
<1> QED BY <1>1, <1>4, <1>9, <1>11 DEF Emitted, p

\* Between the hops and the pop only the call moves on.
LEMMA PauseStep ==
    ASSUME TypeOK, ReturnPending \/ StartDrain
    PROVE  /\ TypeOK'
           /\ sampleRate' = sampleRate /\ pair' = pair /\ warmup' = warmup
           /\ lanes' = lanes
           /\ call.pc = "hops" /\ lanes.input < Window
           /\ \/ call' = NoCall /\ NothingToPop(lanes)
              \/ /\ call'.pc = "drain" /\ call'.frames = call.frames
                 /\ call'.missing = Available(lanes)
                 /\ call'.popped = call.popped
                 /\ ~NothingToPop(lanes)
<1>1. /\ sampleRate' = sampleRate /\ pair' = pair /\ warmup' = warmup
      /\ lanes' = lanes /\ call.pc = "hops" /\ ~(lanes.input >= Window)
  BY DEF ReturnPending, StartDrain, HopsDone, HopReady
<1>2. lanes.input < Window
  <2>1. lanes.input \in Nat
    BY Fields
  <2> QED BY <1>1, <2>1, Sizes
<1>3. Play' = Play
  BY <1>1 DEF Play
<1>4. CASE ReturnPending
  <2>1. call' = NoCall /\ NothingToPop(lanes)
    BY <1>4 DEF ReturnPending
  <2>2. TypeOK'
    BY <1>1, <1>3, <2>1, NoCallType DEF TypeOK
  <2> QED BY <1>1, <1>2, <2>1, <2>2
<1>5. CASE StartDrain
  <2>1. /\ call' = [call EXCEPT !.pc = "drain", !.missing = Available(lanes)]
        /\ ~NothingToPop(lanes)
    BY <1>5 DEF StartDrain
  <2>2. Available(lanes) \in Nat /\ call.popped \in Nat
    BY AvailableFrames, Fields
  <2>4. /\ call' \in [pc : {"idle", "hops", "drain"}, frames : 0 .. MaxPacket,
                      missing : Nat, popped : Nat]
        /\ call'.pc = "drain" /\ call'.frames = call.frames
        /\ call'.missing = Available(lanes) /\ call'.popped = call.popped
    BY <2>1, <2>2, CallFields
  <2>5. TypeOK'
    BY <1>1, <1>3, <2>4 DEF TypeOK
  <2> QED BY <1>1, <1>2, <2>1, <2>4, <2>5
<1> QED BY <1>4, <1>5

-----------------------------------------------------------------------------
(***************************************************************************)
(* The queue of packet infos is a chain without gaps up to the last frame  *)
(* taken.  A packet taken lengthens it, and a packet used up shortens it.  *)
(***************************************************************************)
Chained(info, end) ==
    /\ info # <<>> => Finish(info[Len(info)]) = end
    /\ \A i \in 1 .. Len(info) :
         /\ Finish(info[i]) + (Len(info) - i) <= end
         /\ i > 1 => info[i].start = Finish(info[i - 1])

\* A packet info ends after it starts.
LEMMA FinishType ==
    ASSUME NEW info \in Seq(Packets), NEW i \in 1 .. Len(info)
    PROVE  /\ info[i].start \in Nat /\ info[i].frames \in Nat \ {0}
           /\ Finish(info[i]) \in Nat
           /\ Finish(info[i]) = info[i].start + info[i].frames
<1>1. info[i] \in Packets
  BY ElementOfSeq
<1>2. info[i].start \in Nat /\ info[i].frames \in Nat \ {0}
  BY <1>1, Zenon DEF Packets
<1>3. QED
  BY <1>2, SMT DEF Finish

\* A new packet goes on where the chain ends.
LEMMA ChainGrows ==
    ASSUME NEW info \in Seq(Packets), NEW end \in Nat,
           NEW frames \in Nat \ {0},
           Chained(info, end)
    PROVE  LET packet == [frames |-> frames, start |-> end]
               more   == Append(info, packet)
           IN  /\ Chained(more, end + frames)
               /\ more # <<>>
               /\ more[1] = IF info = <<>> THEN packet ELSE info[1]
<1> DEFINE packet == [frames |-> frames, start |-> end]
           more   == Append(info, packet)
           n      == Len(info)
<1>1. packet.start = end /\ packet.frames = frames
      /\ Finish(packet) = end + frames
  BY DEF Finish
<1> HIDE DEF packet
<1>2. /\ n \in Nat /\ Len(more) = n + 1 /\ more[n + 1] = packet
      /\ \A i \in 1 .. n : more[i] = info[i]
  BY SMT
<1> HIDE DEF more
<1>3. more # <<>> /\ (info # <<>> <=> n > 0)
  BY <1>2, EmptySeq, SMT
<1>4. Finish(more[Len(more)]) = end + frames
  BY <1>1, <1>2
<1>5. ASSUME NEW i \in 1 .. Len(more)
      PROVE  /\ Finish(more[i]) + (Len(more) - i) <= end + frames
             /\ i > 1 => more[i].start = Finish(more[i - 1])
  <2>1. CASE i = n + 1
    <3>1. Finish(more[i]) + (Len(more) - i) <= end + frames
      BY <1>1, <1>2, <2>1, SMT
    <3>2. i > 1 => more[i].start = Finish(more[i - 1])
      <4>1. ASSUME i > 1 PROVE Finish(more[i - 1]) = end
        <5>1. i - 1 = n /\ n \in 1 .. n /\ n > 0
          BY <1>2, <2>1, <4>1, SMT
        <5>2. Finish(info[n]) = end
          BY <1>3, <5>1 DEF Chained
        <5>3. QED
          BY <1>2, <5>1, <5>2
      <4>2. QED
        BY <1>1, <1>2, <2>1, <4>1
    <3>3. QED
      BY <3>1, <3>2
  <2>2. CASE i # n + 1
    <3>1. i \in 1 .. n /\ more[i] = info[i]
      BY <1>2, <2>2, SMT
    <3>2. Finish(info[i]) \in Nat
      BY <3>1, FinishType
    <3>3. Finish(info[i]) + (n - i) <= end
      BY <3>1 DEF Chained
    <3>4. Finish(more[i]) + (Len(more) - i) <= end + frames
      BY <1>2, <3>1, <3>2, <3>3, SMT
    <3>5. i > 1 => i - 1 \in 1 .. n
      BY <1>2, <3>1, SMT
    <3>6. i > 1 => more[i].start = Finish(more[i - 1])
      BY <1>2, <3>1, <3>5 DEF Chained
    <3>7. QED
      BY <3>4, <3>6
  <2>3. QED
    BY <2>1, <2>2
<1>6. Chained(more, end + frames)
  BY <1>4, <1>5 DEF Chained
<1>7. more[1] = IF info = <<>> THEN packet ELSE info[1]
  <2>1. CASE info = <<>>
    <3>1. n = 0
      BY <1>2, <1>3, <2>1, SMT
    <3>2. n + 1 = 1
      BY <3>1, SMT
    <3>3. QED
      BY <1>2, <2>1, <3>2
  <2>2. CASE info # <<>>
    <3>1. 1 \in 1 .. n
      BY <1>2, <1>3, <2>2, SMT
    <3>2. QED
      BY <1>2, <2>2, <3>1
  <2>3. QED
    BY <2>1, <2>2
<1>8. QED
  BY <1>3, <1>6, <1>7 DEF more, packet

\* Without its first packet the chain starts where that packet ended.
LEMMA ChainShortens ==
    ASSUME NEW info \in Seq(Packets), NEW end \in Nat, info # <<>>,
           Chained(info, end)
    PROVE  /\ Chained(Tail(info), end)
           /\ Finish(info[1]) = IF Tail(info) = <<>> THEN end
                                ELSE Tail(info)[1].start
<1> DEFINE rest == Tail(info)
           n    == Len(info)
<1>1. /\ n \in Nat \ {0} /\ rest \in Seq(Packets) /\ Len(rest) = n - 1
      /\ \A i \in 1 .. n - 1 : rest[i] = info[i + 1]
  BY EmptySeq, HeadTailProperties, SMT
<1> HIDE DEF rest
<1>2. rest # <<>> <=> n > 1
  BY <1>1, EmptySeq, SMT
<1>3. rest # <<>> => Finish(rest[Len(rest)]) = end
  <2>1. SUFFICES ASSUME rest # <<>> PROVE Finish(rest[n - 1]) = end
    BY <1>1
  <2>2. n - 1 \in 1 .. n - 1 /\ (n - 1) + 1 = n
    BY <1>1, <1>2, <2>1, SMT
  <2>3. QED
    BY <1>1, <2>2 DEF Chained
<1>4. ASSUME NEW i \in 1 .. Len(rest)
      PROVE  /\ Finish(rest[i]) + (Len(rest) - i) <= end
             /\ i > 1 => rest[i].start = Finish(rest[i - 1])
  <2>1. /\ i \in 1 .. n - 1 /\ i + 1 \in 1 .. n /\ rest[i] = info[i + 1]
        /\ n - (i + 1) = Len(rest) - i
    BY <1>1, SMT
  <2>2. Finish(info[i + 1]) + (n - (i + 1)) <= end
    BY <2>1 DEF Chained
  <2>3. i > 1 => /\ i - 1 \in 1 .. n - 1 /\ (i - 1) + 1 = i
                 /\ (i + 1) - 1 = i /\ i + 1 > 1
    BY <1>1, <2>1, SMT
  <2>4. i > 1 => info[i + 1].start = Finish(info[i])
    BY <2>1, <2>3 DEF Chained
  <2>5. i > 1 => rest[i - 1] = info[i]
    BY <1>1, <2>3
  <2>6. QED
    BY <2>1, <2>2, <2>4, <2>5
<1>5. Finish(info[1]) = IF rest = <<>> THEN end ELSE rest[1].start
  <2>1. CASE rest = <<>>
    <3>1. n = 1
      BY <1>1, <1>2, <2>1, SMT
    <3>2. QED
      BY <2>1, <3>1 DEF Chained
  <2>2. CASE rest # <<>>
    <3>1. 1 \in 1 .. n - 1 /\ 1 + 1 = 2 /\ 2 \in 1 .. n /\ 2 > 1 /\ 2 - 1 = 1
      BY <1>1, <1>2, <2>2, SMT
    <3>2. info[2].start = Finish(info[2 - 1])
      BY <3>1 DEF Chained
    <3>3. rest[1] = info[2]
      BY <1>1, <3>1
    <3>4. QED
      BY <2>2, <3>1, <3>2, <3>3
  <2>3. QED
    BY <2>1, <2>2
<1>6. QED
  BY <1>3, <1>4, <1>5 DEF Chained, rest

NextFrame == lanes.sent + call.popped

Front ==
    /\ lanes.info = <<>> => lanes.offset = 0 /\ lanes.taken = NextFrame
    /\ lanes.info # <<>> =>
         /\ lanes.offset < lanes.info[1].frames
         /\ lanes.info[1].start + lanes.offset = NextFrame

LEMMA InfoParts == InfoInv <=> Front /\ Chained(lanes.info, lanes.taken)
  BY DEF InfoInv, Front, Chained, NextFrame

LEMMA InfoPartsNext ==
    InfoInv' <=> Front' /\ Chained(lanes'.info, lanes'.taken)
  BY DEF InfoInv, Front, Chained, NextFrame

LEMMA TookInfo ==
    ASSUME TypeOK, CallInv, InfoInv, NEW frames, NEW arrived,
           Took(frames, arrived)
    PROVE  InfoInv'
<1> DEFINE packet == [frames |-> frames, start |-> lanes.taken]
<1>1. /\ frames \in Nat \ {0}
      /\ lanes'.info = Append(lanes.info, packet)
      /\ lanes'.offset = lanes.offset /\ lanes'.sent = lanes.sent
      /\ lanes'.taken = lanes.taken + frames
      /\ call.popped = 0 /\ call'.popped = 0
  BY DEF Took, CallInv
<1>2. /\ lanes.info \in Seq(Packets) /\ lanes.taken \in Nat
      /\ lanes.offset \in Nat /\ lanes.sent \in Nat
  BY Fields
<1>3. Front /\ Chained(lanes.info, lanes.taken)
  BY InfoParts
<1>4. /\ Chained(lanes'.info, lanes'.taken) /\ lanes'.info # <<>>
      /\ lanes'.info[1] = IF lanes.info = <<>> THEN packet ELSE lanes.info[1]
  BY <1>1, <1>2, <1>3, ChainGrows
<1>5. NextFrame' = NextFrame
  BY <1>1 DEF NextFrame
<1>6. Front'
  <2>1. CASE lanes.info = <<>>
    <3>1. lanes.offset = 0 /\ lanes.taken = NextFrame
      BY <1>3, <2>1 DEF Front
    <3>2. lanes'.info[1].start = lanes.taken /\ lanes'.info[1].frames = frames
      BY <1>4, <2>1
    <3>3. lanes'.info[1].start + lanes'.offset = NextFrame'
      BY <1>1, <1>2, <1>5, <3>1, <3>2
    <3>4. lanes'.offset < lanes'.info[1].frames
      BY <1>1, <3>1, <3>2
    <3> QED BY <1>4, <3>3, <3>4 DEF Front
  <2>2. CASE lanes.info # <<>>
    BY <1>1, <1>3, <1>4, <1>5, <2>2 DEF Front
  <2> QED BY <2>1, <2>2
<1> QED BY <1>4, <1>6, InfoPartsNext

LEMMA DrewInfo ==
    ASSUME TypeOK, InfoInv, NEW share, Drew(share)
    PROVE  InfoInv'
<1> DEFINE start == lanes.info[1].start
           frames == lanes.info[1].frames
           finish == Finish(lanes.info[1])
<1>1. /\ lanes.info \in Seq(Packets) /\ lanes.taken \in Nat
      /\ lanes.offset \in Nat /\ lanes.sent \in Nat /\ call.popped \in Nat
  BY Fields
<1>2. /\ share \in Nat \ {0} /\ lanes.info # <<>>
      /\ lanes'.taken = lanes.taken /\ lanes'.sent = lanes.sent
      /\ call'.popped = call.popped + share
  BY DEF Drew
<1>3. Front /\ Chained(lanes.info, lanes.taken)
  BY InfoParts
<1>4. /\ start \in Nat /\ frames \in Nat \ {0} /\ finish = start + frames
  <2>1. 1 \in 1 .. Len(lanes.info)
    BY <1>1, <1>2, EmptySeq, SMT
  <2> QED BY <1>1, <2>1, FinishType
<1>5. start + lanes.offset = lanes.sent + call.popped
  BY <1>2, <1>3 DEF Front, NextFrame
<1> HIDE DEF start, frames, finish
<1>6. NextFrame' = lanes.sent + (call.popped + share)
  BY <1>2 DEF NextFrame
<1>7. CASE /\ lanes.offset + share = frames
           /\ lanes'.info = Tail(lanes.info) /\ lanes'.offset = 0
  <2>1. /\ Chained(lanes'.info, lanes.taken)
        /\ finish = IF lanes'.info = <<>> THEN lanes.taken
                    ELSE lanes'.info[1].start
    BY <1>1, <1>2, <1>3, <1>7, ChainShortens DEF finish
  <2>2. finish = lanes.sent + (call.popped + share)
    <3>1. finish = start + (lanes.offset + share)
      BY <1>4, <1>7
    <3>2. start + (lanes.offset + share) = lanes.sent + (call.popped + share)
      BY <1>1, <1>2, <1>4, <1>5
    <3> QED BY <3>1, <3>2
  <2>3. finish \in Nat /\ finish + 0 = finish
    BY <1>4
  <2>4. lanes'.info # <<>> => lanes'.info[1].frames \in Nat \ {0}
    <3>1. lanes'.info \in Seq(Packets)
      BY <1>1, <1>2, <1>7, HeadTailProperties
    <3>2. lanes'.info # <<>> => 1 \in 1 .. Len(lanes'.info)
      BY <3>1, EmptySeq, SMT
    <3> QED BY <3>1, <3>2, FinishType
  <2>5. Front'
    <3>1. CASE lanes'.info = <<>>
      BY <1>2, <1>6, <1>7, <2>1, <2>2, <3>1 DEF Front
    <3>2. CASE lanes'.info # <<>>
      <4> DEFINE first == lanes'.info[1].frames
      <4>1. first \in Nat \ {0}
        BY <2>4, <3>2
      <4> HIDE DEF first
      <4>2. lanes'.offset < first
        BY <1>7, <4>1
      <4>3. lanes'.info[1].start + lanes'.offset = NextFrame'
        BY <1>6, <1>7, <2>1, <2>2, <2>3, <3>2
      <4> QED BY <3>2, <4>2, <4>3 DEF Front, first
    <3> QED BY <3>1, <3>2
  <2> QED BY <1>2, <2>1, <2>5, InfoPartsNext
<1>8. CASE /\ lanes.offset + share < frames
           /\ lanes'.info = lanes.info /\ lanes'.offset = lanes.offset + share
  <2>1. start + (lanes.offset + share) = lanes.sent + (call.popped + share)
    BY <1>1, <1>2, <1>4, <1>5
  <2>2. Front'
    BY <1>2, <1>6, <1>8, <2>1 DEF Front, start, frames
  <2> QED BY <1>2, <1>3, <1>8, <2>2, InfoPartsNext
<1> QED BY <1>7, <1>8 DEF Drew, frames

LEMMA EmittedInfo ==
    ASSUME TypeOK, InfoInv, Emitted
    PROVE  InfoInv'
<1>1. /\ lanes'.info = lanes.info /\ lanes'.offset = lanes.offset
      /\ lanes'.taken = lanes.taken
      /\ lanes'.sent = lanes.sent + call.popped /\ call'.popped = 0
  BY NoCallType DEF Emitted
<1>2. NextFrame' = NextFrame
  BY <1>1, Fields DEF NextFrame
<1>3. Front /\ Chained(lanes.info, lanes.taken)
  BY InfoParts
<1> QED BY <1>1, <1>2, <1>3, InfoPartsNext DEF Front

\* No more packet infos than frames between taken and sent.
LEMMA InfosCounted ==
    ASSUME TypeOK, InfoInv, call.popped = 0
    PROVE  /\ Len(lanes.info) \in Nat
           /\ Len(lanes.info) <= lanes.taken - lanes.sent
<1>1. /\ lanes.info \in Seq(Packets) /\ lanes.offset \in Nat
      /\ lanes.taken \in Nat /\ lanes.sent \in Nat
  BY Fields
<1>2. CASE lanes.info = <<>>
  <2>1. Len(lanes.info) = 0 /\ lanes.taken = lanes.sent + 0
    BY <1>2 DEF InfoInv
  <2> QED BY <1>1, <2>1
<1>3. CASE lanes.info # <<>>
  <2> DEFINE start == lanes.info[1].start
             frames == lanes.info[1].frames
             finish == Finish(lanes.info[1])
             count == Len(lanes.info)
  <2>1. count \in Nat /\ 1 \in 1 .. count
    BY <1>1, <1>3, EmptySeq, SMT
  <2>2. start \in Nat /\ frames \in Nat /\ finish = start + frames
    BY <1>1, <2>1, FinishType
  <2>3. /\ lanes.offset < frames /\ start + lanes.offset = lanes.sent + 0
        /\ finish + (count - 1) <= lanes.taken
    BY <1>3, <2>1 DEF InfoInv
  <2> HIDE DEF start, frames, finish, count
  <2>4. count <= lanes.taken - lanes.sent
    BY <1>1, <2>1, <2>2, <2>3
  <2> QED BY <2>1, <2>4 DEF count
<1> QED BY <1>2, <1>3

-----------------------------------------------------------------------------
(***************************************************************************)
(* The dry lane stays in time, to the tick.                                *)
(***************************************************************************)
Behind == (lanes.input + (Delay - warmup) * Hop) * sampleRate

LEMMA Ticks ==
    ASSUME TypeOK
    PROVE  /\ (Delay - warmup) * Hop \in Nat
           /\ lanes.dry * ModelRate \in Nat /\ lanes.output * ModelRate \in Nat
           /\ lanes.input * sampleRate \in Nat
           /\ Window * sampleRate \in Nat /\ Hop * sampleRate \in Nat
           /\ Behind \in Nat /\ lanes.input * sampleRate <= Behind
<1> DEFINE w == (Delay - warmup) * Hop
<1>5. /\ Delay - warmup \in Nat /\ Hop \in Nat /\ Window \in Nat
      /\ ModelRate \in Nat /\ sampleRate \in Nat
      /\ lanes.dry \in Nat /\ lanes.output \in Nat /\ lanes.input \in Nat
  BY Fields, Sizes
<1>1. w \in Nat
  BY <1>5
<1>2. /\ lanes.dry * ModelRate \in Nat /\ lanes.output * ModelRate \in Nat
      /\ lanes.input * sampleRate \in Nat
      /\ Window * sampleRate \in Nat /\ Hop * sampleRate \in Nat
  BY <1>5
<1> HIDE DEF w
<1>3. (lanes.input + w) * sampleRate \in Nat
  BY <1>1, Fields
<1>4. lanes.input * sampleRate <= (lanes.input + w) * sampleRate
  <2>1. /\ lanes.input \in Nat /\ lanes.input + w \in Nat
        /\ lanes.input <= lanes.input + w /\ sampleRate \in Nat
    BY <1>1, Fields
  <2> QED BY <2>1, TimesMonotone
<1> QED BY <1>1, <1>2, <1>3, <1>4 DEF w, Behind

LEMMA InTimeParts ==
    InTime <=> lanes.dry * ModelRate
                 = pair.lag + pair.input + pair.output
                     + lanes.output * ModelRate + Behind
  BY DEF InTime, Behind

LEMMA InTimeNext ==
    InTime' <=> lanes'.dry * ModelRate
                  = pair'.lag + pair'.input + pair'.output
                      + lanes'.output * ModelRate + Behind'
  BY DEF InTime, Behind

LEMMA TookInTime ==
    ASSUME TypeOK, InTime, NEW frames, NEW arrived, Took(frames, arrived)
    PROVE  InTime'
<1> DEFINE d == lanes.dry * ModelRate
           o == lanes.output * ModelRate
           f == frames * ModelRate
           a == arrived * sampleRate
           w == (Delay - warmup) * Hop
<1>1. /\ frames \in Nat /\ arrived \in Nat /\ w \in Nat
      /\ lanes.dry \in Nat /\ lanes.input \in Nat
      /\ ModelRate \in Nat /\ sampleRate \in Nat
      /\ pair.lag \in Nat /\ pair.input \in Nat /\ pair.output \in Nat
  BY Fields, Ticks, Sizes DEF Took
<1>2. /\ d \in Nat /\ o \in Nat /\ Behind \in Nat
      /\ d = pair.lag + pair.input + pair.output + o + Behind
  BY Ticks, InTimeParts
<1>3. f \in Nat /\ a \in Nat
  BY <1>1
<1>4. (lanes.dry + frames) * ModelRate = d + f
  BY <1>1, Distributes
<1>5. (lanes.input + arrived + w) * sampleRate = Behind + a
  <2> HIDE DEF w
  <2>1. ((lanes.input + w) + arrived) * sampleRate
          = (lanes.input + w) * sampleRate + arrived * sampleRate
    BY <1>1, Distributes
  <2>2. lanes.input + arrived + w = (lanes.input + w) + arrived
    BY <1>1
  <2> QED BY <2>1, <2>2 DEF Behind, w
<1>6. /\ lanes'.dry * ModelRate = d + f /\ lanes'.output * ModelRate = o
      /\ Behind' = Behind + a
      /\ pair'.lag = pair.lag /\ pair'.output = pair.output
      /\ pair'.input = pair.input + f - a
  BY <1>4, <1>5 DEF Took, Behind
<1> HIDE DEF d, o, f, a, w
<1>7. d + f = pair.lag + (pair.input + f - a) + pair.output + o + (Behind + a)
  BY <1>1, <1>2, <1>3
<1> QED BY <1>6, <1>7, InTimeNext

LEMMA RanInTime ==
    ASSUME TypeOK, InTime, NEW out, NEW held, Ran(out, held),
           Discarded(out, held) \/ Synthesised(out, held)
    PROVE  InTime'
<1> DEFINE d == lanes.dry * ModelRate
           o == lanes.output * ModelRate
           h == Hop * sampleRate
           s == out * ModelRate
           w == (Delay - warmup) * Hop
<1>1. /\ out \in Nat /\ held \in Nat /\ w \in Nat /\ Hop \in Nat
      /\ lanes.output \in Nat /\ lanes.input \in Nat
      /\ ModelRate \in Nat /\ sampleRate \in Nat
      /\ pair.lag \in Nat /\ pair.input \in Nat /\ pair.output \in Nat
      /\ Delay \in Nat /\ warmup \in Nat
  BY Fields, Ticks, Sizes DEF Ran
<1>2. /\ d \in Nat /\ o \in Nat /\ Behind \in Nat /\ h \in Nat
      /\ d = pair.lag + pair.input + pair.output + o + Behind
  BY Ticks, InTimeParts
<1>3. /\ lanes'.dry = lanes.dry /\ lanes'.output = lanes.output + out
      /\ lanes'.input = lanes.input - Hop /\ sampleRate' = sampleRate
      /\ pair'.lag = pair.lag /\ pair'.input = pair.input
      /\ pair'.output = held
  BY DEF Ran
<1>4. s \in Nat /\ (lanes.output + out) * ModelRate = o + s
  BY <1>1, Distributes
<1>5. CASE Discarded(out, held)
  <2>1. out = 0 /\ held = pair.output /\ warmup' = warmup - 1
    BY <1>5 DEF Discarded
  <2>2. (Delay - warmup') * Hop = w + Hop
    <3>1. Delay - warmup' = (Delay - warmup) + 1
      BY <1>1, <2>1
    <3>2. ((Delay - warmup) + 1) * Hop = (Delay - warmup) * Hop + 1 * Hop
      BY <1>1, Distributes
    <3>3. 1 * Hop = Hop
      BY <1>1
    <3> QED BY <3>1, <3>2, <3>3
  <2>3. Behind' = Behind
    <3> DEFINE v == (Delay - warmup') * Hop
    <3> HIDE DEF v, w
    <3>1. lanes'.input + v = lanes.input + w
      BY <1>1, <1>3, <2>2 DEF v
    <3> QED BY <1>3, <3>1 DEF Behind, v, w
  <2>4. lanes'.output = lanes.output
    BY <1>1, <1>3, <2>1
  <2> QED BY <1>2, <1>3, <2>1, <2>3, <2>4, InTimeNext
<1>6. CASE Synthesised(out, held)
  <2>1. s + held = pair.output + h /\ warmup' = warmup
    BY <1>6 DEF Synthesised
  <2>2. Behind' = Behind - h
    <3> DEFINE i == lanes.input + w
    <3>1. i \in Int /\ Behind = i * sampleRate
      BY <1>1 DEF Behind
    <3>2. Behind' = (lanes.input - Hop + w) * sampleRate
      BY <1>3, <2>1 DEF Behind
    <3>3. lanes.input - Hop + w = i - Hop
      <4> HIDE DEF w
      <4> QED BY <1>1
    <3> HIDE DEF i
    <3>4. (i - Hop) * sampleRate = i * sampleRate - Hop * sampleRate
      BY <1>1, <3>1, Distributes
    <3> QED BY <3>1, <3>2, <3>3, <3>4
  <2>3. lanes'.output * ModelRate = o + s
    BY <1>3, <1>4
  <2> HIDE DEF d, o, h, s, w
  <2>4. d = pair.lag + pair.input + held + (o + s) + (Behind - h)
    BY <1>1, <1>2, <1>4, <2>1
  <2> QED BY <1>3, <2>2, <2>3, <2>4, InTimeNext DEF d
<1> QED BY <1>5, <1>6

LEMMA EmittedInTime ==
    ASSUME TypeOK, InTime, Emitted
    PROVE  InTime'
<1> DEFINE d == lanes.dry * ModelRate
           o == lanes.output * ModelRate
           p == call.popped * ModelRate
<1>1. /\ call.popped \in Nat /\ lanes.dry \in Nat /\ lanes.output \in Nat
      /\ ModelRate \in Nat
      /\ pair.lag \in Nat /\ pair.input \in Nat /\ pair.output \in Nat
  BY Fields, Sizes
<1>2. /\ d \in Nat /\ o \in Nat /\ Behind \in Nat
      /\ d = pair.lag + pair.input + pair.output + o + Behind
  BY Ticks, InTimeParts
<1>3. /\ p \in Int
      /\ (lanes.dry - call.popped) * ModelRate = d - p
      /\ (lanes.output - call.popped) * ModelRate = o - p
  BY <1>1, Distributes
<1>4. /\ lanes'.dry * ModelRate = d - p /\ lanes'.output * ModelRate = o - p
      /\ Behind' = Behind /\ pair' = pair
  BY <1>3 DEF Emitted, Behind
<1> HIDE DEF d, o, p
<1>5. d - p = pair.lag + pair.input + pair.output + (o - p) + Behind
  BY <1>1, <1>2, <1>3
<1> QED BY <1>4, <1>5, InTimeNext

\* Steps that move no audio.
LEMMA KeptInTime ==
    ASSUME InTime, pair' = pair, sampleRate' = sampleRate, warmup' = warmup,
           lanes'.input = lanes.input, lanes'.output = lanes.output,
           lanes'.dry = lanes.dry
    PROVE  InTime'
  BY DEF InTime

\* In time, the dry lane holds at least what the output ring holds.
LEMMA DryCoversOutput ==
    ASSUME TypeOK, InTime
    PROVE  lanes.output <= lanes.dry
<1> DEFINE d == lanes.dry * ModelRate
           o == lanes.output * ModelRate
<1>1. /\ d \in Nat /\ o \in Nat /\ Behind \in Nat
      /\ d = pair.lag + pair.input + pair.output + o + Behind
      /\ pair.lag \in Nat /\ pair.input \in Nat /\ pair.output \in Nat
  BY Fields, Ticks, InTimeParts
<1>2. o <= d
  <2> HIDE DEF d, o
  <2> QED BY <1>1
<1> QED BY <1>2, Fields, Sizes, TimesCancel

-----------------------------------------------------------------------------
(***************************************************************************)
(* The zeros of the prefill stay what they were, and a step keeps what a   *)
(* call has checked.                                                       *)
(***************************************************************************)
LEMMA SameZeros ==
    ASSUME TypeOK, ZerosInv, sampleRate' = sampleRate, pair'.lag = pair.lag,
           NEW n \in Int, NEW m \in Int,
           lanes'.dry = lanes.dry + n - m, lanes'.taken = lanes.taken + n,
           lanes'.sent = lanes.sent + m
    PROVE  ZerosInv'
<1>1. lanes.dry \in Nat /\ lanes.taken \in Nat /\ lanes.sent \in Nat
  BY Fields
<1>2. lanes'.dry + lanes'.sent - lanes'.taken
        = lanes.dry + lanes.sent - lanes.taken
  BY <1>1
<1>3. Zeros' = Zeros
  BY <1>2 DEF Zeros
<1>4. Play' = Play
  BY DEF Play
<1> QED BY <1>3, <1>4 DEF ZerosInv

LEMMA PausedCall ==
    ASSUME TypeOK, CallInv, ReturnPending \/ StartDrain
    PROVE  CallInv'
<1>1. /\ lanes' = lanes /\ call.pc = "hops"
      /\ \/ call' = NoCall
         \/ /\ call'.pc = "drain" /\ call'.frames = call.frames
            /\ call'.missing = Available(lanes) /\ call'.popped = call.popped
            /\ ~NothingToPop(lanes)
  BY PauseStep
<1>2. call.popped = 0 /\ call.frames # 0
  BY <1>1 DEF CallInv, Idle
<1>3. CASE call' = NoCall
  BY <1>3, NoCallType DEF CallInv, Idle
<1>4. CASE /\ call'.pc = "drain" /\ call'.frames = call.frames
           /\ call'.missing = Available(lanes) /\ call'.popped = call.popped
           /\ ~NothingToPop(lanes)
  <2> DEFINE a == Available(lanes)
  <2>1. a \in Nat /\ lanes.dry \in Nat /\ ~(lanes.dry < a)
    BY <1>4, AvailableFrames, Fields DEF NothingToPop
  <2>2. Available(lanes') = a
    BY <1>1
  <2> HIDE DEF a
  <2>3. a <= lanes.dry /\ 0 + a = a
    BY <2>1
  <2>4. call'.popped + call'.missing = a
    BY <1>2, <1>4, <2>3 DEF a
  <2> QED BY <1>1, <1>2, <1>4, <2>2, <2>3, <2>4 DEF CallInv, Idle
<1> QED BY <1>1, <1>3, <1>4

LEMMA DrewCall ==
    ASSUME TypeOK, CallInv, NEW share, Drew(share)
    PROVE  CallInv'
<1>1. /\ share \in Nat /\ lanes'.output = lanes.output
      /\ lanes'.dry = lanes.dry
      /\ call.pc = "drain" /\ call'.pc = "drain" /\ call'.frames = call.frames
      /\ call'.missing = call.missing - share
      /\ call'.popped = call.popped + share
  BY DEF Drew
<1>2. call.missing \in Nat /\ call.popped \in Nat
  BY Fields
<1>3. /\ call.frames # 0 /\ call.popped + call.missing = Available(lanes)
      /\ Available(lanes) <= lanes.dry
  BY <1>1 DEF CallInv, Idle
<1>4. Available(lanes') = Available(lanes)
  BY <1>1 DEF Available
<1>5. call'.popped + call'.missing = call.popped + call.missing
  BY <1>1, <1>2
<1> QED BY <1>1, <1>3, <1>4, <1>5 DEF CallInv, Idle

-----------------------------------------------------------------------------
(***************************************************************************)
(* The load.  A call ends with the output ring emptied, with a whole       *)
(* packet sent, or with everything sent that was ever taken.               *)
(***************************************************************************)
LEMMA Rested ==
    TypeOK /\ InTime /\ ZerosInv /\ lanes.input < Window
      /\ (lanes.output = 0 \/ lanes.taken = lanes.sent)
    => InLane <= Window * sampleRate + 2 * Play
<1> SUFFICES ASSUME TypeOK, InTime, ZerosInv, lanes.input < Window,
                    lanes.output = 0 \/ lanes.taken = lanes.sent
             PROVE  InLane <= Window * sampleRate + 2 * Play
  OBVIOUS
<1> DEFINE d == lanes.dry * ModelRate
           o == lanes.output * ModelRate
           i == lanes.input * sampleRate
           ws == Window * sampleRate
<1>5. /\ d \in Nat /\ o \in Nat /\ i \in Nat /\ ws \in Nat
      /\ Behind \in Nat /\ i <= Behind
      /\ d = pair.lag + pair.input + pair.output + o + Behind
  BY Ticks, InTimeParts
<1>6. /\ pair.lag \in Nat /\ pair.input \in Nat /\ pair.output \in Nat
      /\ Play \in Nat /\ pair.input <= Play /\ pair.output <= Play
  BY Fields
<1>1. /\ d \in Nat /\ o \in Nat /\ i \in Nat /\ ws \in Nat
      /\ Behind \in Nat /\ i <= Behind
      /\ d = pair.lag + pair.input + pair.output + o + Behind
      /\ pair.lag \in Nat /\ pair.input \in Nat /\ pair.output \in Nat
      /\ Play \in Nat /\ pair.input <= Play /\ pair.output <= Play
  BY <1>5, <1>6
<1>2. InLane = i + o + pair.input + pair.output
  BY DEF InLane
<1>3. CASE lanes.output = 0
  <2>1. o = 0
    BY <1>3, Sizes
  <2>2. i <= ws
    <3>1. lanes.input \in Nat /\ Window \in Nat /\ sampleRate \in Nat
      BY Fields, Sizes
    <3>2. lanes.input <= Window
      BY <3>1
    <3> QED BY <3>1, <3>2, TimesMonotone
  <2> HIDE DEF d, o, i, ws
  <2>3. i + o + pair.input + pair.output <= ws + 2 * Play
    BY <1>1, <2>1, <2>2
  <2> QED BY <1>2, <2>3 DEF ws
<1>4. CASE lanes.taken = lanes.sent
  <2>1. lanes.dry \in Nat /\ lanes.taken \in Nat /\ lanes.sent \in Nat
    BY Fields
  <2>2. Zeros = lanes.dry
    BY <1>4, <2>1 DEF Zeros
  <2>3. d <= pair.lag + 2 * Play
    BY <2>2 DEF ZerosInv
  <2> HIDE DEF d, o, i, ws
  <2>4. i + o + pair.input + pair.output <= ws + 2 * Play
    BY <1>1, <2>3
  <2> QED BY <1>2, <2>4 DEF ws
<1> QED BY <1>3, <1>4

LEMMA RestedNext ==
    (TypeOK /\ InTime /\ ZerosInv /\ lanes.input < Window
       /\ (lanes.output = 0 \/ lanes.taken = lanes.sent))'
    => (InLane <= Window * sampleRate + 2 * Play)'
  BY Rested, PTL

\* With no call there is no packet to make room for.
LEMMA IdleLoad ==
    ASSUME TypeOK', call' = NoCall, (lanes.input < Window)',
           (InLane <= Window * sampleRate + 2 * Play)'
    PROVE  LoadInv'
<1> DEFINE ws == Window * sampleRate'
           f == call'.frames * ModelRate
<1>1. sampleRate' \in Nat
  BY Sizes DEF TypeOK
<1>2. ws \in Nat
  <2>1. Window \in Nat
    BY Sizes
  <2>2. \A a, b \in Nat : a * b \in Nat
    OBVIOUS
  <2> QED BY <1>1, <2>1, <2>2, Zenon
<1>3. f = 0
  <2>1. call'.frames = 0
    BY NoCallType, Zenon
  <2>2. 0 * ModelRate = 0
    BY Sizes
  <2> QED BY <2>1, <2>2, Zenon
<1>4. ws + f + 2 * Play' = ws + 2 * Play'
  <2> HIDE DEF ws, f
  <2>1. Play' \in Nat
    BY Sizes DEF Play
  <2> QED BY <1>2, <1>3, <2>1
<1> QED BY <1>4, NoCallType DEF LoadInv

LEMMA TookLoad ==
    ASSUME TypeOK, CallInv, LoadInv, NEW frames, NEW arrived,
           Took(frames, arrived)
    PROVE  LoadInv'
<1> DEFINE i == lanes.input * sampleRate
           o == lanes.output * ModelRate
           a == arrived * sampleRate
           f == frames * ModelRate
           ws == Window * sampleRate
<1>1. /\ frames \in Nat /\ arrived \in Nat /\ lanes.input \in Nat
      /\ sampleRate \in Nat /\ ModelRate \in Nat
      /\ pair.input \in Nat /\ pair.output \in Nat /\ Play \in Nat
  BY Fields, Sizes DEF Took
<1>2. i \in Nat /\ o \in Nat /\ a \in Nat /\ f \in Nat /\ ws \in Nat
  BY <1>1, Ticks
<1>3. (lanes.input + arrived) * sampleRate = i + a
  BY <1>1, Distributes
<1>4. i + o + pair.input + pair.output <= ws + 2 * Play
  <2>1. call.frames = 0
    BY DEF Took, CallInv, Idle
  <2>2. call.frames * ModelRate = 0
    BY <2>1, Sizes
  <2>3. InLane <= ws + 0 + 2 * Play
    BY <2>2 DEF LoadInv
  <2>4. ws + 0 + 2 * Play = ws + 2 * Play
    BY <1>1, <1>2
  <2> QED BY <2>3, <2>4 DEF InLane
<1>5. /\ lanes'.input * sampleRate' = i + a
      /\ lanes'.output * ModelRate = o
      /\ pair'.input = pair.input + f - a /\ pair'.output = pair.output
      /\ call'.frames * ModelRate = f /\ sampleRate' = sampleRate
      /\ call'.pc = "hops"
  BY <1>3 DEF Took
<1>6. Play' = Play
  BY <1>5 DEF Play
<1> HIDE DEF i, o, a, f, ws
<1>7. (i + a) + o + (pair.input + f - a) + pair.output <= ws + f + 2 * Play
  BY <1>1, <1>2, <1>4
<1>8. InLane' <= Window * sampleRate' + call'.frames * ModelRate + 2 * Play'
  BY <1>5, <1>6, <1>7 DEF InLane, ws
<1> QED BY <1>5, <1>8 DEF LoadInv

LEMMA RanLoad ==
    ASSUME TypeOK, LoadInv, NEW out, NEW held, Ran(out, held),
           Discarded(out, held) \/ Synthesised(out, held)
    PROVE  LoadInv'
<1> DEFINE i == lanes.input * sampleRate
           o == lanes.output * ModelRate
           s == out * ModelRate
           h == Hop * sampleRate
<1>1. /\ out \in Nat /\ held \in Nat /\ Hop \in Nat
      /\ lanes.output \in Nat /\ lanes.input \in Nat
      /\ ModelRate \in Nat /\ sampleRate \in Nat
      /\ pair.input \in Nat /\ pair.output \in Nat
  BY Fields, Sizes DEF Ran
<1>2. i \in Nat /\ o \in Nat /\ s \in Nat /\ h \in Nat
  BY <1>1
<1>3. /\ (lanes.input - Hop) * sampleRate = i - h
      /\ (lanes.output + out) * ModelRate = o + s
  BY <1>1, Distributes
<1>4. /\ lanes'.input * sampleRate' = i - h /\ sampleRate' = sampleRate
      /\ lanes'.output * ModelRate = o + s
      /\ pair'.input = pair.input /\ pair'.output = held
      /\ call' = call /\ call.pc = "hops"
  BY <1>3 DEF Ran
<1>5. s + held <= pair.output + h
  <2>1. CASE Discarded(out, held)
    <3>1. out = 0 /\ held = pair.output
      BY <2>1 DEF Discarded
    <3>2. s = 0
      BY <1>1, <3>1
    <3> HIDE DEF s, h
    <3> QED BY <1>1, <1>2, <3>1, <3>2
  <2>2. CASE Synthesised(out, held)
    BY <1>1, <1>2, <2>2 DEF Synthesised
  <2> QED BY <2>1, <2>2
<1> HIDE DEF i, o, s, h
<1>6. (i - h) + (o + s) + pair.input + held
        <= i + o + pair.input + pair.output
  BY <1>1, <1>2, <1>5
<1> DEFINE most == Window * sampleRate + call.frames * ModelRate + 2 * Play
<1>7. i + o + pair.input + pair.output <= most
  BY DEF LoadInv, InLane, i, o
<1>8. most \in Nat
  <2>1. /\ Window \in Nat /\ call.frames \in Nat /\ Play \in Nat
    BY Fields, Sizes
  <2> QED BY <1>1, <2>1
<1>9. (i - h) + (o + s) + pair.input + held <= most
  <2> HIDE DEF most
  <2> QED BY <1>1, <1>2, <1>6, <1>7, <1>8
<1>10. Play' = Play
  BY <1>4 DEF Play
<1>11. InLane' <= Window * sampleRate' + call'.frames * ModelRate + 2 * Play'
  BY <1>4, <1>9, <1>10 DEF InLane
<1> QED BY <1>4, <1>11 DEF LoadInv

LEMMA PausedLoad ==
    ASSUME TypeOK, InTime, CallInv, InfoInv, ZerosInv, LoadInv,
           ReturnPending \/ StartDrain
    PROVE  LoadInv'
<1>1. /\ TypeOK'
      /\ sampleRate' = sampleRate /\ pair' = pair /\ warmup' = warmup
      /\ lanes' = lanes /\ call.pc = "hops" /\ lanes.input < Window
      /\ \/ call' = NoCall /\ NothingToPop(lanes)
         \/ call'.pc = "drain" /\ call'.frames = call.frames
  BY PauseStep
<1>2. CASE call' = NoCall /\ NothingToPop(lanes)
  <2>1. lanes.output = 0 \/ lanes.taken = lanes.sent
    <3>1. CASE Available(lanes) = 0
      <4>1. lanes.output = 0
        BY <3>1, AvailableFrames, Sizes
      <4> QED BY <4>1
    <3>2. CASE lanes.info = <<>>
      <4>1. call.popped = 0 /\ lanes.taken = lanes.sent + call.popped
        BY <1>1, <3>2 DEF CallInv, InfoInv
      <4> QED BY <4>1, Fields
    <3>3. CASE lanes.dry < Available(lanes)
      <4> DEFINE n == Available(lanes)
      <4>1. /\ n \in Nat /\ n <= lanes.output /\ lanes.output <= lanes.dry
            /\ lanes.output \in Nat /\ lanes.dry \in Nat /\ lanes.dry < n
        BY <3>3, AvailableFrames, DryCoversOutput, Fields
      <4> HIDE DEF n
      <4> QED BY <4>1
    <3> QED BY <1>2, <3>1, <3>2, <3>3 DEF NothingToPop
  <2>2. InLane <= Window * sampleRate + 2 * Play
    BY <1>1, <2>1, Rested
  <2>3. (InLane <= Window * sampleRate + 2 * Play)'
    BY <1>1, <2>2 DEF InLane, Play
  <2> QED BY <1>1, <1>2, <2>3, IdleLoad
<1>3. CASE call'.pc = "drain" /\ call'.frames = call.frames
  BY <1>1, <1>3 DEF LoadInv, InLane, Play
<1> QED BY <1>1, <1>2, <1>3

LEMMA DrewLoad ==
    ASSUME LoadInv, NEW share, Drew(share)
    PROVE  LoadInv'
  BY DEF LoadInv, InLane, Play, Drew

LEMMA EmittedLoad ==
    ASSUME TypeOK, CallInv, InfoInv, LoadInv, Emitted,
           TypeOK', InTime', ZerosInv'
    PROVE  LoadInv'
<1>1. /\ sampleRate' = sampleRate /\ pair' = pair
      /\ lanes'.input = lanes.input
      /\ lanes'.output = lanes.output - call.popped
      /\ lanes'.taken = lanes.taken /\ lanes'.sent = lanes.sent + call.popped
      /\ call.pc = "drain" /\ call' = NoCall
      /\ call.missing = 0 \/ lanes.info = <<>>
  BY DEF Emitted
<1>2. (lanes.input < Window)'
  BY <1>1 DEF LoadInv
<1>3. /\ call.popped \in Nat /\ lanes.output \in Nat
      /\ call.frames \in Nat /\ call.frames <= MaxPacket
      /\ MaxPacket \in Nat /\ ModelRate \in Nat
  BY Fields, Sizes
<1>4. CASE lanes.info = <<>>
  <2>1. lanes'.taken = lanes'.sent
    BY <1>1, <1>4 DEF InfoInv
  <2> QED BY <1>1, <1>2, <2>1, RestedNext, IdleLoad
<1>5. CASE call.missing = 0 /\ call.popped = lanes.output
  <2>1. lanes'.output = 0
    BY <1>1, <1>3, <1>5
  <2> QED BY <1>1, <1>2, <2>1, RestedNext, IdleLoad
<1>6. CASE call.missing = 0 /\ call.popped = MaxPacket
  <2> DEFINE i == lanes.input * sampleRate
             o == lanes.output * ModelRate
             f == call.frames * ModelRate
             p == MaxPacket * ModelRate
             ws == Window * sampleRate
  <2>7. f \in Nat /\ p \in Nat
    BY <1>3
  <2>8. i \in Nat /\ o \in Nat /\ ws \in Nat
    BY Ticks
  <2>9. pair.input \in Nat /\ pair.output \in Nat /\ Play \in Nat
    BY Fields
  <2>1. /\ i \in Nat /\ o \in Nat /\ ws \in Nat /\ f \in Nat /\ p \in Nat
        /\ pair.input \in Nat /\ pair.output \in Nat /\ Play \in Nat
    BY <2>7, <2>8, <2>9
  <2>2. f <= p
    BY <1>3, TimesMonotone
  <2>3. (lanes.output - MaxPacket) * ModelRate = o - p
    BY <1>3, Distributes
  <2>4. i + o + pair.input + pair.output <= ws + f + 2 * Play
    BY DEF LoadInv, InLane
  <2> HIDE DEF i, o, f, p, ws
  <2>5. i + (o - p) + pair.input + pair.output <= ws + 2 * Play
    BY <2>1, <2>2, <2>4
  <2>6. (InLane <= Window * sampleRate + 2 * Play)'
    BY <1>1, <1>6, <2>3, <2>5 DEF InLane, Play, i, ws
  <2> QED BY <1>1, <1>2, <2>6, IdleLoad
<1>7. \/ lanes.info = <<>>
      \/ call.missing = 0 /\ call.popped = lanes.output
      \/ call.missing = 0 /\ call.popped = MaxPacket
  <2>1. call.popped + call.missing \in {lanes.output, MaxPacket}
    BY <1>1, AvailableFrames DEF CallInv
  <2>2. call.missing = 0 => call.popped + call.missing = call.popped
    BY <1>3
  <2> QED BY <1>1, <2>1, <2>2
<1> QED BY <1>4, <1>5, <1>6, <1>7
-----------------------------------------------------------------------------
(***************************************************************************)
(* The room.  What buffers_can_accept asks for covers what a resampler may *)
(* deliver, however much it holds back.                                    *)
(***************************************************************************)
LEMMA SlackCoversJitter ==
    ASSUME NEW native \in Nat \ {0}, NEW model \in Nat \ {0},
           NEW frames \in Nat, NEW held \in Nat,
           native = model => held = 0,
           held <= Slack * native, held <= Slack * model
    PROVE  /\ ModelFrames(frames, native, model) \in Nat
           /\ NativeFrames(frames, native, model) \in Nat
           /\ frames * model + held
                <= ModelFrames(frames, native, model) * native
           /\ frames * native + held
                <= NativeFrames(frames, native, model) * model
<1>1. /\ ModelFrames(frames, native, model) \in Nat
      /\ NativeFrames(frames, native, model) \in Nat
  BY FramesType
<1>2. CASE native = model
  <2>1. /\ ModelFrames(frames, native, model) = frames
        /\ NativeFrames(frames, native, model) = frames
    BY <1>2 DEF ModelFrames, NativeFrames
  <2>2. frames * model + held = frames * native
    <3>1. frames * native \in Nat  OBVIOUS
    <3> QED BY <1>2, <3>1
  <2> QED BY <1>1, <1>2, <2>1, <2>2
<1>3. ASSUME NEW from \in Nat, NEW to \in Nat \ {0}, held <= Slack * to
      PROVE  frames * from + held <= (ScaleCeil(frames, from, to) + Slack) * to
  <2> DEFINE c == ScaleCeil(frames, from, to)
  <2>1. c \in Nat /\ frames * from <= c * to
    BY CeilBounds
  <2> HIDE DEF c
  <2>2. Slack \in Nat
    BY Sizes
  <2>3. (c + Slack) * to = c * to + Slack * to
    BY <2>1, <2>2, Distributes
  <2> DEFINE a == frames * from
             b == c * to
             s == Slack * to
  <2>4. a \in Nat /\ b \in Nat /\ s \in Nat /\ a <= b /\ held <= s
    BY <1>3, <2>1, <2>2
  <2> HIDE DEF a, b, s
  <2>5. a + held <= b + s
    BY <2>4
  <2> QED BY <2>3, <2>5 DEF a, b, s, c
<1>4. CASE native # model
  <2>1. /\ ModelFrames(frames, native, model)
             = ScaleCeil(frames, model, native) + Slack
        /\ NativeFrames(frames, native, model)
             = ScaleCeil(frames, native, model) + Slack
    BY <1>4 DEF ModelFrames, NativeFrames
  <2>2. /\ frames * model + held
             <= (ScaleCeil(frames, model, native) + Slack) * native
        /\ frames * native + held
             <= (ScaleCeil(frames, native, model) + Slack) * model
    BY <1>3
  <2> QED BY <1>1, <2>1, <2>2
<1> QED BY <1>2, <1>4

LEMMA RingSizes ==
    /\ Rings.input \in Nat /\ Rings.output \in Nat /\ Rings.dry \in Nat
    /\ Rings.infos \in Nat
  BY RingsType DEF PlanType

\* Playing is what a resampler may hold, and the slack covers it.
LEMMA PlayCovered ==
    ASSUME TypeOK, NEW held \in {pair.input, pair.output}
    PROVE  /\ held \in Nat
           /\ sampleRate = ModelRate => held = 0
           /\ held <= Slack * sampleRate /\ held <= Slack * ModelRate
<1>1. /\ held \in Nat /\ held \in 0 .. Play /\ Play \in Nat /\ Play <= Jitter
      /\ sampleRate \in Rates
  BY Fields
<1>2. Jitter <= Slack * sampleRate /\ Jitter <= Slack * ModelRate
  BY <1>1, SlackCovers
<1>3. sampleRate = ModelRate => Play = 0
  BY DEF Play
<1>4. held <= Play /\ held <= Jitter
  BY <1>1, Sizes
<1>5. sampleRate = ModelRate => held = 0
  BY <1>1, <1>3, <1>4
<1> DEFINE s == Slack * sampleRate
           t == Slack * ModelRate
<1>6. s \in Nat /\ t \in Nat
  BY Fields, Sizes
<1>7. held <= s /\ held <= t
  <2>1. Jitter <= s /\ Jitter <= t /\ Jitter \in Nat
    BY <1>2, Sizes
  <2> HIDE DEF s, t
  <2> QED BY <1>1, <1>4, <1>6, <2>1
<1> QED BY <1>1, <1>5, <1>7

LEMMA TookRoom ==
    ASSUME TypeOK, RoomInv, NEW frames, NEW arrived, Took(frames, arrived),
           Accepts(Rings, Fill, frames, sampleRate, ModelRate)
    PROVE  RoomInv'
<1> DEFINE model == ModelFrames(frames, sampleRate, ModelRate)
           asked == lanes.input + model
           native == NativeFrames(asked, sampleRate, ModelRate)
<1>1. /\ frames \in Nat /\ arrived \in Nat
      /\ arrived * sampleRate <= pair.input + frames * ModelRate
      /\ lanes'.input = lanes.input + arrived /\ lanes'.output = lanes.output
      /\ lanes'.dry = lanes.dry + frames
      /\ lanes'.info = Append(lanes.info,
                              [frames |-> frames, start |-> lanes.taken])
      /\ sampleRate' = sampleRate /\ pair'.output = pair.output
  BY DEF Took
<1>2. /\ lanes.input \in Nat /\ lanes.output \in Nat
      /\ lanes.info \in Seq(Packets)
      /\ sampleRate \in Nat \ {0} /\ ModelRate \in Nat \ {0}
  BY Fields, Sizes
<1>3. /\ Len(lanes.info) + 1 <= Rings.infos
      /\ asked <= Rings.input /\ lanes.output + native <= Rings.output
      /\ lanes.dry + frames <= Rings.dry
  BY DEF Accepts, Fill
<1>4. /\ pair.input \in Nat /\ (sampleRate = ModelRate => pair.input = 0)
      /\ pair.input <= Slack * sampleRate /\ pair.input <= Slack * ModelRate
  BY PlayCovered
<1>5. /\ pair.output \in Nat /\ (sampleRate = ModelRate => pair.output = 0)
      /\ pair.output <= Slack * sampleRate /\ pair.output <= Slack * ModelRate
  BY PlayCovered
<1>6. model \in Nat /\ frames * ModelRate + pair.input <= model * sampleRate
  <2>1. sampleRate = ModelRate => pair.input = 0
    BY <1>4
  <2> QED BY <1>1, <1>2, <1>4, <2>1, SlackCoversJitter
<1> HIDE DEF model
<1>7. asked \in Nat
  BY <1>2, <1>6
<1> HIDE DEF asked
<1>8. /\ native \in Nat
      /\ asked * sampleRate + pair.output <= native * ModelRate
  BY <1>2, <1>5, <1>7, SlackCoversJitter
<1> HIDE DEF native
<1>9. arrived <= model
  <2> DEFINE a == arrived * sampleRate
             f == frames * ModelRate
             m == model * sampleRate
  <2>1. a \in Nat /\ f \in Nat /\ m \in Nat
    BY <1>1, <1>2, <1>6
  <2>2. a <= pair.input + f /\ f + pair.input <= m /\ pair.input \in Nat
    BY <1>1, <1>4, <1>6
  <2>3. a <= m
    <3> HIDE DEF a, f, m
    <3> QED BY <2>1, <2>2
  <2> QED BY <1>1, <1>2, <1>6, <2>3, TimesCancel
<1>10. lanes.input + arrived <= asked
  BY <1>1, <1>2, <1>6, <1>9 DEF asked
<1>11. PushesFit'
  <2>1. Len(lanes'.info) = Len(lanes.info) + 1
    BY <1>1, <1>2, SMT
  <2>2. lanes'.input <= Rings.input
    BY <1>1, <1>2, <1>3, <1>7, <1>10, RingSizes
  <2>3. lanes'.output <= Rings.output
    BY <1>1, <1>2, <1>3, <1>8, RingSizes
  <2> QED BY <1>1, <1>3, <2>1, <2>2, <2>3 DEF PushesFit, Rings
<1>12. (lanes.input + arrived) * sampleRate + lanes.output * ModelRate
         + pair.output <= Rings.output * ModelRate
  <2> DEFINE i == (lanes.input + arrived) * sampleRate
             a == asked * sampleRate
             n == native * ModelRate
             o == lanes.output * ModelRate
             r == Rings.output * ModelRate
  <2>1. i <= a
    BY <1>1, <1>2, <1>7, <1>10, TimesMonotone
  <2>2. (lanes.output + native) * ModelRate <= r
    <3>1. /\ lanes.output + native \in Nat /\ Rings.output \in Nat
          /\ ModelRate \in Nat
      BY <1>2, <1>8, RingSizes
    <3> QED BY <1>3, <3>1, TimesMonotone
  <2>3. (lanes.output + native) * ModelRate = o + n
    BY <1>2, <1>8, Distributes
  <2>4. /\ i \in Nat /\ a \in Nat /\ n \in Nat /\ o \in Nat /\ r \in Nat
    <3>1. /\ lanes.input + arrived \in Nat /\ asked \in Nat /\ native \in Nat
          /\ lanes.output \in Nat /\ sampleRate \in Nat /\ ModelRate \in Nat
      BY <1>1, <1>2, <1>7, <1>8
    <3>2. i \in Nat /\ a \in Nat /\ n \in Nat /\ o \in Nat
      BY <3>1
    <3>3. r \in Nat
      BY <3>1, RingSizes
    <3> QED BY <3>2, <3>3
  <2>5. a + pair.output <= n /\ pair.output \in Nat
    BY <1>5, <1>8
  <2>6. o + n <= r
    BY <2>2, <2>3
  <2> HIDE DEF i, a, n, o, r
  <2>7. i + o + pair.output <= r
    BY <2>1, <2>4, <2>5, <2>6
  <2> QED BY <2>7 DEF i, o, r
<1> QED BY <1>1, <1>11, <1>12 DEF RoomInv, Rings

LEMMA RanRoom ==
    ASSUME TypeOK, RoomInv, NEW out, NEW held, Ran(out, held),
           Discarded(out, held) \/ Synthesised(out, held)
    PROVE  RoomInv'
<1> DEFINE i == lanes.input * sampleRate
           o == lanes.output * ModelRate
           s == out * ModelRate
           h == Hop * sampleRate
           r == Rings.output * ModelRate
<1>1. /\ out \in Nat /\ held \in Nat /\ Hop \in Nat
      /\ lanes.output \in Nat /\ lanes.input \in Nat
      /\ ModelRate \in Nat \ {0} /\ sampleRate \in Nat
      /\ pair.output \in Nat
  BY Fields, Sizes DEF Ran
<1>2. i \in Nat /\ o \in Nat /\ s \in Nat /\ h \in Nat /\ r \in Nat
  BY <1>1, RingSizes
<1>3. /\ (lanes.input - Hop) * sampleRate = i - h
      /\ (lanes.output + out) * ModelRate = o + s
  BY <1>1, Distributes
<1>4. /\ lanes'.input * sampleRate' = i - h
      /\ lanes'.output * ModelRate = o + s
      /\ pair'.output = held
      /\ lanes.input >= Window /\ lanes'.input = lanes.input - Hop
      /\ lanes'.output = lanes.output + out /\ lanes'.dry = lanes.dry
      /\ lanes'.info = lanes.info
      /\ call.pc = "hops"
  BY <1>3 DEF Ran
<1>5. s + held <= pair.output + h
  <2>1. CASE Discarded(out, held)
    <3>1. out = 0 /\ held = pair.output
      BY <2>1 DEF Discarded
    <3>2. s = 0
      BY <1>1, <3>1
    <3> HIDE DEF s, h
    <3> QED BY <1>1, <1>2, <3>1, <3>2
  <2>2. CASE Synthesised(out, held)
    BY <1>1, <1>2, <2>2 DEF Synthesised
  <2> QED BY <2>1, <2>2
<1>6. i + o + pair.output <= r
  BY <1>4 DEF RoomInv
<1>7. h <= i
  <2>1. Hop <= lanes.input
    <3>1. Window = 2 * Hop
      BY Sizes
    <3> QED BY <1>1, <1>4, <3>1
  <2> QED BY <1>1, <2>1, TimesMonotone
<1>8. (i - h) + (o + s) + held <= r /\ o + s <= r
  <2> HIDE DEF i, o, s, h, r
  <2> QED BY <1>1, <1>2, <1>5, <1>6, <1>7
<1>9. lanes.output + out <= Rings.output
  <2>1. (lanes.output + out) * ModelRate <= Rings.output * ModelRate
    BY <1>3, <1>8
  <2>2. lanes.output + out \in Nat
    BY <1>1
  <2> QED BY <1>1, <2>1, <2>2, RingSizes, TimesCancel
<1>10. PushesFit'
  <2>1. /\ lanes.input <= Rings.input /\ lanes.dry <= Rings.dry
        /\ Len(lanes.info) <= Rings.infos
    BY DEF RoomInv, PushesFit
  <2>2. lanes'.input <= Rings.input
    BY <1>1, <1>4, <2>1, RingSizes
  <2> QED BY <1>4, <1>9, <2>1, <2>2 DEF PushesFit, Rings
<1> HIDE DEF i, o, s, h, r
<1>11. lanes'.input * sampleRate' + lanes'.output * ModelRate + pair'.output
         <= r
  BY <1>4, <1>8
<1> QED BY <1>10, <1>11 DEF RoomInv, Rings, r

LEMMA PausedRoom ==
    ASSUME TypeOK, RoomInv, ReturnPending \/ StartDrain
    PROVE  RoomInv'
<1>1. /\ sampleRate' = sampleRate /\ pair' = pair /\ lanes' = lanes
      /\ call'.pc # "hops"
  BY PauseStep, NoCallType
<1> QED BY <1>1 DEF RoomInv, PushesFit, Rings

LEMMA DrewRoom ==
    ASSUME TypeOK, RoomInv, NEW share, Drew(share)
    PROVE  RoomInv'
<1>1. /\ lanes'.input = lanes.input /\ lanes'.output = lanes.output
      /\ lanes'.dry = lanes.dry /\ call'.pc = "drain"
      /\ lanes.info # <<>>
      /\ lanes'.info = Tail(lanes.info) \/ lanes'.info = lanes.info
  BY DEF Drew
<1>2. lanes.info \in Seq(Packets)
  BY Fields
<1>3. /\ Len(lanes.info) \in Nat
      /\ Len(lanes'.info) \in {Len(lanes.info), Len(lanes.info) - 1}
  BY <1>1, <1>2, EmptySeq, HeadTailProperties
<1>4. Len(lanes'.info) <= Rings.infos
  <2>1. Len(lanes.info) <= Rings.infos
    BY DEF RoomInv, PushesFit
  <2> QED BY <1>3, <2>1, RingSizes
<1> QED BY <1>1, <1>4 DEF RoomInv, PushesFit, Rings

LEMMA EmittedRoom ==
    ASSUME TypeOK, RoomInv, Emitted
    PROVE  RoomInv'
<1>1. /\ lanes'.input = lanes.input /\ lanes'.info = lanes.info
      /\ lanes'.output = lanes.output - call.popped
      /\ lanes'.dry = lanes.dry - call.popped
      /\ call'.pc # "hops"
  BY NoCallType DEF Emitted
<1>2. /\ lanes.output \in Nat /\ lanes.dry \in Nat /\ call.popped \in Nat
  BY Fields
<1>3. lanes.output <= Rings.output /\ lanes.dry <= Rings.dry
  BY DEF RoomInv, PushesFit
<1>4. lanes'.output <= Rings.output /\ lanes'.dry <= Rings.dry
  BY <1>1, <1>2, <1>3, RingSizes
<1> QED BY <1>1, <1>4 DEF RoomInv, PushesFit, Rings
-----------------------------------------------------------------------------
(***************************************************************************)
(* Every step keeps the invariant.                                         *)
(***************************************************************************)
LEMMA RestartKeeps ==
    ASSUME IInv, NEW rate \in Rates, Restart(rate)
    PROVE  IInv'
<1>1. /\ call.pc = "idle" /\ call.frames = 0 /\ call.missing = 0
      /\ call.popped = 0
  BY DEF Restart, IInv, CallInv, Idle
<1>2. call \in [pc : {"idle", "hops", "drain"}, frames : 0 .. MaxPacket,
                missing : Nat, popped : Nat]
  BY DEF IInv, TypeOK
<1>3. call = NoCall
  <2> DEFINE Lengths == 0 .. MaxPacket
             Pc == {"idle", "hops", "drain"}
  <2>1. call \in [pc : Pc, frames : Lengths, missing : Nat, popped : Nat]
    BY <1>2
  <2> HIDE DEF Lengths, Pc
  <2>2. call = [pc |-> call.pc, frames |-> call.frames,
                missing |-> call.missing, popped |-> call.popped]
    BY <2>1
  <2> QED BY <1>1, <2>2 DEF NoCall
<1>4. Started'
  <2>1. /\ sampleRate' = rate /\ pair' \in FreshPairs(rate)
        /\ lanes' = EmptyLanes(Prefill(pair')) /\ warmup' = Delay
        /\ call' = call
    BY DEF Restart
  <2> QED BY <1>3, <2>1 DEF Started, FreshPairs, NoPair, Prefill
<1>5. Started' => IInv'
  BY StartedWell, PTL
<1> QED BY <1>4, <1>5

LEMMA TakeKeeps ==
    ASSUME IInv, NEW frames \in Frames, TakeInput(frames)
    PROVE  IInv'
<1>1. /\ TypeOK /\ InTime /\ CallInv /\ InfoInv /\ ZerosInv /\ LoadInv
      /\ RoomInv
  BY DEF IInv
<1>2. TypeOK'
  BY <1>1, TakeStep
<1>3. PICK arrived \in Nat : Took(frames, arrived)
  BY <1>1, TakeStep
<1>4. Accepts(Rings, Fill, frames, sampleRate, ModelRate)
  BY DEF TakeInput
<1>5. InTime'
  BY <1>1, <1>3, TookInTime
<1>6. CallInv'
  BY <1>3 DEF Took, CallInv, Idle
<1>7. InfoInv'
  BY <1>1, <1>3, TookInfo
<1>8. ZerosInv'
  <2>1. /\ frames \in Int /\ sampleRate' = sampleRate /\ pair'.lag = pair.lag
        /\ lanes'.dry = lanes.dry + frames /\ lanes'.sent = lanes.sent
        /\ lanes'.taken = lanes.taken + frames
    BY <1>3 DEF Took
  <2>2. /\ lanes'.dry = lanes.dry + frames - 0
        /\ lanes'.sent = lanes.sent + 0
    BY <1>1, <2>1, Fields
  <2> QED BY <1>1, <2>1, <2>2, SameZeros
<1>9. LoadInv'
  BY <1>1, <1>3, TookLoad
<1>10. RoomInv'
  BY <1>1, <1>3, <1>4, TookRoom
<1> QED BY <1>2, <1>5, <1>6, <1>7, <1>8, <1>9, <1>10 DEF IInv

LEMMA HopKeeps ==
    ASSUME IInv, DiscardHop \/ EmitHop
    PROVE  IInv'
<1>1. /\ TypeOK /\ InTime /\ CallInv /\ InfoInv /\ ZerosInv /\ LoadInv
      /\ RoomInv
  BY DEF IInv
<1>2. TypeOK'
  BY <1>1, HopStep
<1>3. PICK out \in Nat, held \in Nat :
         /\ Ran(out, held)
         /\ Discarded(out, held) \/ Synthesised(out, held)
  BY <1>1, HopStep
<1>4. /\ call' = call /\ call.pc = "hops" /\ sampleRate' = sampleRate
      /\ pair'.lag = pair.lag
      /\ lanes'.info = lanes.info /\ lanes'.offset = lanes.offset
      /\ lanes'.dry = lanes.dry /\ lanes'.taken = lanes.taken
      /\ lanes'.sent = lanes.sent
  BY <1>3 DEF Ran
<1>5. InTime'
  BY <1>1, <1>3, RanInTime
<1>6. CallInv'
  BY <1>1, <1>4 DEF CallInv, Idle
<1>7. InfoInv'
  BY <1>1, <1>4 DEF InfoInv
<1>8. ZerosInv'
  <2>1. /\ lanes'.dry = lanes.dry + 0 - 0 /\ lanes'.sent = lanes.sent + 0
        /\ lanes'.taken = lanes.taken + 0
    BY <1>1, <1>4, Fields
  <2> QED BY <1>1, <1>4, <2>1, SameZeros
<1>9. LoadInv'
  BY <1>1, <1>3, RanLoad
<1>10. RoomInv'
  BY <1>1, <1>3, RanRoom
<1> QED BY <1>2, <1>5, <1>6, <1>7, <1>8, <1>9, <1>10 DEF IInv

LEMMA PauseKeeps ==
    ASSUME IInv, ReturnPending \/ StartDrain
    PROVE  IInv'
<1>1. /\ TypeOK /\ InTime /\ CallInv /\ InfoInv /\ ZerosInv /\ LoadInv
      /\ RoomInv
  BY DEF IInv
<1>2. /\ TypeOK'
      /\ sampleRate' = sampleRate /\ pair' = pair /\ warmup' = warmup
      /\ lanes' = lanes /\ call.pc = "hops"
      /\ call' = NoCall \/ call'.popped = call.popped
  BY <1>1, PauseStep
<1>3. InTime'
  BY <1>1, <1>2, KeptInTime
<1>4. CallInv'
  BY <1>1, PausedCall
<1>5. InfoInv'
  <2>1. call.popped = 0 /\ call'.popped = 0
    BY <1>1, <1>2, NoCallType DEF CallInv
  <2> QED BY <1>1, <1>2, <2>1 DEF InfoInv
<1>6. ZerosInv'
  BY <1>1, <1>2 DEF ZerosInv, Zeros, Play
<1>7. LoadInv'
  BY <1>1, PausedLoad
<1>8. RoomInv'
  BY <1>1, PausedRoom
<1> QED BY <1>2, <1>3, <1>4, <1>5, <1>6, <1>7, <1>8 DEF IInv

LEMMA DrainKeeps ==
    ASSUME IInv, DrainInfo
    PROVE  IInv'
<1>1. /\ TypeOK /\ InTime /\ CallInv /\ InfoInv /\ ZerosInv /\ LoadInv
      /\ RoomInv
  BY DEF IInv
<1>2. TypeOK'
  BY <1>1, DrainStep
<1>3. PICK share \in Nat : Drew(share)
  BY <1>1, DrainStep
<1>4. /\ sampleRate' = sampleRate /\ pair' = pair /\ warmup' = warmup
      /\ lanes'.input = lanes.input /\ lanes'.output = lanes.output
      /\ lanes'.dry = lanes.dry /\ lanes'.taken = lanes.taken
      /\ lanes'.sent = lanes.sent
  BY <1>3 DEF Drew
<1>5. InTime'
  BY <1>1, <1>4, KeptInTime
<1>6. CallInv'
  BY <1>1, <1>3, DrewCall
<1>7. InfoInv'
  BY <1>1, <1>3, DrewInfo
<1>8. ZerosInv'
  BY <1>1, <1>4 DEF ZerosInv, Zeros, Play
<1>9. LoadInv'
  BY <1>1, <1>3, DrewLoad
<1>10. RoomInv'
  BY <1>1, <1>3, DrewRoom
<1> QED BY <1>2, <1>5, <1>6, <1>7, <1>8, <1>9, <1>10 DEF IInv

LEMMA EmitKeeps ==
    ASSUME IInv, EmitPacket
    PROVE  IInv'
<1>1. /\ TypeOK /\ InTime /\ CallInv /\ InfoInv /\ ZerosInv /\ LoadInv
      /\ RoomInv
  BY DEF IInv
<1>2. TypeOK' /\ Emitted
  BY <1>1, EmitStep
<1>3. InTime'
  BY <1>1, <1>2, EmittedInTime
<1>4. CallInv'
  BY <1>2, NoCallType DEF Emitted, CallInv, Idle
<1>5. InfoInv'
  BY <1>1, <1>2, EmittedInfo
<1>6. ZerosInv'
  <2>1. /\ sampleRate' = sampleRate /\ pair' = pair
        /\ lanes'.dry = lanes.dry - call.popped
        /\ lanes'.taken = lanes.taken
        /\ lanes'.sent = lanes.sent + call.popped
    BY <1>2 DEF Emitted
  <2>2. /\ call.popped \in Int
        /\ lanes'.dry = lanes.dry + 0 - call.popped
        /\ lanes'.taken = lanes.taken + 0
    BY <1>1, <2>1, Fields
  <2> QED BY <1>1, <2>1, <2>2, SameZeros
<1>7. LoadInv'
  BY <1>1, <1>2, <1>3, <1>6, EmittedLoad
<1>8. RoomInv'
  BY <1>1, <1>2, EmittedRoom
<1> QED BY <1>2, <1>3, <1>4, <1>5, <1>6, <1>7, <1>8 DEF IInv

\* The invariant holds of every stream, at any two rates.
THEOREM TwoRatesInvariant == Spec => []IInv
<1>1. Init => IInv
  BY StartedWell DEF Init, Started
<1>2. IInv /\ [Next]_vars => IInv'
  <2> SUFFICES ASSUME IInv, [Next]_vars PROVE IInv'  OBVIOUS
  <2>1. ASSUME NEW rate \in Rates, Restart(rate) PROVE IInv'
    BY <2>1, RestartKeeps
  <2>2. ASSUME NEW frames \in Frames, TakeInput(frames) PROVE IInv'
    BY <2>2, TakeKeeps
  <2>3. CASE DiscardHop \/ EmitHop
    BY <2>3, HopKeeps
  <2>4. CASE ReturnPending \/ StartDrain
    BY <2>4, PauseKeeps
  <2>5. CASE DrainInfo
    BY <2>5, DrainKeeps
  <2>6. CASE EmitPacket
    BY <2>6, EmitKeeps
  <2>7. CASE UNCHANGED vars
    <3>1. /\ sampleRate' = sampleRate /\ pair' = pair /\ lanes' = lanes
          /\ warmup' = warmup /\ call' = call
      BY <2>7 DEF vars
    <3> QED BY <3>1 DEF IInv, TypeOK, InTime, CallInv, InfoInv, ZerosInv,
                        LoadInv, RoomInv, PushesFit, Play, Idle, Zeros,
                        InLane, Rings
  <2> QED BY <2>1, <2>2, <2>3, <2>4, <2>5, <2>6, <2>7 DEF Next
<1> QED BY <1>1, <1>2, PTL DEF Spec

\* Every variable of the lanes stays in its type.
THEOREM TwoRatesTypes == Spec => []TypeOK
<1>1. IInv => TypeOK
  BY DEF IInv
<1> QED BY <1>1, TwoRatesInvariant, PTL

\* At any two rates the dry lane stays behind the voice lane by exactly what
\* the resamplers and the model delay the voice (processor.cpp:280-296,
\* 607-659, 755-797).
THEOREM AlwaysInTime == Spec => []InTime
<1>1. IInv => InTime
  BY DEF IInv
<1> QED BY <1>1, TwoRatesInvariant, PTL

\* No try_push after buffers_can_accept fails, however many frames the
\* resamplers deliver (processor.cpp:577-597, 607-753).
THEOREM PushesAlwaysFit == Spec => []PushesFit
<1>1. IInv => PushesFit
  BY DEF IInv, RoomInv
<1> QED BY <1>1, TwoRatesInvariant, PTL

LEMMA LoadStays == IInv => LoadBounded
<1> SUFFICES ASSUME IInv, Idle
             PROVE  Waiting(Fill, sampleRate, ModelRate, Window, Delay * Hop,
                            2 * Slack)
  BY DEF LoadBounded
<1>1. /\ TypeOK /\ InTime /\ CallInv /\ InfoInv /\ ZerosInv /\ LoadInv
  BY DEF IInv
<1>2. /\ call.pc = "idle" /\ call.frames = 0 /\ call.popped = 0
  BY <1>1 DEF CallInv, Idle
<1>3. lanes.input < Window
  BY <1>1, <1>2 DEF LoadInv
<1> DEFINE i == lanes.input * sampleRate
           o == lanes.output * ModelRate
           d == lanes.dry * ModelRate
           z == MaxPrefill * ModelRate
           s == Slack * ModelRate
           ws == Window * sampleRate
           w == (Delay - warmup) * Hop
           ds == (Delay * Hop) * sampleRate
<1>4. /\ pair.lag \in Nat /\ pair.input \in Nat /\ pair.output \in Nat
      /\ Play \in Nat /\ pair.input <= Play /\ pair.output <= Play
      /\ pair.lag <= z /\ Play <= Jitter /\ Jitter \in Nat
      /\ lanes.input \in Nat /\ lanes.output \in Nat /\ lanes.dry \in Nat
      /\ sampleRate \in Nat /\ sampleRate \in Rates
  BY <1>1, Fields, Sizes
<1>5. /\ ModelRate \in Nat /\ Slack \in Nat /\ MaxPrefill \in Nat
      /\ Delay * Hop \in Nat
  BY Sizes
<1>6. Play <= s /\ s \in Nat
  <2>1. s \in Nat /\ Jitter <= s
    BY <1>4, <1>5, SlackCovers
  <2> HIDE DEF s
  <2> QED BY <1>4, <2>1
<1>7. /\ i \in Nat /\ o \in Nat /\ d \in Nat /\ ws \in Nat /\ w \in Nat
      /\ Behind \in Nat
      /\ d = pair.lag + pair.input + pair.output + o + Behind
  BY <1>1, Ticks, InTimeParts
<1>8. z \in Nat /\ ds \in Nat
  BY <1>4, <1>5
<1>9. o + i <= ws + (2 * Slack) * ModelRate
  <2>1. call.frames * ModelRate = 0
    BY <1>2, <1>5
  <2>2. i + o + pair.input + pair.output <= ws + 0 + 2 * Play
    BY <1>1, <2>1 DEF LoadInv, InLane
  <2>3. (2 * Slack) * ModelRate = 2 * s
    BY <1>5
  <2> HIDE DEF i, o, ws, s
  <2>4. o + i <= ws + 2 * s
    BY <1>4, <1>6, <1>7, <2>2
  <2> QED BY <2>3, <2>4
<1>10. Behind <= (lanes.input + Delay * Hop) * sampleRate
  <2>1. w <= Delay * Hop
    <3>1. /\ Delay - warmup \in Nat /\ Delay \in Nat /\ Hop \in Nat
          /\ warmup \in Nat
      BY <1>1, Fields, Sizes
    <3>2. Delay - warmup <= Delay
      BY <3>1
    <3> QED BY <3>1, <3>2, TimesMonotone
  <2> DEFINE all == Delay * Hop
  <2>2. all \in Nat /\ w <= all
    BY <1>5, <2>1
  <2> HIDE DEF all, w
  <2>3. /\ lanes.input + w \in Nat /\ lanes.input + all \in Nat
        /\ lanes.input + w <= lanes.input + all
    BY <1>4, <1>7, <2>2
  <2>4. (lanes.input + w) * sampleRate <= (lanes.input + all) * sampleRate
    BY <1>4, <2>3, TimesMonotone
  <2> QED BY <2>4 DEF Behind, w, all
<1>11. d <= (MaxPrefill + lanes.output + 2 * Slack) * ModelRate
              + (lanes.input + Delay * Hop) * sampleRate
  <2> DEFINE more == (lanes.input + Delay * Hop) * sampleRate
  <2>1. (MaxPrefill + lanes.output + 2 * Slack) * ModelRate = z + o + 2 * s
    <3>1. /\ (MaxPrefill + lanes.output + 2 * Slack) * ModelRate
               = (MaxPrefill + lanes.output) * ModelRate
                   + (2 * Slack) * ModelRate
          /\ (MaxPrefill + lanes.output) * ModelRate = z + o
      BY <1>4, <1>5, Distributes
    <3>2. (2 * Slack) * ModelRate = 2 * s
      BY <1>5
    <3> QED BY <3>1, <3>2
  <2>2. more \in Nat /\ Behind <= more
    BY <1>4, <1>5, <1>10
  <2> HIDE DEF d, z, o, s, more
  <2>3. d <= z + o + 2 * s + more
    BY <1>4, <1>6, <1>7, <1>8, <2>2
  <2> QED BY <2>1, <2>3 DEF more
<1>12. Len(lanes.info) <= lanes.dry
  <2>1. /\ Len(lanes.info) \in Nat
        /\ Len(lanes.info) <= lanes.taken - lanes.sent
    BY <1>1, <1>2, InfosCounted
  <2>2. lanes.taken \in Nat /\ lanes.sent \in Nat
    BY <1>1, Fields
  <2>3. Zeros \in Int /\ pair.lag <= Zeros * ModelRate
    BY <1>1, <1>4, <2>2 DEF ZerosInv, Zeros
  <2>4. ModelRate \in Nat \ {0}
    BY Sizes
  <2>5. Zeros >= 0
    <3> SUFFICES ASSUME Zeros < 0 PROVE FALSE
      BY <2>3
    <3> DEFINE n == 0 - Zeros
               m == n * ModelRate
    <3>1. n \in Nat \ {0}
      BY <2>3
    <3>2. m \in Nat \ {0}
      BY <2>4, <3>1
    <3>3. Zeros * ModelRate = 0 - m
      BY <2>3, <2>4
    <3> HIDE DEF n, m
    <3> QED BY <1>4, <2>3, <3>2, <3>3
  <2> QED BY <1>4, <2>1, <2>2, <2>5 DEF Zeros
<1> QED BY <1>3, <1>9, <1>11, <1>12 DEF Waiting, Fill

\* Between two calls the rings never hold more than the plan was made for:
\* what PlanAcceptsEveryPacket asks of them is what the code keeps.
THEOREM LoadAlwaysBounded == Spec => []LoadBounded
  BY LoadStays, TwoRatesInvariant, PTL

\* A packet of legal size is never refused, at any rate the slack covers: no
\* CapacityInvariantFailure (processor.cpp:226-244, 577-597).
THEOREM PacketsAlwaysFit == Spec => []PacketsFit
<1>1. IInv => PacketsFit
  <2> SUFFICES ASSUME IInv, Idle, NEW frames \in 1 .. MaxPacket
               PROVE  Accepts(Rings, Fill, frames, sampleRate, ModelRate)
    BY DEF PacketsFit
  <2>1. Waiting(Fill, sampleRate, ModelRate, Window, Delay * Hop, 2 * Slack)
    BY LoadStays DEF LoadBounded
  <2>2. Stream(sampleRate, ModelRate, Window, Delay * Hop, 2 * Slack)
    <3>1. sampleRate \in Rates
      BY DEF IInv, TypeOK
    <3>2. /\ ModelRate \in MinRate .. MaxRate
          /\ sampleRate \in MinRate .. MaxRate
          /\ Covers(sampleRate, ModelRate) /\ Window <= MaxWindow
          /\ Spare(2 * Slack)
      BY <3>1, TwoRatesAssumption
    <3>3. /\ Window \in 1 .. MaxWindow /\ Delay * Hop \in Nat
          /\ 2 * Slack \in Nat
      BY <3>2, Sizes, PlanAssumption
    <3> QED BY <3>2, <3>3 DEF Stream
  <2>3. Fill \in PlanType
    <3>1. /\ lanes.input \in Nat /\ lanes.output \in Nat /\ lanes.dry \in Nat
          /\ lanes.info \in Seq(Packets)
      BY Fields DEF IInv
    <3>2. Len(lanes.info) \in Nat
      BY <3>1
    <3> QED BY <3>1, <3>2 DEF Fill, PlanType
  <2> QED BY <2>1, <2>2, <2>3, PlanAcceptsEveryPacket DEF Rings
<1> QED BY <1>1, TwoRatesInvariant, PTL
=============================================================================
