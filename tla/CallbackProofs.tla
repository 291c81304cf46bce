--------------------------- MODULE CallbackProofs ---------------------------
(***************************************************************************)
(* What holds of the realtime guard, the probe and the timestamp floor     *)
(* (module AudioCallback) for every limit, rate, packet, cost and length   *)
(* of a run.  Pauses are earned: what the guard has on its books is at     *)
(* most what the filter owes since some callback (Owed).  Overloads are    *)
(* noticed: it is all the filter owes since any callback, unless a sum     *)
(* has reached the end of uint64_t (Counted).  Recoveries are earned: the  *)
(* probe's sum never passes the audio that went well (ProbeInv).  Outputs  *)
(* neither overlap nor are held back: the floor is the end of the last     *)
(* output (FloorInv).                                                      *)
(***************************************************************************)
EXTENDS AudioCallback, SequenceTheorems, TLAPS

LOCAL INSTANCE FiniteSetsExt
-----------------------------------------------------------------------------
(***************************************************************************)
(* Numbers, and the records that hold them.                                *)
(***************************************************************************)
\* The larger and the smaller of two numbers.
LEMMA MaxOfTwo ==
    ASSUME NEW a \in Int, NEW b \in Int
    PROVE  /\ Max({a, b}) = IF a < b THEN b ELSE a
           /\ Min({a, b}) = IF a < b THEN a ELSE b
BY DEF Max, Min

\* Quotients of naturals are naturals,
LEMMA QuotientType ==
    ASSUME NEW a \in Nat, NEW b \in Nat \ {0}
    PROVE  a \div b \in Nat
BY SMT

\* and so are products,
LEMMA ProductType ==
    ASSUME NEW a \in Nat, NEW b \in Nat
    PROVE  a * b \in Nat
BY SMT

\* which stay within a bound that was divided before.
LEMMA ProductWithin ==
    ASSUME NEW a \in Nat, NEW b \in Nat \ {0}, NEW m \in Nat, a <= m \div b
    PROVE  a * b <= m
BY SMT

\* A duration is a number of time units.
LEMMA DurationType ==
    ASSUME NEW frames \in Nat, NEW r \in Nat \ {0}
    PROVE  Duration(frames, r) \in Nat
BY FloorAssumption, ProductType, QuotientType DEF Duration

\* A saturating sum stays within uint64_t.
LEMMA SaturatingType ==
    ASSUME NEW a \in Ns, NEW b \in Nat
    PROVE  SaturatingAdd(a, b) \in Ns
BY GuardAssumption DEF SaturatingAdd, Ns

\* So does audio_budget_ns, whose products are guarded by quotients.
LEMMA BudgetType ==
    ASSUME NEW hops \in Hops
    PROVE  AudioBudget(hops, HopSize, ModelRate) \in Ns
<1> DEFINE frames  == IF hops > MaxNs \div HopSize THEN MaxNs
                      ELSE hops * HopSize
           seconds == frames \div ModelRate
           whole   == seconds * NsPerSecond
           rest    == ((frames % ModelRate) * NsPerSecond) \div ModelRate
<1>1. /\ hops \in Nat /\ HopSize \in Nat \ {0} /\ ModelRate \in Nat \ {0}
      /\ MaxNs \in Nat /\ NsPerSecond \in Nat \ {0}
  BY GuardAssumption, CallbackAssumption
<1>2. AudioBudget(hops, HopSize, ModelRate)
        \in {0, MaxNs, IF seconds > MaxNs \div NsPerSecond THEN MaxNs
                       ELSE SaturatingAdd(whole, rest)}
  BY DEF AudioBudget
<1>3. frames \in Nat
  BY <1>1, ProductType
<1> HIDE DEF frames
<1>4. seconds \in Nat /\ frames % ModelRate \in Nat
  BY <1>1, <1>3, QuotientType
<1>5. rest \in Nat
  BY <1>1, <1>4, ProductType, QuotientType
<1> HIDE DEF seconds, rest
<1>6. MaxNs \div NsPerSecond \in Nat
  BY <1>1, QuotientType
<1>7. ASSUME ~(seconds > MaxNs \div NsPerSecond) PROVE whole \in Ns
  <2>1. seconds <= MaxNs \div NsPerSecond
    BY <1>4, <1>6, <1>7
  <2>2. whole <= MaxNs /\ whole \in Nat
    BY <1>1, <1>4, <2>1, ProductType, ProductWithin
  <2>3. QED
    BY <1>1, <2>2 DEF Ns
<1>8. 0 \in Ns /\ MaxNs \in Ns
  BY <1>1 DEF Ns
<1> HIDE DEF whole
<1>9. QED
  BY <1>2, <1>5, <1>7, <1>8, SaturatingType

\* A guard that is reset, made new or set to probe is a guard.
LEMMA GuardTypes ==
    /\ NewGuard \in GuardType /\ ~NewGuard.probe
    /\ \A g \in GuardType :
         /\ ResetGuard(g) \in GuardType /\ ResetGuard(g).probe = g.probe
         /\ [ResetGuard(g) EXCEPT !.probe = TRUE] \in GuardType
         /\ \A p \in BOOLEAN : /\ [g EXCEPT !.probe = p] \in GuardType
                               /\ [g EXCEPT !.probe = p].probe = p
<1>1. 0 \in Ns
  BY GuardAssumption DEF Ns
<1>2. NewGuard \in GuardType /\ ~NewGuard.probe
  BY <1>1 DEF NewGuard, GuardType
<1>3. ASSUME NEW g \in GuardType, NEW p \in BOOLEAN
      PROVE  /\ [g EXCEPT !.probe = p] \in GuardType
             /\ [g EXCEPT !.probe = p].probe = p
  BY Zenon DEF GuardType
<1>4. ASSUME NEW g \in GuardType
      PROVE  ResetGuard(g) \in GuardType /\ ResetGuard(g).probe = g.probe
  <2> DEFINE h == [g EXCEPT !.debt = 0]
  <2>1. h \in GuardType /\ h.probe = g.probe
    BY <1>1, Zenon DEF GuardType
  <2> HIDE DEF h
  <2>2. /\ [h EXCEPT !.observed = 0] \in GuardType
        /\ [h EXCEPT !.observed = 0].probe = h.probe
    BY <1>1, <2>1, Zenon DEF GuardType
  <2>3. ResetGuard(g) = [h EXCEPT !.observed = 0]
    BY Zenon DEF ResetGuard, h
  <2>4. QED
    BY <2>1, <2>2, <2>3
<1> DEFINE yes == TRUE
<1>5. yes \in BOOLEAN
  OBVIOUS
<1> HIDE DEF yes
<1>6. \A g \in GuardType : [ResetGuard(g) EXCEPT !.probe = yes] \in GuardType
  BY <1>3, <1>4, <1>5, Zenon
<1>7. QED
  BY <1>2, <1>3, <1>4, <1>6, Zenon DEF yes

\* So is one that has observed a callback.
LEMMA ObservedType ==
    ASSUME NEW g \in GuardType, NEW ns \in Ns, NEW budget \in Ns
    PROVE  Observed(g, ns, budget) \in GuardType
<1> DEFINE debt == NewDebt(g, ns, budget)
           seen == IF debt = 0 THEN 0 ELSE SaturatingAdd(g.observed, budget)
<1>1. /\ g.debt \in Ns /\ g.observed \in Ns /\ g.probe \in BOOLEAN
      /\ budget \in Nat /\ ns \in Nat /\ 0 \in Ns
  BY GuardAssumption DEF GuardType, Ns
<1>2. debt \in Ns
  <2>1. CASE ns > budget
    <3>1. ns - budget \in Nat
      BY <1>1, <2>1
    <3>2. debt = SaturatingAdd(g.debt, ns - budget)
      BY <2>1 DEF NewDebt
    <3>3. QED
      BY <1>1, <3>1, <3>2, SaturatingType
  <2>2. CASE ~(ns > budget)
    BY <1>1, <2>2, GuardAssumption DEF NewDebt, Ns
  <2>3. QED
    BY <2>1, <2>2
<1> HIDE DEF debt
<1>3. seen \in Ns
  BY <1>1, SaturatingType
<1> HIDE DEF seen
<1>4. \/ Observed(g, ns, budget) = g
      \/ Observed(g, ns, budget)
           = [debt |-> debt, observed |-> seen, probe |-> g.probe]
  BY <1>1, Zenon DEF Observed, GuardType, debt, seen
<1>5. QED
  BY <1>1, <1>2, <1>3, <1>4 DEF GuardType

\* Attempts stay within the delays.
LEMMA AttemptType ==
    ASSUME NEW n \in 0 .. LastDelay
    PROVE  NextAttempt(n) \in 0 .. LastDelay
BY GuardAssumption DEF NextAttempt

\* The floor is where the last output ended, or zero when there is none that
\* counts; and the outputs are in order.
FloorInv ==
    /\ sent.at \in Nat /\ sent.own \in Nat /\ sent.ends \in Nat
    /\ sent.frames \in Nat /\ sent.rate \in Nat \ {0}
    /\ floor.next = IF sent.frames = 0 THEN 0
                    ELSE Min({LastStamp,
                              sent.at + Duration(sent.frames, sent.rate)})
    /\ NoOverlap /\ NotHeldBack

\* An input moves the floor only when the clock has gone back.
LEMMA FloorTypes ==
    ASSUME NEW f \in FloorType, NEW s \in Stamps
    PROVE  /\ ObserveInput(f, s) \in FloorType
           /\ ObserveInput(f, s).next = IF ClockWentBack(f, s) THEN 0
                                        ELSE f.next
           /\ f.next \in 0 .. LastStamp /\ ClockWentBack(f, s) \in BOOLEAN
<1>1. s \in 0 .. LastStamp
  BY CallbackAssumption
<1>2. f.next \in 0 .. LastStamp /\ ClockWentBack(f, s) \in BOOLEAN
  BY DEF FloorType, ClockWentBack
<1>3. ObserveInput(f, s).next = IF ClockWentBack(f, s) THEN 0 ELSE f.next
  BY DEF ObserveInput
<1>4. ObserveInput(f, s).next \in 0 .. LastStamp
  BY <1>2, <1>3, FloorAssumption
<1>5. ObserveInput(f, s) \in FloorType
  BY <1>1, <1>3, <1>4, Zenon DEF ObserveInput, FloorType
<1>6. QED
  BY <1>2, <1>3, <1>5

\* A stream that starts again is in order.
LEMMA NothingSent ==
    ASSUME sent' = NotSent, floor'.next = 0
    PROVE  FloorInv'
<1>1. /\ sent'.at = 0 /\ sent'.own = 0 /\ sent'.ends = 0 /\ sent'.frames = 0
      /\ sent'.rate = 1
  BY DEF NotSent
<1>2. NoOverlap' /\ NotHeldBack'
  <2>1. Min({0, LastStamp}) = 0 /\ Max({0, 0}) = 0
    BY FloorAssumption, MaxOfTwo
  <2>2. QED
    BY <1>1, <2>1 DEF NoOverlap, NotHeldBack
<1>3. QED
  BY <1>1, <1>2 DEF FloorInv

\* An output that is raised to the floor, and raises it, is in order.
LEMMA SendKeepsFloor ==
    ASSUME FloorInv, floor \in FloorType, NEW f \in FloorType,
           NEW own \in Stamps, NEW frames \in Frames, NEW r \in Rates,
           NEW restart \in BOOLEAN,
           f.next = IF restart THEN 0 ELSE floor.next,
           Send(f, own, frames, r, restart)
    PROVE  FloorInv' /\ floor' \in FloorType
<1> DEFINE old  == Duration(sent.frames, sent.rate)
           long == Duration(frames, r)
           at   == Adjusted(f, own)
           ends == IF restart \/ sent.frames = 0 THEN 0 ELSE sent.at + old
           next == Min({LastStamp, at + long})
<1>1. /\ LastStamp \in Nat /\ own \in Nat /\ own <= LastStamp
      /\ frames \in Nat \ {0} /\ r \in Nat \ {0}
      /\ f.next \in Nat /\ floor.next \in Nat /\ f.next <= LastStamp
  BY FloorAssumption, CallbackAssumption DEF FloorType
<1>2. old \in Nat /\ long \in Nat
  BY <1>1, DurationType DEF FloorInv
<1>3. floor.next = IF sent.frames = 0 THEN 0 ELSE Min({LastStamp, sent.at + old})
  BY DEF FloorInv
<1>4. floor' = [f EXCEPT !.next = next]
  BY DEF Send, Raised
<1>5. sent' = [ends |-> ends, own |-> own, at |-> at, frames |-> frames,
               rate |-> r]
  BY DEF Send
<1>6. at = IF own < f.next THEN f.next ELSE own
  BY <1>1, MaxOfTwo DEF Adjusted
<1> HIDE DEF old, long, at
<1>7. at \in Nat /\ ends \in Nat /\ sent.at \in Nat
  BY <1>1, <1>2, <1>6 DEF FloorInv
<1>8. next = IF LastStamp < at + long THEN LastStamp ELSE at + long
  <2>1. LastStamp \in Int /\ at + long \in Int
    BY <1>1, <1>2, <1>7
  <2>2. QED
    BY <2>1, MaxOfTwo
<1>9. sent.frames # 0 =>
        floor.next = IF LastStamp < sent.at + old THEN LastStamp
                     ELSE sent.at + old
  <2>1. LastStamp \in Int /\ sent.at + old \in Int
    BY <1>1, <1>2, <1>7
  <2>2. QED
    BY <1>3, <2>1, MaxOfTwo
<1> HIDE DEF next, ends
<1>10. /\ sent'.at = at /\ sent'.own = own /\ sent'.ends = ends
       /\ sent'.frames = frames /\ sent'.rate = r
  BY <1>5
<1>11. floor'.next = next /\ floor' \in FloorType
  <2>1. next \in 0 .. LastStamp
    BY <1>1, <1>2, <1>7, <1>8
  <2>2. QED
    BY <1>4, <2>1 DEF FloorType
<1>12. at >= Min({ends, LastStamp})
  <2>1. Min({ends, LastStamp}) = IF ends < LastStamp THEN ends ELSE LastStamp
    <3>1. LastStamp \in Int /\ ends \in Int
      BY <1>1, <1>7
    <3>2. QED
      BY <3>1, MaxOfTwo, Zenon
  <2>2. ends # 0 => ends = sent.at + old /\ f.next = floor.next
    BY DEF ends
  <2>3. CASE ends = 0
    BY <1>1, <1>7, <2>1, <2>3
  <2>4. CASE ends # 0
    <3>1. sent.frames # 0
      BY <2>4 DEF ends
    <3>2. QED
      BY <1>1, <1>2, <1>6, <1>7, <1>9, <2>1, <2>2, <2>4, <3>1
  <2>5. QED
    BY <2>3, <2>4
<1>13. at <= Max({own, ends})
  <2>1. Max({own, ends}) = IF own < ends THEN ends ELSE own
    BY <1>1, <1>7, MaxOfTwo
  <2>2. f.next <= ends
    <3>1. CASE restart
      BY <1>1, <1>7, <3>1
    <3>2. CASE sent.frames = 0
      BY <1>1, <1>3, <1>7, <3>2
    <3>3. CASE ~restart /\ sent.frames # 0
      BY <1>1, <1>2, <1>7, <1>9, <3>3 DEF ends
    <3>4. QED
      BY <3>1, <3>2, <3>3
  <2>3. QED
    BY <1>1, <1>6, <1>7, <2>1, <2>2
<1>14. Duration(sent'.frames, sent'.rate) = long
  BY <1>10 DEF long
<1>15. floor'.next = Min({LastStamp, sent'.at + Duration(sent'.frames,
                                                         sent'.rate)})
  BY <1>10, <1>11, <1>14, Zenon DEF next
<1>16. sent'.at >= Min({sent'.ends, LastStamp})
       /\ sent'.at <= Max({sent'.own, sent'.ends})
  BY <1>10, <1>12, <1>13, Zenon
<1>17. QED
  <2>1. /\ sent'.at \in Nat /\ sent'.own \in Nat /\ sent'.ends \in Nat
        /\ sent'.frames \in Nat /\ sent'.rate \in Nat \ {0}
        /\ sent'.frames # 0
    BY <1>1, <1>7, <1>10
  <2>2. QED
    BY <1>11, <1>15, <1>16, <2>1, Zenon DEF FloorInv, NoOverlap, NotHeldBack

-----------------------------------------------------------------------------
(***************************************************************************)
(* Types, the probe and the floor.                                         *)
(***************************************************************************)
\* The running totals of the measured callbacks.
MeasuredType == [late : Int, audio : Nat]

\* Each total is a number.
LEMMA TotalType ==
    ASSUME NEW calls \in Seq(MeasuredType), NEW n \in 0 .. Len(calls)
    PROVE  Total(calls, n).late \in Int /\ Total(calls, n).audio \in Nat
<1>1. n # 0 => calls[n] \in MeasuredType
  BY ElementOfSeq
<1>2. QED
  BY <1>1 DEF Total, MeasuredType

\* One callback more adds to the totals and leaves the earlier ones.
LEMMA WithCallTotals ==
    ASSUME NEW calls \in Seq(MeasuredType), NEW ns \in Nat, NEW budget \in Nat
    PROVE  LET new == WithCall(calls, ns, budget)
               n   == Len(calls)
           IN  /\ new \in Seq(MeasuredType)
               /\ n \in Nat /\ Len(new) = n + 1
               /\ \A i \in 0 .. n : Total(new, i) = Total(calls, i)
               /\ Total(new, n + 1).late = Total(calls, n).late + ns - budget
               /\ Total(new, n + 1).audio = Total(calls, n).audio + budget
<1> DEFINE n    == Len(calls)
           sum  == Total(calls, n)
           call == [late |-> sum.late + ns - budget,
                    audio |-> sum.audio + budget]
           new  == WithCall(calls, ns, budget)
<1>1. n \in Nat
  BY LenProperties
<1>2. sum.late \in Int /\ sum.audio \in Nat
  BY <1>1, TotalType
<1>3. new = Append(calls, call)
  BY DEF WithCall
<1> HIDE DEF sum
<1>4. /\ call \in MeasuredType /\ call.late = sum.late + ns - budget
      /\ call.audio = sum.audio + budget
  BY <1>2 DEF MeasuredType
<1> HIDE DEF call, new
<1>5. /\ new \in Seq(MeasuredType) /\ Len(new) = n + 1
      /\ \A i \in 1 .. n : new[i] = calls[i]
      /\ new[n + 1] = call
  BY <1>3, <1>4, AppendProperties
<1> HIDE DEF n
<1>6. \A i \in 0 .. n : Total(new, i) = Total(calls, i)
  BY <1>1, <1>5 DEF Total
<1>7. Total(new, n + 1) = call
  BY <1>1, <1>5 DEF Total
<1>8. QED
  BY <1>1, <1>4, <1>5, <1>6, <1>7 DEF n, new, sum

\* What a probe has left to hear.
ProbeInv ==
    guard.probe => /\ probeAudio <= calm
                   /\ probeAudio < ProbeAudio \/ probeAudio = 0

\* The guard, the back-off, the probe and the callbacks in order.
GuardInv ==
    /\ guard \in GuardType /\ reason \in Reasons
    /\ attempts \in 0 .. LastDelay /\ probeAudio \in Ns /\ calm \in Nat
    /\ measured \in Seq(MeasuredType) /\ Len(measured) <= MaxCalls
    /\ ProbeInv

\* The inductive invariant of types, floor and probe.
CallbackInv == rate \in Rates /\ floor \in FloorType /\ FloorInv /\ GuardInv

\* The reasons are reasons.
LEMMA ReasonsAre ==
    "None" \in Reasons /\ "RepeatedProcessingFailures" \in Reasons
    /\ "RealtimeOverload" \in Reasons
BY DEF Reasons

\* A measured callback keeps the guard in order, and ends a probe only with
\* enough audio behind it.
LEMMA MeasureStep ==
    ASSUME GuardInv, reason = "None", NEW g \in GuardType,
           g.probe = guard.probe, NEW calls \in Seq(MeasuredType),
           Len(calls) < MaxCalls, NEW ns \in Costs, NEW hops \in Hops,
           NEW event \in BOOLEAN, Measure(g, calls, ns, hops, event)
    PROVE  /\ GuardInv'
           /\ guard.probe /\ ~guard'.probe => calm' >= ProbeAudio
<1> DEFINE budget == AudioBudget(hops, HopSize, ModelRate)
           trips  == Trips(g, ns, budget)
           ends   == ProbeEnds(budget, event)
           seen   == Observed(g, ns, budget)
           probe  == seen.probe /\ ~(~trips /\ ends)
           counts == CountsForProbe(event)
<1>1. /\ budget \in Ns /\ budget \in Nat /\ ns \in Ns /\ ns \in Nat
      /\ ProbeAudio + budget <= MaxNs /\ ProbeAudio \in Nat /\ MaxNs \in Nat
      /\ MaxCalls \in Nat
  BY GuardAssumption, CallbackAssumption, ProbeAssumption, BudgetType DEF Ns
<1>2. seen \in GuardType /\ seen.probe = g.probe
  <2>1. seen \in GuardType
    BY <1>1, ObservedType
  <2>2. seen.probe = g.probe
    BY SMT DEF Observed, GuardType
  <2>3. QED
    BY <2>1, <2>2
<1>3. /\ guard' = [seen EXCEPT !.probe = probe]
      /\ IF trips THEN Pauses ELSE Counts(budget, event)
      /\ measured' = IF budget = 0 THEN calls
                     ELSE WithCall(calls, ns, budget)
      /\ calm' = IF guard.probe /\ ~event THEN calm + budget ELSE calm
  <2>1. guard' = [seen EXCEPT !.probe = @ /\ ~(~trips /\ ends)]
    BY DEF Measure
  <2>2. [seen EXCEPT !.probe = @ /\ ~(~trips /\ ends)]
          = [seen EXCEPT !.probe = probe]
    OBVIOUS
  <2>3. QED
    BY <2>1, <2>2, Zenon DEF Measure
<1>4. /\ trips \in BOOLEAN /\ ends \in BOOLEAN /\ probe \in BOOLEAN
      /\ counts \in BOOLEAN
  BY <1>2, Zenon DEF Trips, ProbeEnds, CountsForProbe, GuardType
<1>5. /\ counts <=> guard.probe /\ ~event
      /\ ends <=> counts /\ probeAudio + budget >= ProbeAudio
      /\ probe <=> guard.probe /\ (trips \/ ~ends)
  BY <1>2, Zenon DEF CountsForProbe, ProbeEnds
<1> HIDE DEF seen, probe
<1>6. guard' \in GuardType /\ guard'.probe = probe
  BY <1>2, <1>3, <1>4, GuardTypes
<1>7. measured' \in Seq(MeasuredType) /\ Len(measured') <= MaxCalls
  <2>1. /\ WithCall(calls, ns, budget) \in Seq(MeasuredType)
        /\ Len(WithCall(calls, ns, budget)) = Len(calls) + 1
        /\ Len(calls) \in Nat
    BY <1>1, WithCallTotals
  <2>2. QED
    BY <1>1, <1>3, <2>1
<1>8. /\ reason' \in Reasons /\ attempts' \in 0 .. LastDelay
      /\ probeAudio' = IF ~trips /\ counts THEN probeAudio + budget
                       ELSE probeAudio
  <2>1. CASE trips
    BY <1>3, <2>1, AttemptType, ReasonsAre DEF Pauses, GuardInv
  <2>2. CASE ~trips
    <3>1. /\ attempts' = IF ends THEN 0 ELSE attempts
          /\ probeAudio' = IF counts THEN probeAudio + budget ELSE probeAudio
          /\ reason' = reason
      BY <1>3, <2>2 DEF Counts
    <3>2. 0 \in 0 .. LastDelay
      BY GuardAssumption
    <3>3. QED
      BY <2>2, <3>1, <3>2 DEF GuardInv
  <2>3. QED
    BY <1>4, <2>1, <2>2
<1> HIDE DEF budget, trips, ends, counts
<1>9. /\ probeAudio \in Nat /\ calm \in Nat /\ calm' \in Nat
      /\ guard.probe => /\ probeAudio <= calm
                        /\ probeAudio < ProbeAudio \/ probeAudio = 0
      /\ probeAudio \in Ns
  BY <1>1, <1>3 DEF GuardInv, ProbeInv, Ns
<1>10. probeAudio' \in Ns
  <2>1. CASE ~trips /\ counts
    <3>1. probeAudio <= ProbeAudio
      BY <1>1, <1>5, <1>9, <2>1
    <3>2. probeAudio' = probeAudio + budget /\ probeAudio + budget <= MaxNs
      BY <1>1, <1>8, <1>9, <2>1, <3>1
    <3>3. QED
      BY <1>1, <1>9, <3>2 DEF Ns
  <2>2. CASE ~(~trips /\ counts)
    BY <1>8, <1>9, <2>2
  <2>3. QED
    BY <2>1, <2>2
<1>11. probe => /\ probeAudio' <= calm'
                /\ probeAudio' < ProbeAudio \/ probeAudio' = 0
  BY <1>1, <1>3, <1>5, <1>8, <1>9
<1>12. guard.probe /\ ~probe => calm' >= ProbeAudio
  BY <1>1, <1>3, <1>5, <1>8, <1>9
<1>13. QED
  BY <1>6, <1>7, <1>8, <1>9, <1>10, <1>11, <1>12, Zenon DEF GuardInv, ProbeInv

\* A format change starts a new epoch of the same guard.
LEMMA EpochType ==
    ASSUME GuardInv, NEW r \in Rates
    PROVE  /\ EpochAt(r) \in GuardType /\ EpochAt(r).probe = guard.probe
           /\ CallsAt(r) \in Seq(MeasuredType)
           /\ Len(CallsAt(r)) <= MaxCalls
<1>1. <<>> \in Seq(MeasuredType) /\ Len(<<>>) = 0
  BY EmptySeq
<1>2. 0 <= MaxCalls
  BY CallbackAssumption
<1>3. QED
  BY <1>1, <1>2, GuardTypes DEF EpochAt, CallsAt, GuardInv

\* Whatever the callback sends keeps the floor in order.
LEMMA OutputsKeepFloor ==
    ASSUME FloorInv, floor \in FloorType, NEW stamp \in Stamps,
           NEW frames \in Frames, NEW r \in Rates,
           Outputs(ObserveInput(floor, stamp), stamp, frames, r,
                   ClockWentBack(floor, stamp))
    PROVE  FloorInv' /\ floor' \in FloorType
<1> DEFINE f == ObserveInput(floor, stamp)
           restart == ClockWentBack(floor, stamp)
<1>1. /\ f \in FloorType /\ restart \in BOOLEAN
      /\ f.next = IF restart THEN 0 ELSE floor.next
  BY FloorTypes
<1>2. \/ SendNothing(f, restart)
      \/ \E own \in Stamps : Send(f, own, frames, r, restart)
  BY DEF Outputs
<1> HIDE DEF f, restart
<1>3. CASE \E own \in Stamps : Send(f, own, frames, r, restart)
  <2>1. PICK own \in Stamps : Send(f, own, frames, r, restart)
    BY <1>3
  <2>2. QED
    BY <1>1, <2>1, SendKeepsFloor
<1>4. CASE SendNothing(f, restart)
  <2>1. floor' = f /\ sent' = IF restart THEN NotSent ELSE sent
    BY <1>4 DEF SendNothing
  <2>2. CASE restart
    <3>1. floor'.next = 0 /\ sent' = NotSent
      BY <1>1, <2>1, <2>2
    <3>2. QED
      BY <1>1, <2>1, <3>1, NothingSent
  <2>3. CASE ~restart
    <3>1. floor'.next = floor.next /\ sent' = sent
      BY <1>1, <2>1, <2>3
    <3>2. QED
      BY <1>1, <2>1, <3>1 DEF FloorInv, NoOverlap, NotHeldBack
  <2>4. QED
    BY <1>1, <2>2, <2>3
<1>5. QED
  BY <1>2, <1>3, <1>4

\* The callback starts in order.
LEMMA CallbackInit ==
    ASSUME Init
    PROVE  CallbackInv
<1>1. rate \in Rates /\ floor \in FloorType /\ floor.next = 0 /\ sent = NotSent
  BY FloorAssumption DEF Init, NoFloor, FloorType
<1>2. FloorInv
  <2>1. /\ sent.at = 0 /\ sent.own = 0 /\ sent.ends = 0 /\ sent.frames = 0
        /\ sent.rate = 1
    BY <1>1 DEF NotSent
  <2>2. NoOverlap /\ NotHeldBack
    <3>1. Min({0, LastStamp}) = 0 /\ Max({0, 0}) = 0
      BY FloorAssumption, MaxOfTwo
    <3>2. QED
      BY <2>1, <3>1 DEF NoOverlap, NotHeldBack
  <2>3. QED
    BY <1>1, <2>1, <2>2 DEF FloorInv
<1>3. GuardInv
  <2>1. 0 \in 0 .. LastDelay /\ 0 \in Ns /\ 0 <= MaxCalls
    BY GuardAssumption, CallbackAssumption DEF Ns
  <2>2. <<>> \in Seq(MeasuredType) /\ Len(<<>>) = 0
    BY EmptySeq
  <2>3. QED
    BY <2>1, <2>2, GuardTypes, ReasonsAre DEF Init, GuardInv, ProbeInv
<1>4. QED
  BY <1>1, <1>2, <1>3 DEF CallbackInv

\* And every section under mutex_ leaves it so.
LEMMA CallbackStep ==
    ASSUME CallbackInv, [Next]_vars
    PROVE  /\ CallbackInv'
           /\ guard.probe /\ ~guard'.probe /\ Len(measured') > 0
                => calm' >= ProbeAudio
<1>1. CASE MeasuredCallback
  <2>1. PICK r \in Rates, stamp \in Stamps, frames \in Frames, ns \in Costs,
             hops \in Hops, event \in BOOLEAN :
          /\ reason = "None" /\ Len(CallsAt(r)) < MaxCalls
          /\ rate' = r
          /\ Measure(EpochAt(r), CallsAt(r), ns, hops, event)
          /\ Outputs(ObserveInput(floor, stamp), stamp, frames, r,
                     ClockWentBack(floor, stamp))
    BY <1>1 DEF MeasuredCallback
  <2>2. FloorInv' /\ floor' \in FloorType
    BY <2>1, OutputsKeepFloor DEF CallbackInv
  <2>3. EpochAt(r) \in GuardType /\ EpochAt(r).probe = guard.probe
        /\ CallsAt(r) \in Seq(MeasuredType)
    BY <2>1, EpochType DEF CallbackInv
  <2>4. /\ GuardInv'
        /\ guard.probe /\ ~guard'.probe => calm' >= ProbeAudio
    BY <2>1, <2>3, MeasureStep DEF CallbackInv
  <2>5. QED
    BY <2>1, <2>2, <2>4 DEF CallbackInv
<1>2. CASE UnmeasuredCallback
  <2>1. PICK r \in Rates, stamp \in Stamps, frames \in Frames :
          /\ rate' = r
          /\ guard' = EpochAt(r) /\ measured' = CallsAt(r)
          /\ \/ reason' = reason
             \/ reason = "None" /\ reason' = "RepeatedProcessingFailures"
          /\ \/ Send(ObserveInput(floor, stamp), stamp, frames, r,
                     ClockWentBack(floor, stamp))
             \/ Outputs(ObserveInput(floor, stamp), stamp, frames, r,
                        ClockWentBack(floor, stamp))
          /\ UNCHANGED <<attempts, probeAudio, calm>>
    BY <1>2 DEF UnmeasuredCallback
  <2>2. Outputs(ObserveInput(floor, stamp), stamp, frames, r,
                ClockWentBack(floor, stamp))
    BY <2>1 DEF Outputs
  <2>3. FloorInv' /\ floor' \in FloorType
    BY <2>1, <2>2, OutputsKeepFloor DEF CallbackInv
  <2>4. EpochAt(r) \in GuardType /\ EpochAt(r).probe = guard.probe
        /\ CallsAt(r) \in Seq(MeasuredType) /\ Len(CallsAt(r)) <= MaxCalls
    BY <2>1, EpochType DEF CallbackInv
  <2>5. GuardInv' /\ guard'.probe = guard.probe
    BY <2>1, <2>4, ReasonsAre DEF CallbackInv, GuardInv, ProbeInv
  <2>6. QED
    BY <2>1, <2>3, <2>5 DEF CallbackInv
<1>3. /\ <<>> \in Seq(MeasuredType) /\ Len(<<>>) = 0
      /\ 0 <= MaxCalls /\ 0 \in 0 .. LastDelay /\ 0 \in Ns /\ 0 \in Nat
  BY EmptySeq, GuardAssumption, CallbackAssumption DEF Ns
<1>4. CASE Retry
  <2>1. /\ guard' \in GuardType /\ reason' \in Reasons /\ attempts' = attempts
        /\ probeAudio' = 0 /\ calm' = 0 /\ measured' = <<>>
    BY <1>4, GuardTypes, ReasonsAre DEF Retry, CallbackInv, GuardInv
  <2>2. GuardInv'
    BY <1>3, <2>1 DEF CallbackInv, GuardInv, ProbeInv
  <2>3. UNCHANGED <<rate, floor, sent>>
    BY <1>4 DEF Retry
  <2>4. QED
    BY <1>3, <2>1, <2>2, <2>3
       DEF CallbackInv, FloorInv, NoOverlap, NotHeldBack
<1>5. CASE StartOver
  <2>1. /\ guard' \in GuardType /\ ~guard'.probe /\ reason' \in Reasons
        /\ attempts' = 0 /\ probeAudio' = 0 /\ calm' = 0 /\ measured' = <<>>
    BY <1>5, GuardTypes, ReasonsAre DEF StartOver
  <2>2. GuardInv'
    BY <1>3, <2>1 DEF CallbackInv, GuardInv, ProbeInv
  <2>3. UNCHANGED <<rate, floor, sent>>
    BY <1>5 DEF StartOver
  <2>4. QED
    BY <1>3, <2>1, <2>2, <2>3
       DEF CallbackInv, FloorInv, NoOverlap, NotHeldBack
<1>6. CASE NewPair \/ StreamBoundary
  <2>1. /\ guard' \in GuardType /\ guard'.probe = guard.probe
        /\ measured' = <<>>
        /\ UNCHANGED <<rate, reason, attempts, probeAudio, calm>>
    <3>1. guard \in GuardType
      BY DEF CallbackInv, GuardInv
    <3>2. /\ guard' = ResetGuard(guard) /\ measured' = <<>>
          /\ UNCHANGED <<rate, reason, attempts, probeAudio, calm>>
      BY <1>6 DEF NewPair, StreamBoundary
    <3>3. QED
      BY <3>1, <3>2, GuardTypes
  <2>2. GuardInv'
    BY <1>3, <2>1 DEF CallbackInv, GuardInv, ProbeInv
  <2>3. FloorInv' /\ floor' \in FloorType
    <3>1. CASE NewPair
      BY <3>1 DEF NewPair, CallbackInv, FloorInv, NoOverlap, NotHeldBack
    <3>2. CASE StreamBoundary
      <4>1. floor' = NoFloor /\ sent' = NotSent
        BY <3>2 DEF StreamBoundary
      <4>2. floor' \in FloorType /\ floor'.next = 0
        BY <4>1, FloorAssumption DEF NoFloor, FloorType
      <4>3. QED
        BY <4>1, <4>2, NothingSent
    <3>3. QED
      BY <1>6, <3>1, <3>2
  <2>4. QED
    BY <1>3, <2>1, <2>2, <2>3 DEF CallbackInv
<1>7. CASE vars' = vars
  BY <1>7 DEF vars, history, CallbackInv, FloorInv, NoOverlap, NotHeldBack,
              GuardInv, ProbeInv
<1>8. QED
  BY <1>1, <1>2, <1>4, <1>5, <1>6, <1>7 DEF Next

\* In every behaviour CallbackInv holds (filter_audio and the sections that
\* reset the guard, dpdfnet-filter.cpp).
THEOREM CallbackInvariant == Spec => []CallbackInv
<1>1. Init => CallbackInv
  BY CallbackInit
<1>2. CallbackInv /\ [Next]_vars => CallbackInv'
  BY CallbackStep
<1>3. QED
  BY <1>1, <1>2, PTL DEF Spec

\* All numbers stay in their ranges: debts and observed audio end at the
\* largest uint64_t, attempts at the last delay, and the probe's sum never
\* wraps.
THEOREM CallbackTypes == Spec => []TypeOK
<1>1. CallbackInv => TypeOK
  BY DEF CallbackInv, GuardInv, TypeOK
<1>2. QED
  BY <1>1, CallbackInvariant, PTL

\* No output packet has a timestamp before the end of the one sent before it,
\* unless that end is beyond the last timestamp or the input's clock went
\* back (DpdfnetTimestampFloor).
THEOREM OutputsNeverOverlap == Spec => []NoOverlap
<1>1. CallbackInv => NoOverlap
  BY DEF CallbackInv, FloorInv
<1>2. QED
  BY <1>1, CallbackInvariant, PTL

\* And no output is moved further than to the end of the one before it.
THEOREM OutputsNotHeldBack == Spec => []NotHeldBack
<1>1. CallbackInv => NotHeldBack
  BY DEF CallbackInv, FloorInv
<1>2. QED
  BY <1>1, CallbackInvariant, PTL

\* A probe ends, and the back-off with it, only after OVERLOAD_PROBE_AUDIO_NS
\* of callbacks without an event since the last retry, unless processing
\* starts over (filter_audio, retry_after_overload).
THEOREM RecoveriesAreEarned == Spec => RecoveryEarned
<1>1. CallbackInv /\ [Next]_vars =>
        [guard.probe /\ ~guard'.probe /\ Len(measured') > 0
           => calm' >= ProbeAudio]_vars
  BY CallbackStep
<1>2. QED
  BY <1>1, CallbackInvariant, PTL DEF Spec, RecoveryEarned

-----------------------------------------------------------------------------
(***************************************************************************)
(* What the guard owes: pauses are earned.                                 *)
(***************************************************************************)
\* What one callback adds to the guard's sums, where they do not end.
LEMMA ObservedFacts ==
    ASSUME NEW g \in GuardType, NEW ns \in Ns, NEW budget \in Ns, budget > 0
    PROVE  LET h == Observed(g, ns, budget)
           IN  /\ h.debt = 0 => h.observed = 0
               /\ h.debt > 0 => h.debt <= g.debt + ns - budget
               /\ h.observed <= g.observed + budget
               /\ g.debt + ns - budget <= MaxNs
                    => g.debt + ns - budget <= h.debt
               /\ h.debt > 0 /\ g.observed + budget <= MaxNs
                    => h.observed = g.observed + budget
<1> DEFINE debt == NewDebt(g, ns, budget)
           seen == IF debt = 0 THEN 0 ELSE SaturatingAdd(g.observed, budget)
           h    == Observed(g, ns, budget)
<1>1. /\ g.debt \in Nat /\ g.debt <= MaxNs
      /\ g.observed \in Nat /\ g.observed <= MaxNs
      /\ budget \in Nat /\ ns \in Nat /\ MaxNs \in Nat
  BY GuardAssumption DEF GuardType, Ns
<1>2. h = [g EXCEPT !.debt = debt, !.observed = seen]
  BY DEF Observed
<1>3. /\ debt > 0 => debt <= g.debt + ns - budget
      /\ g.debt + ns - budget <= MaxNs => g.debt + ns - budget <= debt
      /\ debt \in Nat
  BY <1>1 DEF NewDebt, SaturatingAdd
<1> HIDE DEF debt
<1>4. /\ debt = 0 => seen = 0
      /\ seen <= g.observed + budget
      /\ debt > 0 /\ g.observed + budget <= MaxNs
           => seen = g.observed + budget
  BY <1>1, <1>3 DEF SaturatingAdd
<1> HIDE DEF seen, h
<1>5. h.debt = debt /\ h.observed = seen
  BY <1>2, SMT DEF GuardType
<1>6. QED
  BY <1>3, <1>4, <1>5 DEF h

\* What the guard has on its books is owed: since some callback the filter
\* was behind all the time, by the debt or more, over the audio it counts.
Owed(g, calls) ==
    LET n == Len(calls)
    IN  \E s \in 1 .. n + 1 : /\ BehindSince(calls, s)
                              /\ g.debt <= Late(calls, s, n)
                              /\ g.observed <= Audio(calls, s, n)

\* What one callback more adds to what is owed since any callback.
LEMMA LongerCalls ==
    ASSUME NEW calls \in Seq(MeasuredType), NEW ns \in Nat, NEW budget \in Nat
    PROVE  LET new == WithCall(calls, ns, budget)
               n   == Len(calls)
           IN  /\ \A i \in 1 .. n + 1 :
                    /\ Late(new, i, n + 1) = Late(calls, i, n) + ns - budget
                    /\ Audio(new, i, n + 1) = Audio(calls, i, n) + budget
                    /\ \A j \in i .. n : Late(new, i, j) = Late(calls, i, j)
                    /\ Late(calls, i, n) \in Int /\ Audio(calls, i, n) \in Int
               /\ Late(new, n + 2, n + 1) = 0
               /\ Late(new, n + 1, n + 1) = ns - budget
               /\ Audio(new, n + 2, n + 1) = 0
               /\ Audio(new, n + 1, n + 1) = budget
<1> DEFINE n   == Len(calls)
           new == WithCall(calls, ns, budget)
<1>1. /\ new \in Seq(MeasuredType) /\ n \in Nat /\ Len(new) = n + 1
      /\ \A i \in 0 .. n : Total(new, i) = Total(calls, i)
      /\ Total(new, n + 1).late = Total(calls, n).late + ns - budget
      /\ Total(new, n + 1).audio = Total(calls, n).audio + budget
  BY WithCallTotals
<1>2. \A i \in 0 .. n : /\ Total(calls, i).late \in Int
                        /\ Total(calls, i).audio \in Nat
  BY TotalType
<1>3. Total(new, n + 1).late \in Int /\ Total(new, n + 1).audio \in Nat
  BY <1>1, TotalType
<1> HIDE DEF n, new
<1>4. ASSUME NEW i \in 1 .. n + 1
      PROVE  /\ Late(new, i, n + 1) = Late(calls, i, n) + ns - budget
             /\ Audio(new, i, n + 1) = Audio(calls, i, n) + budget
             /\ \A j \in i .. n : Late(new, i, j) = Late(calls, i, j)
             /\ Late(calls, i, n) \in Int /\ Audio(calls, i, n) \in Int
  <2>1. /\ i - 1 \in 0 .. n /\ n \in 0 .. n
        /\ \A j \in i .. n : j \in 0 .. n
    BY <1>1
  <2>2. /\ Total(new, i - 1) = Total(calls, i - 1)
        /\ \A j \in i .. n : Total(new, j) = Total(calls, j)
    BY <1>1, <2>1
  <2>3. /\ Total(calls, i - 1).late \in Int /\ Total(calls, n).late \in Int
        /\ Total(calls, i - 1).audio \in Nat /\ Total(calls, n).audio \in Nat
    BY <1>2, <2>1
  <2>4. \A j \in i .. n : Late(new, i, j) = Late(calls, i, j)
    BY <2>2, Zenon DEF Late
  <2> DEFINE l == Total(calls, i - 1).late
             k == Total(calls, n).late
             m == Total(new, n + 1).late
             a == Total(calls, i - 1).audio
             b == Total(calls, n).audio
             d == Total(new, n + 1).audio
  <2>5. /\ Late(new, i, n + 1) = m - l /\ Late(calls, i, n) = k - l
        /\ Audio(new, i, n + 1) = d - a /\ Audio(calls, i, n) = b - a
    BY <2>2, Zenon DEF Late, Audio
  <2>6. /\ l \in Int /\ k \in Int /\ a \in Nat /\ b \in Nat
        /\ m = k + ns - budget /\ d = b + budget
    BY <1>1, <2>3
  <2> HIDE DEF l, k, m, a, b, d
  <2>7. /\ m - l = k - l + ns - budget /\ d - a = b - a + budget
        /\ k - l \in Int /\ b - a \in Int
    BY <2>6
  <2>8. QED
    BY <2>4, <2>5, <2>7, Zenon
<1>5. /\ Late(new, n + 2, n + 1) = 0 /\ Audio(new, n + 2, n + 1) = 0
  <2> DEFINE t == Total(new, n + 1)
  <2>1. (n + 2) - 1 = n + 1
    BY <1>1
  <2>2. /\ Late(new, n + 2, n + 1) = t.late - t.late
        /\ Audio(new, n + 2, n + 1) = t.audio - t.audio
    BY <2>1, Zenon DEF Late, Audio
  <2> HIDE DEF t
  <2>3. t.late \in Int /\ t.audio \in Int
    BY <1>3 DEF t
  <2>4. QED
    BY <2>2, <2>3
<1>6. /\ Late(new, n + 1, n + 1) = ns - budget
      /\ Audio(new, n + 1, n + 1) = budget
  <2>1. n + 1 - 1 = n /\ n \in 0 .. n
    BY <1>1
  <2>2. Total(new, n) = Total(calls, n)
    BY <1>1, <2>1
  <2>3. Total(calls, n).late \in Int /\ Total(calls, n).audio \in Nat
    BY <1>2, <2>1
  <2>4. QED
    BY <1>1, <2>1, <2>2, <2>3 DEF Late, Audio
<1>7. QED
  BY <1>4, <1>5, <1>6 DEF n, new

\* A callback the guard observes leaves it with no more than is owed.
LEMMA OwedStep ==
    ASSUME NEW g \in GuardType, NEW calls \in Seq(MeasuredType),
           Owed(g, calls), NEW ns \in Ns, NEW budget \in Ns, budget > 0
    PROVE  Owed(Observed(g, ns, budget), WithCall(calls, ns, budget))
<1> DEFINE n   == Len(calls)
           new == WithCall(calls, ns, budget)
           h   == Observed(g, ns, budget)
<1>1. /\ budget \in Nat /\ ns \in Nat /\ n \in Nat
      /\ g.debt \in Nat /\ g.observed \in Nat
  BY LenProperties DEF Ns, GuardType
<1>2. Len(new) = n + 1
  BY <1>1, WithCallTotals
<1>3. /\ h.debt = 0 => h.observed = 0
      /\ h.debt > 0 => h.debt <= g.debt + ns - budget
      /\ h.observed <= g.observed + budget
  BY ObservedFacts
<1>4. h.debt \in Nat /\ h.observed \in Nat
  <2>1. h \in GuardType
    BY ObservedType
  <2>2. QED
    BY <2>1 DEF GuardType, Ns
<1>5. PICK s \in 1 .. n + 1 : /\ BehindSince(calls, s)
                              /\ g.debt <= Late(calls, s, n)
                              /\ g.observed <= Audio(calls, s, n)
  BY DEF Owed
<1>6. /\ Late(new, s, n + 1) = Late(calls, s, n) + ns - budget
      /\ Audio(new, s, n + 1) = Audio(calls, s, n) + budget
      /\ \A j \in s .. n : Late(new, s, j) = Late(calls, s, j)
      /\ Late(calls, s, n) \in Int /\ Audio(calls, s, n) \in Int
      /\ Late(new, n + 2, n + 1) = 0 /\ Audio(new, n + 2, n + 1) = 0
  <2>1. \A i \in 1 .. n + 1 :
           /\ Late(new, i, n + 1) = Late(calls, i, n) + ns - budget
           /\ Audio(new, i, n + 1) = Audio(calls, i, n) + budget
           /\ \A j \in i .. n : Late(new, i, j) = Late(calls, i, j)
           /\ Late(calls, i, n) \in Int /\ Audio(calls, i, n) \in Int
    BY <1>1, LongerCalls, ZenonT(60)
  <2>2. Late(new, n + 2, n + 1) = 0 /\ Audio(new, n + 2, n + 1) = 0
    BY <1>1, LongerCalls, ZenonT(60)
  <2> HIDE DEF n, new
  <2>3. QED
    BY <1>5, <2>1, <2>2, ZenonT(60)
<1>7. \A j \in s .. n : Late(calls, s, j) > 0
  BY <1>5 DEF BehindSince
<1> HIDE DEF n, new, h
<1>8. CASE h.debt = 0
  <2>1. n + 2 \in 1 .. (n + 1) + 1 /\ (n + 2) .. (n + 1) = {}
    BY <1>1
  <2>2. BehindSince(new, n + 2)
    BY <1>2, <2>1 DEF BehindSince
  <2>3. QED
    BY <1>2, <1>3, <1>6, <1>8, <2>1, <2>2 DEF Owed, h, new
<1>9. CASE h.debt # 0
  <2>1. h.debt <= Late(new, s, n + 1) /\ Late(new, s, n + 1) > 0
    BY <1>1, <1>3, <1>4, <1>5, <1>6, <1>9
  <2>2. h.observed <= Audio(new, s, n + 1)
    BY <1>1, <1>3, <1>4, <1>5, <1>6
  <2>3. ASSUME NEW j \in s .. n + 1 PROVE Late(new, s, j) > 0
    BY <1>1, <1>5, <1>6, <1>7, <2>1
  <2>4. BehindSince(new, s)
    BY <1>2, <2>3 DEF BehindSince
  <2>5. s \in 1 .. (n + 1) + 1
    BY <1>1, <1>5
  <2>6. QED
    BY <1>2, <2>1, <2>2, <2>4, <2>5 DEF Owed, h, new
<1>10. QED
  BY <1>8, <1>9

\* So a guard that trips has seen an overload.
LEMMA TripsOnOverload ==
    ASSUME NEW g \in GuardType, NEW calls \in Seq(MeasuredType),
           Owed(g, calls), NEW ns \in Ns, NEW budget \in Ns,
           Trips(g, ns, budget)
    PROVE  Overload(WithCall(calls, ns, budget), g.probe)
<1> DEFINE n     == Len(calls)
           new   == WithCall(calls, ns, budget)
           h     == Observed(g, ns, budget)
           limit == IF g.probe THEN ProbeMaxDebt ELSE MaxDebt
           audio == IF g.probe THEN ProbeMinObserved ELSE MinObserved
<1>1. /\ budget \in Nat /\ ns \in Nat /\ n \in Nat /\ budget > 0 /\ ns > budget
      /\ h.debt >= limit /\ h.observed >= audio
      /\ limit \in Nat /\ limit > 0 /\ audio \in Nat
  BY LenProperties, GuardAssumption DEF Ns, Trips
<1>2. Len(new) = n + 1 /\ Late(new, n + 1, n + 1) = ns - budget
  BY <1>1, WithCallTotals, LongerCalls
<1>3. h.debt \in Nat /\ h.observed \in Nat
  <2>1. h \in GuardType
    BY ObservedType
  <2>2. QED
    BY <2>1 DEF GuardType, Ns
<1>4. Owed(h, new)
  BY <1>1, OwedStep
<1>5. /\ Late(new, n + 2, n + 1) = 0
      /\ \A i \in 1 .. n + 1 : /\ Late(new, i, n + 1) \in Int
                               /\ Audio(new, i, n + 1) \in Int
  <2>1. Late(new, n + 2, n + 1) = 0
    BY <1>1, LongerCalls, Zenon
  <2>2. ASSUME NEW i \in 1 .. n + 1
        PROVE  /\ Late(new, i, n + 1) \in Int
               /\ Audio(new, i, n + 1) \in Int
    <3>1. /\ Late(new, i, n + 1) = Late(calls, i, n) + ns - budget
          /\ Audio(new, i, n + 1) = Audio(calls, i, n) + budget
          /\ Late(calls, i, n) \in Int /\ Audio(calls, i, n) \in Int
      BY <1>1, LongerCalls, Zenon
    <3>2. QED
      BY <1>1, <3>1
  <2>3. QED
    BY <2>1, <2>2
<1> HIDE DEF n, new, h, limit, audio
<1>6. PICK s \in 1 .. (n + 1) + 1 : /\ BehindSince(new, s)
                                    /\ h.debt <= Late(new, s, n + 1)
                                    /\ h.observed <= Audio(new, s, n + 1)
  BY <1>2, <1>4 DEF Owed
<1>7. s \in 1 .. n + 1
  BY <1>1, <1>3, <1>5, <1>6
<1>8. /\ Late(new, s, n + 1) >= limit /\ Audio(new, s, n + 1) >= audio
      /\ Late(new, n + 1, n + 1) > 0
  BY <1>1, <1>2, <1>3, <1>5, <1>6, <1>7
<1>9. IsOverload(new, limit, audio)
  BY <1>2, <1>6, <1>7, <1>8 DEF IsOverload
<1>10. QED
  BY <1>9 DEF Overload, limit, audio, new

-----------------------------------------------------------------------------
(***************************************************************************)
(* The steps of the guard.                                                 *)
(***************************************************************************)
\* What a step does to the guard and to the callbacks it stands for.
Keeps == /\ guard' = guard /\ measured' = measured
         /\ reason' = reason \/ reason' = "RepeatedProcessingFailures"

StartsAnew == /\ guard'.debt = 0 /\ guard'.observed = 0 /\ measured' = <<>>
              /\ reason' = reason \/ reason' # "RealtimeOverload"

\* The guard and the callbacks of this epoch or, after a format change, of a
\* new one.
Same(g, calls) ==
    \/ g = guard /\ calls = measured
    \/ g.debt = 0 /\ g.observed = 0 /\ calls = <<>>

\* A callback that is measured in either.
Measures ==
    \E g \in GuardType, calls \in Seq(MeasuredType), ns \in Costs, hops \in Hops,
       event \in BOOLEAN :
         /\ reason = "None" /\ Same(g, calls) /\ g.probe = guard.probe
         /\ Len(calls) < MaxCalls /\ Measure(g, calls, ns, hops, event)

\* A guard that is reset has nothing on its books.
LEMMA ResetDebts ==
    ASSUME NEW g \in GuardType
    PROVE  /\ ResetGuard(g).debt = 0 /\ ResetGuard(g).observed = 0
           /\ [ResetGuard(g) EXCEPT !.probe = TRUE].debt = 0
           /\ [ResetGuard(g) EXCEPT !.probe = TRUE].observed = 0
BY SMT DEF ResetGuard, GuardType

\* Every step keeps the guard, starts it anew or measures a callback.
LEMMA GuardMoves ==
    ASSUME CallbackInv, [Next]_vars
    PROVE  Keeps \/ StartsAnew \/ Measures
<1>1. guard \in GuardType /\ measured \in Seq(MeasuredType) /\ GuardInv
  BY DEF CallbackInv, GuardInv
<1>2. ASSUME NEW r \in Rates
      PROVE  Same(EpochAt(r), CallsAt(r))
  BY <1>1, ResetDebts DEF EpochAt, CallsAt, Same
<1>3. CASE MeasuredCallback
  <2>1. PICK r \in Rates, stamp \in Stamps, frames \in Frames, ns \in Costs,
             hops \in Hops, event \in BOOLEAN :
          /\ reason = "None" /\ Len(CallsAt(r)) < MaxCalls
          /\ Measure(EpochAt(r), CallsAt(r), ns, hops, event)
    BY <1>3 DEF MeasuredCallback
  <2>2. EpochAt(r) \in GuardType /\ EpochAt(r).probe = guard.probe
        /\ CallsAt(r) \in Seq(MeasuredType)
    BY <1>1, <2>1, EpochType
  <2>3. Measures
    BY <1>2, <2>1, <2>2, Zenon DEF Measures
  <2>4. QED
    BY <2>3
<1>4. CASE UnmeasuredCallback
  <2>1. PICK r \in Rates :
          /\ guard' = EpochAt(r) /\ measured' = CallsAt(r)
          /\ reason' = reason \/ reason' = "RepeatedProcessingFailures"
    BY <1>4 DEF UnmeasuredCallback
  <2>2. Same(guard', measured')
    BY <1>2, <2>1
  <2>3. QED
    BY <2>1, <2>2 DEF Same, Keeps, StartsAnew
<1>5. CASE Retry \/ StartOver
  <2>1. guard'.debt = 0 /\ guard'.observed = 0
    <3>1. CASE Retry
      BY <1>1, <3>1, ResetDebts DEF Retry
    <3>2. CASE StartOver
      BY <3>2 DEF StartOver, NewGuard
    <3>3. QED
      BY <1>5, <3>1, <3>2
  <2>2. measured' = <<>> /\ reason' = "None"
    BY <1>5 DEF Retry, StartOver
  <2>3. QED
    BY <2>1, <2>2 DEF StartsAnew
<1>6. CASE NewPair \/ StreamBoundary
  <2>1. guard' = ResetGuard(guard) /\ measured' = <<>> /\ reason' = reason
    BY <1>6 DEF NewPair, StreamBoundary
  <2>2. QED
    BY <1>1, <2>1, ResetDebts DEF StartsAnew
<1>7. CASE vars' = vars
  BY <1>7 DEF vars, history, Keeps
<1>8. QED
  BY <1>3, <1>4, <1>5, <1>6, <1>7 DEF Next

\* What a measured callback does to them.
LEMMA MeasuredGuard ==
    ASSUME NEW g \in GuardType, NEW calls \in Seq(MeasuredType), NEW ns \in Costs,
           NEW hops \in Hops, NEW event \in BOOLEAN, reason = "None",
           Measure(g, calls, ns, hops, event)
    PROVE  LET budget == AudioBudget(hops, HopSize, ModelRate)
           IN  /\ ns \in Ns /\ budget \in Ns
               /\ guard'.debt = Observed(g, ns, budget).debt
               /\ guard'.observed = Observed(g, ns, budget).observed
               /\ guard'.probe => g.probe
               /\ budget = 0 => /\ Observed(g, ns, budget) = g
                                /\ measured' = calls
               /\ budget # 0 => measured' = WithCall(calls, ns, budget)
               /\ IF Trips(g, ns, budget) THEN reason' = "RealtimeOverload"
                  ELSE reason' = "None"
<1> DEFINE budget == AudioBudget(hops, HopSize, ModelRate)
           seen   == Observed(g, ns, budget)
<1>1. ns \in Ns /\ budget \in Ns
  BY CallbackAssumption, BudgetType
<1>2. seen \in GuardType /\ seen.probe = g.probe
  <2>1. seen \in GuardType
    BY <1>1, ObservedType
  <2>2. seen.probe = g.probe
    BY SMT DEF Observed, GuardType
  <2>3. QED
    BY <2>1, <2>2
<1>3. \E p : guard' = [seen EXCEPT !.probe = @ /\ p]
  BY Zenon DEF Measure
<1>4. budget = 0 => seen = g
  BY DEF Observed
<1>5. /\ budget = 0 => measured' = calls
      /\ budget # 0 => measured' = WithCall(calls, ns, budget)
      /\ IF Trips(g, ns, budget) THEN reason' = "RealtimeOverload"
         ELSE reason' = "None"
  BY Zenon DEF Measure, Pauses, Counts
<1> HIDE DEF seen
<1>6. PICK p : guard' = [seen EXCEPT !.probe = @ /\ p]
  BY <1>3
<1>7. /\ guard'.debt = seen.debt /\ guard'.observed = seen.observed
      /\ guard'.probe => seen.probe
  BY <1>2, <1>6, Zenon DEF GuardType
<1>8. QED
  BY <1>1, <1>2, <1>4, <1>5, <1>7, Zenon DEF seen

\* Nothing is on the books of a new guard.
LEMMA NothingOwed ==
    ASSUME NEW g, g.debt = 0, g.observed = 0
    PROVE  Owed(g, <<>>)
<1> DEFINE none == <<>>
<1>1. Len(none) = 0
  OBVIOUS
<1> HIDE DEF none
<1>2. 1 - 1 = 0 /\ 1 .. 0 = {} /\ 1 \in 1 .. 0 + 1
  OBVIOUS
<1>3. Late(none, 1, 0) = 0 /\ Audio(none, 1, 0) = 0
  BY <1>2 DEF Late, Audio, Total
<1>4. BehindSince(none, 1)
  BY <1>1, <1>2 DEF BehindSince
<1>5. Owed(g, none)
  BY <1>1, <1>2, <1>3, <1>4 DEF Owed
<1>6. QED
  BY <1>5 DEF none

\* No step puts more on the guard's books than is owed, and a step that
\* pauses processing does so on an overload.
LEMMA OwedAfter ==
    ASSUME CallbackInv, Owed(guard, measured), [Next]_vars
    PROVE  /\ Owed(guard', measured')
           /\ reason = "None" /\ reason' = "RealtimeOverload"
                => Overload(measured', guard.probe)
<1>1. CASE Keeps
  BY <1>1 DEF Keeps
<1>2. CASE StartsAnew
  BY <1>2, NothingOwed DEF StartsAnew
<1>3. CASE Measures
  <2>1. PICK g \in GuardType, calls \in Seq(MeasuredType), ns \in Costs,
             hops \in Hops, event \in BOOLEAN :
          /\ reason = "None" /\ Same(g, calls) /\ g.probe = guard.probe
          /\ Len(calls) < MaxCalls /\ Measure(g, calls, ns, hops, event)
    BY <1>3 DEF Measures
  <2> DEFINE budget == AudioBudget(hops, HopSize, ModelRate)
             seen   == Observed(g, ns, budget)
  <2>2. /\ ns \in Ns /\ budget \in Ns
        /\ guard'.debt = seen.debt /\ guard'.observed = seen.observed
        /\ budget = 0 => seen = g /\ measured' = calls
        /\ budget # 0 => measured' = WithCall(calls, ns, budget)
        /\ reason' = "RealtimeOverload" => Trips(g, ns, budget)
    BY <2>1, MeasuredGuard
  <2>3. Owed(g, calls)
    BY <2>1, NothingOwed DEF Same
  <2> HIDE DEF budget
  <2>4. budget # 0 <=> budget > 0
    BY <2>2 DEF Ns
  <2>5. Owed(seen, measured')
    <3>1. CASE budget = 0
      BY <2>2, <2>3, <3>1
    <3>2. CASE budget # 0
      BY <2>2, <2>3, <2>4, <3>2, OwedStep
    <3>3. QED
      BY <3>1, <3>2
  <2>6. Owed(guard', measured')
    BY <2>2, <2>5, Zenon DEF Owed
  <2>7. ASSUME reason' = "RealtimeOverload"
        PROVE  Overload(measured', guard.probe)
    <3>1. Trips(g, ns, budget) /\ budget # 0
      BY <2>2, <2>4, <2>7, Zenon DEF Trips
    <3>2. QED
      BY <2>1, <2>2, <2>3, <3>1, TripsOnOverload
  <2>8. QED
    BY <2>6, <2>7
<1>4. QED
  BY <1>1, <1>2, <1>3, GuardMoves

\* Processing is paused only after callbacks that were behind throughout, by
\* the documented limit and over the documented audio, the last one late
\* (observe, realtime-guard.hpp): neither saturating sums nor resets between
\* epochs ever pause it for less.
THEOREM PausesAreEarned == Spec => PauseEarned
<1>1. Init => Owed(guard, measured)
  BY NothingOwed DEF Init, NewGuard
<1>2. CallbackInv /\ Owed(guard, measured) /\ [Next]_vars
        => Owed(guard, measured)'
  BY OwedAfter
<1>3. CallbackInv /\ Owed(guard, measured) /\ [Next]_vars
        => [reason = "None" /\ reason' = "RealtimeOverload"
              => Overload(measured', guard.probe)]_vars
  BY OwedAfter
<1>4. QED
  BY <1>1, <1>2, <1>3, CallbackInvariant, PTL DEF Spec, PauseEarned

-----------------------------------------------------------------------------
(***************************************************************************)
(* What the guard counts: overloads are noticed.                           *)
(***************************************************************************)
\* The sums of all callbacks that are measured fit in uint64_t, so the guard's
\* saturating ones are exact: MaxCalls callbacks take less than 584 years.
SumsFit(most) ==
    /\ MaxCalls * most <= MaxNs
    /\ \A ns \in Costs : ns <= most
    /\ \A hops \in Hops : AudioBudget(hops, HopSize, ModelRate) <= most

\* The guard has on its books all that is owed since any callback.
Counted(g, calls, most) ==
    LET n == Len(calls)
    IN  /\ g.debt <= n * most /\ g.observed <= n * most
        /\ \A i \in 1 .. n + 1 : Late(calls, i, n) <= g.debt
        /\ \A i \in 1 .. n : BehindSince(calls, i)
                               => Audio(calls, i, n) <= g.observed

\* The bound for one callback more.
LEMMA OneMore ==
    ASSUME NEW n \in Nat, NEW c \in Nat, NEW m \in Nat, n < c
    PROVE  n * m \in Nat /\ (n + 1) * m = n * m + m /\ (n + 1) * m <= c * m
<1>1. n * m \in Nat /\ (n + 1) * m = n * m + m /\ (c - n - 1) * m \in Nat
  BY SMT
<1>2. c * m = (n + 1) * m + (c - n - 1) * m
  BY SMT
<1>3. (n + 1) * m \in Nat
  BY <1>1
<1>4. QED
  BY <1>1, <1>2, <1>3

\* A new guard has counted all of no callbacks.
LEMMA NothingCounted ==
    ASSUME NEW g, g.debt = 0, g.observed = 0, NEW most \in Nat
    PROVE  Counted(g, <<>>, most)
<1> DEFINE none == <<>>
<1>1. Len(none) = 0
  OBVIOUS
<1> HIDE DEF none
<1>2. 1 - 1 = 0 /\ 1 .. 0 = {} /\ 1 .. 0 + 1 = {1} /\ 0 * most = 0
  OBVIOUS
<1>3. Late(none, 1, 0) = 0
  BY <1>2 DEF Late, Total
<1>4. Counted(g, none, most)
  BY <1>1, <1>2, <1>3 DEF Counted
<1>5. QED
  BY <1>4 DEF none

\* A callback the guard observes is counted in full.
LEMMA CountedStep ==
    ASSUME NEW g \in GuardType, NEW calls \in Seq(MeasuredType),
           NEW most \in Nat, MaxCalls * most <= MaxNs, Counted(g, calls, most),
           Len(calls) < MaxCalls, NEW ns \in Ns, ns <= most,
           NEW budget \in Ns, budget <= most, budget > 0
    PROVE  Counted(Observed(g, ns, budget), WithCall(calls, ns, budget), most)
<1> DEFINE n   == Len(calls)
           new == WithCall(calls, ns, budget)
           h   == Observed(g, ns, budget)
<1>1. /\ budget \in Nat /\ ns \in Nat /\ n \in Nat /\ MaxNs \in Nat
      /\ g.debt \in Nat /\ g.observed \in Nat /\ MaxCalls \in Nat
  BY LenProperties, GuardAssumption, CallbackAssumption DEF Ns, GuardType
<1>2. Len(new) = n + 1
  BY <1>1, WithCallTotals
<1>3. h.debt \in Nat /\ h.observed \in Nat
  <2>1. h \in GuardType
    BY ObservedType
  <2>2. QED
    BY <2>1 DEF GuardType, Ns
<1>4. /\ g.debt <= n * most /\ g.observed <= n * most
      /\ \A i \in 1 .. n + 1 : Late(calls, i, n) <= g.debt
      /\ \A i \in 1 .. n : BehindSince(calls, i)
                             => Audio(calls, i, n) <= g.observed
  BY DEF Counted
<1>5. /\ h.debt = 0 => h.observed = 0
      /\ h.debt > 0 => h.debt <= g.debt + ns - budget
      /\ h.observed <= g.observed + budget
      /\ g.debt + ns - budget <= MaxNs => g.debt + ns - budget <= h.debt
      /\ h.debt > 0 /\ g.observed + budget <= MaxNs
           => h.observed = g.observed + budget
  BY ObservedFacts
<1>6. \A i \in 1 .. n + 1 :
        /\ Late(new, i, n + 1) = Late(calls, i, n) + ns - budget
        /\ Audio(new, i, n + 1) = Audio(calls, i, n) + budget
        /\ \A j \in i .. n : Late(new, i, j) = Late(calls, i, j)
        /\ Late(calls, i, n) \in Int /\ Audio(calls, i, n) \in Int
  BY <1>1, LongerCalls, ZenonT(60)
<1>7. /\ Late(new, n + 2, n + 1) = 0
      /\ Audio(new, n + 1, n + 1) = budget
  BY <1>1, LongerCalls, ZenonT(60)
<1> DEFINE k == n * most
           c == MaxCalls * most
<1>8. k \in Nat /\ (n + 1) * most = k + most /\ k + most <= MaxNs
  <2>1. k \in Nat /\ (n + 1) * most = k + most /\ k + most <= c
    BY <1>1, OneMore
  <2> HIDE DEF k
  <2>2. c \in Nat
    BY <1>1, ProductType
  <2> HIDE DEF c
  <2>3. c <= MaxNs
    BY DEF c
  <2>4. QED
    BY <1>1, <2>1, <2>2, <2>3
<1> HIDE DEF n, new, h, k
<1>9. /\ g.debt <= k /\ g.observed <= k
  BY <1>4 DEF k
<1>10. /\ g.debt + ns - budget <= h.debt
       /\ h.debt > 0 => h.observed = g.observed + budget
  BY <1>1, <1>5, <1>8, <1>9
<1>11. h.debt <= (n + 1) * most /\ h.observed <= (n + 1) * most
  BY <1>1, <1>3, <1>5, <1>8, <1>9
<1>12. ASSUME NEW i \in 1 .. (n + 1) + 1
       PROVE  Late(new, i, n + 1) <= h.debt
  <2>1. CASE i = n + 2
    BY <1>3, <1>7, <2>1
  <2>2. CASE i # n + 2
    <3>1. i \in 1 .. n + 1
      BY <1>1, <2>2
    <3>2. Late(calls, i, n) <= g.debt /\ Late(calls, i, n) \in Int
          /\ Late(new, i, n + 1) = Late(calls, i, n) + ns - budget
      BY <1>4, <1>6, <3>1
    <3>3. QED
      BY <1>1, <1>3, <1>10, <3>2
  <2>3. QED
    BY <2>1, <2>2
<1>13. ASSUME NEW i \in 1 .. n + 1, BehindSince(new, i)
       PROVE  Audio(new, i, n + 1) <= h.observed
  <2>1. Late(new, i, n + 1) > 0 /\ Late(new, i, n + 1) \in Int
    <3>1. n + 1 \in i .. n + 1
      BY <1>1
    <3>2. Late(new, i, n + 1) \in Int
      BY <1>1, <1>6
    <3>3. QED
      BY <1>2, <1>13, <3>1, <3>2 DEF BehindSince
  <2>2. h.debt > 0
    <3>1. i \in 1 .. (n + 1) + 1
      BY <1>1
    <3>2. Late(new, i, n + 1) <= h.debt
      BY <1>12, <3>1
    <3>3. QED
      BY <1>3, <2>1, <3>2
  <2>3. h.observed = g.observed + budget
    BY <1>10, <2>2
  <2>4. CASE i = n + 1
    BY <1>1, <1>7, <2>3, <2>4
  <2>5. CASE i # n + 1
    <3>1. i \in 1 .. n
      BY <1>1, <2>5
    <3>2. \A j \in i .. n : j \in i .. n + 1
      BY <1>1, <3>1
    <3>3. BehindSince(calls, i)
      BY <1>2, <1>6, <1>13, <3>2 DEF BehindSince, n
    <3>4. /\ Audio(calls, i, n) <= g.observed /\ Audio(calls, i, n) \in Int
          /\ Audio(new, i, n + 1) = Audio(calls, i, n) + budget
      BY <1>4, <1>6, <3>1, <3>3
    <3>5. QED
      BY <1>1, <2>3, <3>4
  <2>6. QED
    BY <2>4, <2>5
<1>14. QED
  BY <1>2, <1>11, <1>12, <1>13 DEF Counted, h, new

\* The limits of a guard that probes or does not.
MaxDebtOf(probe)     == IF probe THEN ProbeMaxDebt ELSE MaxDebt
MinObservedOf(probe) == IF probe THEN ProbeMinObserved ELSE MinObserved

\* While processing is on, the last callback has not tripped the guard.
Calm ==
    LET n == Len(measured)
    IN  reason = "None" /\ n > 0 /\ Late(measured, n, n) > 0
          => \/ guard.debt < MaxDebtOf(guard.probe)
             \/ guard.observed < MinObservedOf(guard.probe)

\* The limits of a probe are the stricter ones.
LEMMA Limits ==
    ASSUME NEW g \in GuardType, NEW h \in GuardType, h.probe => g.probe,
           h.debt = g.debt, h.observed = g.observed,
           \/ g.debt < MaxDebtOf(g.probe)
           \/ g.observed < MinObservedOf(g.probe)
    PROVE  \/ h.debt < MaxDebtOf(h.probe)
           \/ h.observed < MinObservedOf(h.probe)
<1>1. g.debt \in Nat /\ g.observed \in Nat
  BY DEF GuardType, Ns
<1>2. g.probe \in BOOLEAN /\ h.probe \in BOOLEAN
  BY DEF GuardType
<1>3. /\ {ProbeMaxDebt, MaxDebt, ProbeMinObserved, MinObserved} \subseteq Nat
      /\ ProbeMaxDebt <= MaxDebt /\ ProbeMinObserved <= MinObserved
  BY GuardAssumption
<1>4. QED
  BY <1>1, <1>2, <1>3 DEF MaxDebtOf, MinObservedOf

\* Every step counts in full, and stays on only when the guard has not
\* tripped.
LEMMA CalmAfter ==
    ASSUME CallbackInv, Calm, NEW most \in Nat, SumsFit(most),
           Counted(guard, measured, most), [Next]_vars
    PROVE  Counted(guard', measured', most) /\ Calm'
<1>1. CallbackInv'
  BY CallbackStep
<1>2. CASE Keeps
  BY <1>2 DEF Keeps, Calm
<1>3. CASE StartsAnew
  <2>1. Len(measured') = 0
    BY <1>3 DEF StartsAnew
  <2>2. QED
    BY <1>3, <2>1, NothingCounted DEF StartsAnew, Calm
<1>4. CASE Measures
  <2>1. PICK g \in GuardType, calls \in Seq(MeasuredType), ns \in Costs,
             hops \in Hops, event \in BOOLEAN :
          /\ reason = "None" /\ Same(g, calls) /\ g.probe = guard.probe
          /\ Len(calls) < MaxCalls /\ Measure(g, calls, ns, hops, event)
    BY <1>4 DEF Measures
  <2> DEFINE budget == AudioBudget(hops, HopSize, ModelRate)
             seen   == Observed(g, ns, budget)
  <2>2. /\ ns \in Ns /\ budget \in Ns
        /\ guard'.debt = seen.debt /\ guard'.observed = seen.observed
        /\ guard'.probe => g.probe
        /\ budget = 0 => seen = g /\ measured' = calls
        /\ budget # 0 => measured' = WithCall(calls, ns, budget)
        /\ reason' = "None" => ~Trips(g, ns, budget)
    BY <2>1, MeasuredGuard
  <2>3. Counted(g, calls, most)
    BY <2>1, NothingCounted DEF Same
  <2>4. ns <= most /\ budget <= most /\ MaxCalls * most <= MaxNs
    BY <2>1 DEF SumsFit
  <2>5. seen \in GuardType /\ seen.probe = g.probe
    <3>1. seen \in GuardType
      BY <2>2, ObservedType
    <3>2. seen.probe = g.probe
      BY SMT DEF Observed, GuardType
    <3>3. QED
      BY <3>1, <3>2
  <2>6. guard' \in GuardType
    BY <1>1 DEF CallbackInv, GuardInv
  <2> DEFINE mild(x) == \/ x.debt < MaxDebtOf(x.probe)
                        \/ x.observed < MinObservedOf(x.probe)
  <2>7. mild(seen) => mild(guard')
    BY <2>2, <2>5, <2>6, Limits
  <2>8. CASE budget = 0
    <3>1. Counted(guard', measured', most)
      BY <2>2, <2>3, <2>8, Zenon DEF Counted
    <3>2. ASSUME reason' = "None", Len(measured') > 0,
                 Late(measured', Len(measured'), Len(measured')) > 0
          PROVE  mild(guard')
      <4>1. seen = g /\ measured' = calls
        BY <2>2, <2>8
      <4>2. calls # <<>>
        BY <3>2, <4>1
      <4>3. g = guard /\ calls = measured
        BY <2>1, <4>2 DEF Same
      <4>4. mild(g)
        BY <2>1, <3>2, <4>1, <4>3 DEF Calm
      <4>5. QED
        BY <2>7, <4>1, <4>4, Zenon
    <3>3. QED
      BY <3>1, <3>2 DEF Calm
  <2>9. CASE budget # 0
    <3>1. budget > 0 /\ budget \in Nat /\ ns \in Nat
      BY <2>2, <2>9 DEF Ns
    <3>2. Counted(seen, measured', most)
      BY <2>1, <2>2, <2>3, <2>4, <2>9, <3>1, CountedStep
    <3>3. Counted(guard', measured', most)
      BY <2>2, <3>2, Zenon DEF Counted
    <3>4. ASSUME reason' = "None",
                 Late(measured', Len(measured'), Len(measured')) > 0
          PROVE  mild(guard')
      <4>1. /\ Len(measured') = Len(calls) + 1
            /\ Late(measured', Len(calls) + 1, Len(calls) + 1) = ns - budget
        <5> HIDE DEF budget
        <5>1. /\ Len(WithCall(calls, ns, budget)) = Len(calls) + 1
              /\ Late(WithCall(calls, ns, budget), Len(calls) + 1,
                      Len(calls) + 1) = ns - budget
          BY <3>1, WithCallTotals, LongerCalls, Zenon
        <5>2. QED
          BY <2>2, <2>9, <5>1, Zenon
      <4>2. ns > budget
        BY <3>1, <3>4, <4>1
      <4>3. ~Trips(g, ns, budget)
        BY <2>2, <3>4
      <4>4. seen.debt \in Nat /\ seen.observed \in Nat
        BY <2>5 DEF GuardType, Ns
      <4> HIDE DEF budget
      <4>5. ~(/\ seen.debt >= MaxDebtOf(g.probe)
              /\ seen.observed >= MinObservedOf(g.probe))
        BY <3>1, <4>2, <4>3, Zenon
           DEF Trips, MaxDebtOf, MinObservedOf, seen
      <4>6. MaxDebtOf(g.probe) \in Nat /\ MinObservedOf(g.probe) \in Nat
        BY GuardAssumption DEF MaxDebtOf, MinObservedOf
      <4> HIDE DEF seen
      <4>7. mild(seen)
        BY <2>5, <4>4, <4>5, <4>6
      <4>8. QED
        BY <2>7, <4>7, Zenon
    <3>5. QED
      BY <3>3, <3>4 DEF Calm
  <2>10. QED
    BY <2>8, <2>9
<1>5. QED
  BY <1>2, <1>3, <1>4, GuardMoves

\* A guard that has counted all and has not tripped has missed no overload.
LEMMA CalmIsUnnoticed ==
    ASSUME CallbackInv, Calm, NEW most \in Nat, Counted(guard, measured, most)
    PROVE  OverloadNoticed
<1> SUFFICES ASSUME reason = "None", Overload(measured, guard.probe)
             PROVE  FALSE
  BY DEF OverloadNoticed
<1> DEFINE n == Len(measured)
<1>1. /\ measured \in Seq(MeasuredType) /\ guard \in GuardType /\ n \in Nat
  BY LenProperties DEF CallbackInv, GuardInv
<1>2. IsOverload(measured, MaxDebtOf(guard.probe), MinObservedOf(guard.probe))
  BY DEF Overload, MaxDebtOf, MinObservedOf
<1>3. PICK i \in 1 .. n : /\ Late(measured, n, n) > 0
                          /\ BehindSince(measured, i)
                          /\ Late(measured, i, n) >= MaxDebtOf(guard.probe)
                          /\ Audio(measured, i, n)
                               >= MinObservedOf(guard.probe)
  BY <1>2 DEF IsOverload
<1>4. Late(measured, i, n) <= guard.debt /\ Audio(measured, i, n) <= guard.observed
  <2>1. i \in 1 .. n + 1
    BY <1>1
  <2>2. QED
    BY <1>3, <2>1 DEF Counted
<1>5. Late(measured, i, n) \in Int /\ Audio(measured, i, n) \in Int
  <2>1. i - 1 \in 0 .. n /\ n \in 0 .. n
    BY <1>1
  <2>2. /\ Total(measured, i - 1).late \in Int /\ Total(measured, n).late \in Int
        /\ Total(measured, i - 1).audio \in Nat
        /\ Total(measured, n).audio \in Nat
    BY <1>1, <2>1, TotalType
  <2>3. QED
    BY <2>2 DEF Late, Audio
<1>6. /\ MaxDebtOf(guard.probe) \in Nat /\ MinObservedOf(guard.probe) \in Nat
      /\ guard.debt \in Nat /\ guard.observed \in Nat
  BY <1>1, GuardAssumption DEF MaxDebtOf, MinObservedOf, GuardType, Ns
<1>7. n > 0
  BY <1>1
<1>8. \/ guard.debt < MaxDebtOf(guard.probe)
      \/ guard.observed < MinObservedOf(guard.probe)
  BY <1>3, <1>7 DEF Calm
<1> HIDE DEF n
<1>9. QED
  BY <1>3, <1>4, <1>5, <1>6, <1>8

\* While processing is on, the callbacks since the guard was reset are no
\* overload, as long as their times add up to less than the 584 years of
\* uint64_t nanoseconds (with sums that end there the debt forgets what is
\* beyond).
THEOREM OverloadsAreNoticed ==
    ASSUME NEW most \in Nat, SumsFit(most)
    PROVE  Spec => []OverloadNoticed
<1> DEFINE Inv == CallbackInv /\ Calm /\ Counted(guard, measured, most)
<1>1. Init => Calm /\ Counted(guard, measured, most)
  BY NothingCounted DEF Init, NewGuard, Calm
<1>2. Inv /\ [Next]_vars => Calm' /\ Counted(guard, measured, most)'
  BY CalmAfter
<1>3. Inv => OverloadNoticed
  BY CalmIsUnnoticed
<1>4. QED
  BY <1>1, <1>2, <1>3, CallbackInvariant, PTL DEF Spec
=============================================================================
