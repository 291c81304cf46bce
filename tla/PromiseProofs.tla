---------------------------- MODULE PromiseProofs ----------------------------
(***************************************************************************)
(* Processor implements ProcessorPromise, for every configuration: what    *)
(* the filter reasons with is what process() and the other methods do.     *)
(***************************************************************************)
EXTENDS ProcessorKeepsPromise, StreamProofs

\* The state of the promise that a state of Processor stands for.
MappedView   == IF Idle THEN ViewNow ELSE known.view
MappedAnswer == IF Idle THEN AnswerNow ELSE known.answer

\* A view, field by field.
View(rate, channels, isLoaded, valid, pair, used, isFed, reason, failing) ==
    [format |-> <<rate, channels>>,
     model  |-> IF isLoaded THEN AnyModel ELSE "none",
     valid  |-> valid, pair |-> AsPair(pair), used |-> used, fed |-> isFed,
     reason |-> reason, failing |-> failing]

\* The view of a processor of which a call has not changed more than what it
\* has in its lanes and how many failures it counts.
ViewWith(used, failing) ==
    View(resampler.rate, layout, loaded, resampler.valid, resampler.pair,
         used, fed, gate.reason, failing)

\* Between two calls the view says what the state says.
LEMMA ViewIs == ViewNow = ViewWith(lanes.taken > 0, gate.failures > 0)
BY DEF ViewNow, ViewWith, View

-----------------------------------------------------------------------------
(***************************************************************************)
(* What a call leaves that the view or the answer shows.                   *)
(***************************************************************************)
LEMMA ReturnedAnswer ==
    ASSUME NEW g \in GateType, NEW disposition, NEW event, NEW refresh,
           NEW hops, NEW frames, NEW start,
           Return(g, disposition, event, refresh, hops, frames, start)
    PROVE  /\ gate'.reason = g.reason /\ gate'.failures = g.failures
           /\ gate'.recovering = g.recovering
           /\ result'.disposition = disposition /\ result'.hops = hops
           /\ result'.refresh = refresh
           /\ call' = NoCall /\ Idle'
<1> DEFINE pending == g.jumpPending /\ ~JumpReport(g, event)
<1>1. gate' = [g EXCEPT !.jumpPending = pending]
  BY DEF Return
<1> HIDE DEF pending
<1>2. /\ gate'.reason = g.reason /\ gate'.failures = g.failures
      /\ gate'.recovering = g.recovering
  BY <1>1, SMT DEF GateType
<1>3. /\ result'.disposition = disposition /\ result'.hops = hops
      /\ result'.refresh = refresh
  BY Zenon DEF Return
<1>4. call' = NoCall
  BY DEF Return
<1>5. QED
  BY <1>2, <1>3, <1>4, NoCallIdle DEF Idle

\* A packet passed through is no packet the filter measures.
LEMMA PassedUnmeasured ==
    ASSUME result'.disposition = "Passthrough" PROVE ~Measured(result')
<1>1. "Passthrough" # "Pending" /\ "Passthrough" # "Processed"
  BY SMT
<1>2. QED
  BY <1>1, Zenon DEF Measured

\* A reset keeps the format and the pair, and leaves no audio in the lanes.
LEMMA ResetFields ==
    ASSUME NEW r \in ResamplerType, NEW reason, NEW isLoaded \in BOOLEAN,
           ResetAudio(r, reason, isLoaded)
    PROVE  /\ resampler'.rate = r.rate /\ resampler'.valid = r.valid
           /\ resampler'.pair = r.pair /\ lanes'.taken = 0
<1> DEFINE path == PathOf(r, isLoaded)
<1>1. resampler' = [r EXCEPT !.path = path]
  BY DEF ResetAudio, Recomputed
<1>2. lanes'.taken = 0
  BY DEF ResetAudio, EmptyLanes
<1> HIDE DEF path
<1>3. QED
  BY <1>1, <1>2, SMT DEF ResamplerType

\* Giving up the pair changes no more than that it is valid.
LEMMA InvalidatedFields ==
    ASSUME resampler \in ResamplerType, NEW stale \in BOOLEAN
    PROVE  /\ Invalidated(stale) \in ResamplerType
           /\ Invalidated(stale).valid = (resampler.valid /\ ~stale)
           /\ Invalidated(stale).rate = resampler.rate
           /\ Invalidated(stale).pair = resampler.pair
<1> DEFINE valid == resampler.valid /\ ~stale
<1>1. Invalidated(stale) = [resampler EXCEPT !.valid = valid]
  BY DEF Invalidated
<1>2. valid \in BOOLEAN
  OBVIOUS
<1>3. Invalidated(stale) \in ResamplerType
  BY InvalidatedType
<1> HIDE DEF valid
<1>4. /\ Invalidated(stale).valid = valid
      /\ Invalidated(stale).rate = resampler.rate
      /\ Invalidated(stale).pair = resampler.pair
  BY <1>1, SMT DEF ResamplerType
<1>5. QED
  BY <1>3, <1>4 DEF valid

\* A reset that gives up the pair, if it is in use.
GivesUp(fresh) ==
    /\ resampler'.rate = resampler.rate /\ resampler'.pair = resampler.pair
    /\ resampler'.valid = (resampler.valid /\ ~fresh)
    /\ lanes'.taken = 0

\* A reset after a setback gives up the pair.
LEMMA GivingUp ==
    ASSUME TypeOK, NEW stale \in BOOLEAN, NEW reason,
           ResetAudio(Invalidated(stale), reason, loaded)
    PROVE  GivesUp(stale)
<1>1. resampler \in ResamplerType /\ loaded \in BOOLEAN
  BY DEF TypeOK
<1>2. QED
  BY <1>1, InvalidatedFields, ResetFields DEF GivesUp

\* What failure_result leaves and returns.
LEMMA FailureLeaves ==
    ASSUME TypeOK, CallInv, ~Stopped, NEW hops, FailureResult(hops)
    PROVE  LET opened == gate.failures + 1 >= MaxFailures
           IN  /\ GivesUp(resampler.path)
               /\ gate'.failures = gate.failures + 1
               /\ gate'.reason = IF opened THEN "RepeatedProcessingFailures"
                                 ELSE gate.reason
               /\ result'.refresh = (resampler.path /\ ~opened)
               /\ UNCHANGED loaded /\ Idle' /\ ~Measured(result')
               /\ result'.disposition = "Passthrough"
<1> DEFINE failures == gate.failures + 1
           opened   == failures >= MaxFailures
           reason   == IF opened THEN "RepeatedProcessingFailures"
                       ELSE gate.reason
           fresh    == resampler.path
           event    == IF opened THEN "CircuitOpened"
                       ELSE IF gate.reported THEN "None"
                       ELSE "ProcessingFailure"
           refresh  == fresh /\ ~opened
           g        == [gate EXCEPT !.failures = failures, !.reported = TRUE,
                                    !.reason = reason]
<1>1. /\ Return(g, "Passthrough", event, refresh, hops, 0, 0)
      /\ ResetAudio(Invalidated(fresh), reason, loaded)
      /\ loaded' = loaded
  BY DEF FailureResult, PassThrough
<1>2. /\ gate \in GateType /\ gate.failures \in 0 .. MaxFailures
      /\ gate.failures # MaxFailures
  BY SMT DEF TypeOK, GateType, CallInv, Stopped
<1>3. failures \in 0 .. MaxFailures /\ reason \in Reasons
  BY <1>2, SMT DEF MaxFailures, GateType, Reasons
<1>4. fresh \in BOOLEAN
  BY Zenon DEF TypeOK, ResamplerType
<1>5. GivesUp(fresh)
  BY <1>1, <1>4, GivingUp
<1> HIDE DEF failures, reason, event, opened, refresh
<1>6. g \in GateType /\ g.failures = failures /\ g.reason = reason
  <2> DEFINE f == [gate EXCEPT !.failures = failures]
             h == [f EXCEPT !.reported = TRUE]
  <2>1. f \in GateType
    BY <1>2, <1>3, GateSetters
  <2>2. h \in GateType
    <3> HIDE DEF f
    <3>1. QED
      BY <2>1, GateSetters
  <2>3. [h EXCEPT !.reason = reason] \in GateType
    <3> HIDE DEF h
    <3>1. QED
      BY <1>3, <2>2, GateSetters
  <2>4. g = [h EXCEPT !.reason = reason]
    OBVIOUS
  <2>5. g.failures = failures /\ g.reason = reason
    BY <1>2, SMT DEF GateType
  <2>6. QED
    BY <2>3, <2>4, <2>5
<1> HIDE DEF g
<1>7. /\ gate'.reason = reason /\ gate'.failures = failures
      /\ result'.refresh = refresh /\ result'.disposition = "Passthrough"
      /\ Idle'
  BY <1>1, <1>6, ReturnedAnswer
<1>8. QED
  BY <1>1, <1>5, <1>7, PassedUnmeasured DEF failures, reason, opened, refresh

\* What capacity_failure_result leaves and returns.
LEMMA CapacityLeaves ==
    ASSUME TypeOK, QuietInv, NEW oversized \in BOOLEAN,
           CapacityFailure(oversized)
    PROVE  /\ \/ gate.recovering /\ UNCHANGED <<lanes, resampler>>
                                 /\ ~result'.refresh
              \/ GivesUp(resampler.path) /\ result'.refresh = resampler.path
           /\ gate'.failures = gate.failures
           /\ gate'.reason = gate.reason
           /\ UNCHANGED loaded /\ Idle' /\ ~Measured(result')
           /\ result'.disposition = "Passthrough"
<1> DEFINE fresh == ~gate.recovering /\ resampler.path
           seen  == IF oversized THEN gate.oversized ELSE gate.capacity
           event == IF seen THEN "None"
                    ELSE IF oversized THEN "OversizedPacket"
                    ELSE "CapacityInvariantFailure"
           over  == gate.oversized \/ oversized
           cap   == gate.capacity \/ ~oversized
           warn  == gate.rateWarned \/ fresh
           g     == [gate EXCEPT !.recovering = TRUE, !.oversized = over,
                                 !.capacity = cap, !.rateWarned = warn]
<1>1. Return(g, "Passthrough", event, fresh, 0, 0, 0) /\ UNCHANGED loaded
  BY DEF CapacityFailure, PassThrough
<1>2. gate \in GateType /\ over \in BOOLEAN /\ cap \in BOOLEAN
      /\ warn \in BOOLEAN
  BY DEF TypeOK
<1>3. resampler.path \in BOOLEAN /\ gate.recovering \in BOOLEAN
  BY Zenon DEF TypeOK, ResamplerType, GateType
<1>4. \/ gate.recovering /\ UNCHANGED <<lanes, resampler>> /\ ~fresh
      \/ GivesUp(resampler.path) /\ fresh = resampler.path
  <2>1. CASE gate.recovering
    BY <2>1 DEF CapacityFailure, audio
  <2>2. CASE ~gate.recovering
    <3>1. ResetAudio(Invalidated(fresh), gate.reason, loaded)
      BY <2>2 DEF CapacityFailure
    <3>2. fresh = resampler.path
      BY <1>3, <2>2, Zenon
    <3>3. QED
      BY <1>3, <3>1, <3>2, GivingUp
  <2>3. QED
    BY <2>1, <2>2
<1> HIDE DEF fresh, event, over, cap, warn
<1>5. g \in GateType
  <2>1. [gate EXCEPT !.recovering = TRUE] \in GateType
    BY <1>2, GateSetters
  <2>2. [gate EXCEPT !.recovering = TRUE, !.oversized = over] \in GateType
    BY <1>2, <2>1, GateSetters
  <2>3. [gate EXCEPT !.recovering = TRUE, !.oversized = over,
                     !.capacity = cap] \in GateType
    BY <1>2, <2>2, GateSetters
  <2>4. QED
    BY <1>2, <2>3, GateSetters
<1>6. g.failures = gate.failures /\ g.reason = gate.reason
  BY <1>2, SMT DEF GateType
<1> HIDE DEF g
<1>7. /\ gate'.reason = gate.reason /\ gate'.failures = gate.failures
      /\ result'.refresh = fresh /\ result'.disposition = "Passthrough"
      /\ Idle'
  BY <1>1, <1>5, <1>6, ReturnedAnswer
<1>8. QED
  BY <1>1, <1>4, <1>7, PassedUnmeasured

-----------------------------------------------------------------------------
(***************************************************************************)
(* A call that comes back, as one step of the promise.                     *)
(***************************************************************************)
HistoryType == layout \in BOOLEAN /\ fed \in BOOLEAN

\* The view the call in progress began with, or the view between two calls.
Began(used, failing) ==
    /\ used \in BOOLEAN /\ failing \in BOOLEAN
    /\ MappedView = ViewWith(used, failing)

\* What the view says of the model and of the path.
LEMMA ViewPath ==
    ASSUME TypeOK, HistoryType, NEW used, NEW failing,
           NEW v, v = ViewWith(used, failing)
    PROVE  /\ v.reason = gate.reason /\ v.used = used /\ v.fed = fed
           /\ v.failing = failing /\ v.valid = resampler.valid
           /\ Promise!Loaded(v) <=> loaded
           /\ Promise!Resamples(v.format, v.model)
                <=> loaded /\ resampler.rate # ModelRate
           /\ Promise!Path(v) <=> PathOf(resampler, loaded)
<1> DEFINE rate  == resampler.rate
           valid == resampler.valid
           pair  == resampler.pair
           isLoaded == loaded
<1>1. /\ rate \in Rates /\ valid \in BOOLEAN
       /\ pair \in Rates \cup {NoRate} /\ isLoaded \in BOOLEAN
  BY Zenon DEF TypeOK, ResamplerType
<1>2. v = View(rate, layout, isLoaded, valid, pair, used, fed, gate.reason,
                failing)
  BY DEF ViewWith
<1>3. layout \in BOOLEAN
  BY DEF HistoryType
<1> HIDE DEF rate, valid, pair, isLoaded
<1>4. /\ v.format = <<rate, layout>> /\ v.valid = valid
      /\ v.model = (IF isLoaded THEN AnyModel ELSE "none")
      /\ v.pair = AsPair(pair) /\ v.used = used /\ v.fed = fed
      /\ v.reason = gate.reason /\ v.failing = failing
  <2> DEFINE format == <<rate, layout>>
             model  == IF isLoaded THEN AnyModel ELSE "none"
             asPair == AsPair(pair)
             reason == gate.reason
  <2>1. v = [format |-> format, model |-> model, valid |-> valid,
             pair |-> asPair, used |-> used, fed |-> fed,
             reason |-> reason, failing |-> failing]
    BY <1>2 DEF View
  <2> HIDE DEF format, model, asPair, reason
  <2>2. /\ v.format = format /\ v.model = model /\ v.valid = valid
        /\ v.pair = asPair /\ v.used = used /\ v.fed = fed
        /\ v.reason = reason /\ v.failing = failing
    BY <2>1, SMT
  <2>3. QED
    BY <2>2 DEF format, model, asPair, reason
<1>5. AnyModel # "none"
  BY SMT DEF AnyModel
<1>6. Promise!Loaded(v) <=> isLoaded
  BY <1>4, <1>5, Zenon DEF Promise!Loaded
<1>7. <<rate, layout>> \in Rates \X BOOLEAN
  BY <1>1, <1>3
<1>8. [f \in Rates \X BOOLEAN |-> f[1]][<<rate, layout>>] = rate
  BY <1>7, SMT
<1>9. [m \in {AnyModel} |-> ModelRate][AnyModel] = ModelRate
  BY SMT
<1>10. ASSUME isLoaded
      PROVE  Promise!PairFor(v.format, v.model)
               = [native |-> rate, model |-> ModelRate]
  BY <1>4, <1>8, <1>9, <1>10, Zenon DEF Promise!PairFor
<1>11. Promise!Resamples(v.format, v.model) <=> isLoaded /\ rate # ModelRate
  BY <1>4, <1>5, <1>8, <1>9, Zenon DEF Promise!Resamples
<1>12. AsPair(pair) = [native |-> rate, model |-> ModelRate]
        <=> pair # NoRate /\ pair = rate
  BY <1>1, ProcessorAssumption, SMT DEF AsPair, EmptyPair
<1>13. Promise!Path(v)
         <=> isLoaded /\ valid /\ pair # NoRate /\ pair = rate
  BY <1>4, <1>6, <1>10, <1>12, Zenon DEF Promise!Path,
     Promise!ResamplerMatches
<1>14. QED
  BY <1>4, <1>6, <1>11, <1>13 DEF PathOf, rate, valid, pair, isLoaded

\* What the view a call began with says of the processor as it is.
LEMMA ViewHere ==
    ASSUME TypeOK, PathIsCurrent, HistoryType, NEW used, NEW failing,
           Began(used, failing)
    PROVE  /\ Promise!Loaded(MappedView) <=> loaded
           /\ Promise!Path(MappedView) <=> resampler.path
           /\ Promise!Mismatch(MappedView) <=> loaded /\ RateMismatch
           /\ MappedView.reason = gate.reason
           /\ MappedView.used = used /\ MappedView.failing = failing
           /\ MappedView.valid = resampler.valid /\ MappedView.fed = fed
           /\ Promise!GivenUp(MappedView)
                = View(resampler.rate, layout, loaded,
                       resampler.valid /\ ~resampler.path, resampler.pair,
                       FALSE, fed, gate.reason, failing)
           /\ Promise!GivenUp(MappedView).valid
                = (resampler.valid /\ ~resampler.path)
<1> DEFINE v == MappedView
<1>1. v = ViewWith(used, failing)
  BY DEF Began
<1> HIDE DEF v
<1>2. /\ v.reason = gate.reason /\ v.used = used /\ v.failing = failing
      /\ v.valid = resampler.valid /\ v.fed = fed
  BY <1>1, ViewPath
<1>3. /\ Promise!Loaded(v) <=> loaded
      /\ Promise!Resamples(v.format, v.model)
           <=> loaded /\ resampler.rate # ModelRate
      /\ Promise!Path(v) <=> PathOf(resampler, loaded)
  BY <1>1, ViewPath
<1>4. Promise!Path(v) <=> resampler.path
  BY <1>3, Zenon DEF PathIsCurrent
<1>5. Promise!Mismatch(v) <=> loaded /\ RateMismatch
  BY <1>3, <1>4, Zenon DEF Promise!Mismatch, RateMismatch
<1>6. Promise!GivenUp(v)
        = View(resampler.rate, layout, loaded,
               resampler.valid /\ ~resampler.path, resampler.pair,
               FALSE, fed, gate.reason, failing)
      /\ Promise!GivenUp(v).valid = (resampler.valid /\ ~resampler.path)
  <2> DEFINE valid == v.valid /\ ~Promise!Path(v)
             no    == FALSE
  <2>1. Promise!GivenUp(v) = [v EXCEPT !.valid = valid, !.used = no]
    BY DEF Promise!GivenUp
  <2>2. valid = (resampler.valid /\ ~resampler.path)
    BY <1>2, <1>4
  <2> HIDE DEF valid, no
  <2>3. [v EXCEPT !.valid = valid, !.used = no]
          = View(resampler.rate, layout, loaded, valid, resampler.pair,
                 no, fed, gate.reason, failing)
        /\ [v EXCEPT !.valid = valid, !.used = no].valid = valid
    <3> DEFINE format == <<resampler.rate, layout>>
               model  == IF loaded THEN AnyModel ELSE "none"
               asPair == AsPair(resampler.pair)
               reason == gate.reason
               before == resampler.valid
    <3>1. v = [format |-> format, model |-> model, valid |-> before,
               pair |-> asPair, used |-> used, fed |-> fed,
               reason |-> reason, failing |-> failing]
      BY <1>1 DEF ViewWith, View
    <3> HIDE DEF format, model, asPair, reason, before
    <3> DEFINE w == [v EXCEPT !.valid = valid]
    <3>2. w = [format |-> format, model |-> model, valid |-> valid,
               pair |-> asPair, used |-> used, fed |-> fed,
               reason |-> reason, failing |-> failing]
      BY <3>1, SMT
    <3>3. [v EXCEPT !.valid = valid, !.used = no] = [w EXCEPT !.used = no]
      OBVIOUS
    <3> HIDE DEF w
    <3>4. [w EXCEPT !.used = no]
            = [format |-> format, model |-> model, valid |-> valid,
               pair |-> asPair, used |-> no, fed |-> fed,
               reason |-> reason, failing |-> failing]
      BY <3>2, SMT
    <3> DEFINE u == [w EXCEPT !.used = no]
    <3>5. u.valid = valid
      <4>1. u = [format |-> format, model |-> model, valid |-> valid,
                 pair |-> asPair, used |-> no, fed |-> fed,
                 reason |-> reason, failing |-> failing]
        BY <3>4
      <4> HIDE DEF u
      <4>2. QED
        BY <4>1, SMT
    <3>6. QED
      BY <3>3, <3>4, <3>5 DEF View, format, model, asPair, reason
  <2>4. QED
    BY <2>1, <2>2, <2>3 DEF no
<1>7. QED
  BY <1>2, <1>3, <1>4, <1>5, <1>6 DEF v

\* The view and the answer of a call that has come back.
LEMMA CameBack ==
    ASSUME Idle', UNCHANGED <<loaded, layout>>,
           resampler'.rate = resampler.rate, resampler'.pair = resampler.pair
    PROVE  /\ MappedView' = View(resampler.rate, layout, loaded,
                                 resampler'.valid, resampler.pair,
                                 lanes'.taken > 0, fed', gate'.reason,
                                 gate'.failures > 0)
           /\ MappedAnswer' = [event |-> result'.event # "None",
                               refresh |-> result'.refresh,
                               hops |-> Measured(result')]
BY DEF MappedView, MappedAnswer, ViewNow, AnswerNow, View

\* An outcome that the promise allows.
LEMMA ProcessStep ==
    ASSUME NEW v, NEW event, NEW refresh, NEW hops,
           Promise!Outcome(v, event, refresh, hops)
             \in Promise!Ordinary(MappedView) \cup Promise!Setbacks(MappedView),
           MappedView' = v,
           MappedAnswer' = [event |-> event, refresh |-> refresh,
                            hops |-> hops]
    PROVE  Promise!PromiseNext
<1> DEFINE o == Promise!Outcome(v, event, refresh, hops)
<1>1. /\ o.view = v /\ o.event = event /\ o.refresh = refresh
      /\ o.hops = hops
  BY Zenon DEF Promise!Outcome
<1> HIDE DEF o
<1>2. /\ o \in Promise!Ordinary(MappedView)
                 \cup Promise!Setbacks(MappedView)
      /\ MappedView' = o.view
      /\ MappedAnswer' = [event |-> o.event, refresh |-> o.refresh,
                          hops |-> o.hops]
  BY <1>1 DEF o
<1>3. QED
  BY <1>2, Zenon DEF Promise!PromiseNext, Promise!Process, MappedView,
     MappedAnswer

\* The packet passed through a processor that is not to process it.
LEMMA PassedKept ==
    ASSUME TypeOK, PathIsCurrent, HistoryType, NEW used, NEW failing,
           Began(used, failing), Stopped \/ RateMismatch,
           MappedView' = MappedView, NEW event \in BOOLEAN,
           MappedAnswer' = [event |-> event, refresh |-> FALSE,
                            hops |-> FALSE]
    PROVE  Promise!PromiseNext
<1> DEFINE v == MappedView
           no == FALSE
<1>1. Promise!PassesThrough(v)
  BY ViewHere, Zenon DEF Promise!PassesThrough, Stopped
<1>2. Promise!Outcome(v, event, no, no) \in Promise!Ordinary(v)
  BY <1>1, Zenon DEF Promise!Ordinary, Promise!PassedThrough
<1> HIDE DEF no
<1>3. MappedAnswer' = [event |-> event, refresh |-> no, hops |-> no]
  BY DEF no
<1> HIDE DEF v
<1>4. MappedView' = v
  BY DEF v
<1>5. Promise!Outcome(v, event, no, no)
        \in Promise!Ordinary(MappedView) \cup Promise!Setbacks(MappedView)
  BY <1>2 DEF v
<1>6. QED
  BY <1>3, <1>4, <1>5, ProcessStep

\* What may go wrong in a processor that is to process.
LEMMA AllowedSetbacks ==
    ASSUME TypeOK, PathIsCurrent, HistoryType, NEW used, NEW failing,
           Began(used, failing), ~Stopped
    PROVE  /\ Promise!TurnedAway(MappedView)
                \subseteq Promise!Setbacks(MappedView)
           /\ ~RateMismatch =>
                /\ Promise!Jumped(MappedView)
                     \subseteq Promise!Setbacks(MappedView)
                /\ Promise!Failed(MappedView)
                     \subseteq Promise!Setbacks(MappedView)
                /\ Promise!Opened(MappedView)
                     \subseteq Promise!Setbacks(MappedView)
                /\ Promise!Ordinary(MappedView)
                     = Promise!Succeeded(MappedView)
<1> DEFINE v == MappedView
<1>1. /\ Promise!Loaded(v) /\ v.reason # "RepeatedProcessingFailures"
      /\ Promise!Mismatch(v) <=> RateMismatch
  BY ViewHere, Zenon DEF Stopped
<1> HIDE DEF v
<1>2. /\ Promise!Setbacks(v) =
           Promise!TurnedAway(v) \cup
             IF Promise!Mismatch(v) THEN {}
             ELSE Promise!Jumped(v) \cup Promise!Failed(v)
                    \cup Promise!Opened(v)
      /\ ~Promise!Mismatch(v) =>
           Promise!Ordinary(v) = Promise!Succeeded(v)
  BY <1>1, Zenon DEF Promise!Setbacks, Promise!Ordinary,
     Promise!PassesThrough
<1>3. QED
  BY <1>1, <1>2, Zenon DEF v

\* A packet is turned away with the pair given up, or with nothing to lose.
LEMMA TurnedAwayWith ==
    ASSUME NEW v, NEW w, w = Promise!GivenUp(v) \/ (w = v /\ ~v.used),
           NEW event \in BOOLEAN
    PROVE  Promise!Outcome(w, event, w.valid # v.valid, FALSE)
             \in Promise!TurnedAway(v)
<1> DEFINE S == {Promise!GivenUp(v)} \cup {u \in {v} : ~u.used}
           O(x, e) == Promise!Outcome(x, e, x.valid # v.valid, FALSE)
<1>1. w \in S
  OBVIOUS
<1>2. Promise!TurnedAway(v) = {O(x, e) : e \in BOOLEAN, x \in S}
  BY DEF Promise!TurnedAway
<1> HIDE DEF S, O
<1>3. O(w, event) \in {O(x, e) : e \in BOOLEAN, x \in S}
  BY <1>1, SMT
<1>4. O(w, event) \in Promise!TurnedAway(v)
  BY <1>2, <1>3
<1>5. QED
  BY <1>4 DEF O

\* A packet turned away.
LEMMA TurnedAwayStep ==
    ASSUME TypeOK, QuietInv, PathIsCurrent, HistoryType,
           NEW used, NEW failing, Began(used, failing), ~Stopped,
           failing = (gate.failures > 0), gate.recovering => ~used,
           UNCHANGED <<layout, fed>>,
           NEW oversized \in BOOLEAN, CapacityFailure(oversized)
    PROVE  Promise!PromiseNext
<1> DEFINE v     == MappedView
           event == result'.event # "None"
           no    == FALSE
<1>1. /\ \/ gate.recovering /\ UNCHANGED <<lanes, resampler>>
                            /\ ~result'.refresh
         \/ GivesUp(resampler.path) /\ result'.refresh = resampler.path
      /\ gate'.failures = gate.failures /\ gate'.reason = gate.reason
      /\ UNCHANGED loaded /\ Idle' /\ ~Measured(result')
  BY CapacityLeaves
<1>2. resampler'.rate = resampler.rate /\ resampler'.pair = resampler.pair
  BY <1>1 DEF GivesUp
<1>3. /\ MappedView' = View(resampler.rate, layout, loaded, resampler'.valid,
                            resampler.pair, lanes'.taken > 0, fed,
                            gate.reason, failing)
      /\ MappedAnswer' = [event |-> event, refresh |-> result'.refresh,
                          hops |-> Measured(result')]
  BY <1>1, <1>2, CameBack
<1>4. Measured(result') = no
  BY <1>1 DEF Measured
<1>5. event \in BOOLEAN
  OBVIOUS
<1>6. /\ v.used = used /\ v.valid = resampler.valid
      /\ Promise!GivenUp(v)
           = View(resampler.rate, layout, loaded,
                  resampler.valid /\ ~resampler.path, resampler.pair,
                  FALSE, fed, gate.reason, failing)
      /\ Promise!GivenUp(v).valid = (resampler.valid /\ ~resampler.path)
  BY ViewHere
<1>7. Promise!TurnedAway(v) \subseteq Promise!Setbacks(v)
  BY AllowedSetbacks
<1>8. CASE gate.recovering /\ UNCHANGED <<lanes, resampler>>
                           /\ ~result'.refresh
  <2>1. (lanes'.taken > 0) = FALSE /\ used = FALSE
    <3>1. lanes'.taken = 0
      BY <1>8 DEF QuietInv
    <3>2. (lanes'.taken > 0) = FALSE
      BY <3>1, SMT
    <3>3. used = FALSE
      BY <1>8 DEF Began
    <3>4. QED
      BY <3>2, <3>3
  <2>2. MappedView' = v
    BY <1>3, <1>8, <2>1 DEF Began, ViewWith
  <2>3. result'.refresh = no
    <3>1. result'.refresh \in BOOLEAN
      BY Zenon DEF CapacityFailure, PassThrough, Return
    <3>2. QED
      BY <1>8, <3>1
  <2> HIDE DEF v, event
  <2>4. Promise!Outcome(v, event, v.valid # v.valid, FALSE)
          \in Promise!TurnedAway(v)
    BY <1>5, <1>6, <2>1, TurnedAwayWith
  <2>5. (v.valid # v.valid) = no
    OBVIOUS
  <2>6. Promise!Outcome(v, event, no, no) \in Promise!Setbacks(v)
    BY <1>7, <2>4, <2>5 DEF no
  <2>7. MappedAnswer' = [event |-> event, refresh |-> no, hops |-> no]
    BY <1>3, <1>4, <2>3
  <2> HIDE DEF no
  <2>8. Promise!Outcome(v, event, no, no)
          \in Promise!Ordinary(MappedView) \cup Promise!Setbacks(MappedView)
    BY <2>6 DEF v
  <2>9. QED
    BY <2>2, <2>7, <2>8, ProcessStep
<1>9. CASE GivesUp(resampler.path) /\ result'.refresh = resampler.path
  <2> DEFINE w == Promise!GivenUp(v)
             given == resampler.path
  <2>1. (lanes'.taken > 0) = FALSE
    BY <1>9, SMT DEF GivesUp
  <2>2. MappedView' = w
    BY <1>3, <1>6, <1>9, <2>1 DEF GivesUp
  <2>3. (w.valid # v.valid) = given
    <3>1. w.valid = (resampler.valid /\ ~resampler.path)
      BY <1>6
    <3>2. /\ resampler.valid \in BOOLEAN /\ resampler.path \in BOOLEAN
          /\ resampler.path => resampler.valid
      BY Zenon DEF TypeOK, ResamplerType, PathIsCurrent, PathOf
    <3>3. QED
      BY <1>6, <3>1, <3>2, Zenon
  <2> HIDE DEF v, event
  <2>4. Promise!Outcome(w, event, w.valid # v.valid, FALSE)
          \in Promise!TurnedAway(v)
    BY <1>5, TurnedAwayWith
  <2> HIDE DEF w
  <2>5. Promise!Outcome(w, event, given, no) \in Promise!Setbacks(v)
    BY <1>7, <2>3, <2>4 DEF no
  <2>6. MappedAnswer' = [event |-> event, refresh |-> given, hops |-> no]
    BY <1>3, <1>4, <1>9
  <2> HIDE DEF no, given
  <2>7. Promise!Outcome(w, event, given, no)
          \in Promise!Ordinary(MappedView) \cup Promise!Setbacks(MappedView)
    BY <2>5 DEF v
  <2>8. QED
    BY <2>2, <2>6, <2>7, ProcessStep
<1>10. QED
  BY <1>1, <1>8, <1>9

\* A step that failed inside the call.
LEMMA FailedStep ==
    ASSUME TypeOK, CallInv, ReportedInv, PathIsCurrent, HistoryType,
           NEW used, NEW failing, Began(used, failing), ~Stopped,
           ~RateMismatch, failing = (gate.failures > 0),
           UNCHANGED <<layout, fed>>, NEW hops, FailureResult(hops)
    PROVE  Promise!PromiseNext
<1> DEFINE v      == MappedView
           event  == result'.event # "None"
           opened == gate.failures + 1 >= MaxFailures
           no     == FALSE
           w      == Promise!GivenUp(v)
<1>1. /\ GivesUp(resampler.path)
      /\ gate'.failures = gate.failures + 1
      /\ gate'.reason = IF opened THEN "RepeatedProcessingFailures"
                        ELSE gate.reason
      /\ result'.refresh = (resampler.path /\ ~opened)
      /\ UNCHANGED loaded /\ Idle' /\ ~Measured(result')
  BY FailureLeaves
<1>2. /\ resampler'.rate = resampler.rate /\ resampler'.pair = resampler.pair
      /\ resampler'.valid = (resampler.valid /\ ~resampler.path)
      /\ (lanes'.taken > 0) = FALSE
  BY <1>1, SMT DEF GivesUp
<1>3. gate.failures \in Nat /\ (gate'.failures > 0) = TRUE
  BY <1>1, SMT DEF TypeOK, GateType, MaxFailures
<1>4. /\ MappedView' = View(resampler.rate, layout, loaded,
                            resampler.valid /\ ~resampler.path,
                            resampler.pair, FALSE, fed, gate'.reason, TRUE)
      /\ MappedAnswer' = [event |-> event, refresh |-> result'.refresh,
                          hops |-> Measured(result')]
  BY <1>1, <1>2, <1>3, CameBack
<1>5. Measured(result') = no
  BY <1>1 DEF Measured
<1>6. /\ v.failing = failing /\ (Promise!Path(v) <=> resampler.path)
      /\ w = View(resampler.rate, layout, loaded,
                  resampler.valid /\ ~resampler.path, resampler.pair,
                  FALSE, fed, gate.reason, failing)
  BY ViewHere
<1>7. /\ Promise!Failed(v) \subseteq Promise!Setbacks(v)
      /\ Promise!Opened(v) \subseteq Promise!Setbacks(v)
  BY AllowedSetbacks
<1>8. /\ (gate.failures = 0 /\ ~gate.reported)
           \/ gate'.failures = MaxFailures
           => result'.event \in {"ProcessingFailure", "CircuitOpened"}
      /\ gate.failures = 0 => ~gate.reported
      /\ opened => gate'.failures = MaxFailures
  <2>1. gate.failures = 0 => ~gate.reported
    BY <1>3, SMT DEF ReportedInv
  <2>2. gate.failures \in 0 .. MaxFailures /\ gate.failures # MaxFailures
    BY SMT DEF TypeOK, GateType, CallInv, Stopped
  <2>3. opened => gate'.failures = MaxFailures
    BY <1>1, <2>2, SMT DEF MaxFailures
  <2>4. QED
    BY <2>1, <2>3, FailureReturns
<1>9. /\ ~failing => event
      /\ opened => event /\ failing
  <2>1. "ProcessingFailure" # "None" /\ "CircuitOpened" # "None"
    BY SMT
  <2>2. ~failing => gate.failures = 0
    <3>1. ~(gate.failures > 0) => gate.failures = 0
      BY <1>3, SMT
    <3>2. QED
      BY <3>1
  <2>3. opened => failing
    <3>1. opened => gate.failures > 0
      BY <1>3, SMT DEF MaxFailures
    <3>2. QED
      BY <3>1
  <2>4. ~failing => event
    BY <1>8, <2>1, <2>2
  <2>5. opened => event
    BY <1>8, <2>1
  <2>6. QED
    BY <2>3, <2>4, <2>5
<1>10. CASE ~opened
  <2> DEFINE yes   == TRUE
             u     == [w EXCEPT !.failing = yes]
             given == Promise!Path(v)
  <2>1. MappedView' = u
    <3>1. MappedView' = View(resampler.rate, layout, loaded,
                             resampler.valid /\ ~resampler.path,
                             resampler.pair, FALSE, fed, gate.reason, yes)
      BY <1>1, <1>4, <1>10
    <3> DEFINE format == <<resampler.rate, layout>>
               model  == IF loaded THEN AnyModel ELSE "none"
               asPair == AsPair(resampler.pair)
               reason == gate.reason
               valid  == resampler.valid /\ ~resampler.path
    <3>2. w = [format |-> format, model |-> model, valid |-> valid,
               pair |-> asPair, used |-> no, fed |-> fed,
               reason |-> reason, failing |-> failing]
      BY <1>6 DEF View
    <3>3. MappedView'
            = [format |-> format, model |-> model, valid |-> valid,
               pair |-> asPair, used |-> no, fed |-> fed,
               reason |-> reason, failing |-> yes]
      BY <3>1 DEF View
    <3> DEFINE after == MappedView'
    <3> HIDE DEF format, model, asPair, reason, valid, no, yes, w, after
    <3>4. after = [w EXCEPT !.failing = yes]
      <4>1. after = [format |-> format, model |-> model, valid |-> valid,
                     pair |-> asPair, used |-> no, fed |-> fed,
                     reason |-> reason, failing |-> yes]
        BY <3>3 DEF after
      <4>2. QED
        BY <3>2, <4>1, SMT
    <3>5. QED
      BY <3>4 DEF after
  <2>2. result'.refresh = given
    <3>1. resampler.path \in BOOLEAN
      BY Zenon DEF TypeOK, ResamplerType
    <3>2. given \in BOOLEAN
      BY Zenon DEF Promise!Path, Promise!Loaded, Promise!ResamplerMatches
    <3>3. result'.refresh = resampler.path
      BY <1>1, <1>10, <3>1, Zenon
    <3>4. QED
      BY <1>6, <3>1, <3>2, <3>3, Zenon
  <2>3. event \in (IF v.failing THEN BOOLEAN ELSE {TRUE})
    <3>1. event \in BOOLEAN
      OBVIOUS
    <3>2. ~failing => event = TRUE
      BY <1>9, <3>1
    <3>3. QED
      BY <1>6, <3>1, <3>2
  <2>4. Promise!Outcome(u, event, given, no) \in Promise!Failed(v)
    <3> HIDE DEF event, v
    <3>1. QED
      BY <2>3, Zenon DEF Promise!Failed
  <2>5. MappedAnswer' = [event |-> event, refresh |-> given, hops |-> no]
    BY <1>4, <1>5, <2>2
  <2> HIDE DEF u, event, given, no
  <2>6. Promise!Outcome(u, event, given, no)
          \in Promise!Ordinary(MappedView) \cup Promise!Setbacks(MappedView)
    BY <1>7, <2>4
  <2>7. QED
    BY <2>1, <2>5, <2>6, ProcessStep
<1>11. CASE opened
  <2> DEFINE yes    == TRUE
             reason == "RepeatedProcessingFailures"
             u      == [w EXCEPT !.reason = reason]
  <2>1. failing = yes /\ event = yes
    <3>1. failing \in BOOLEAN /\ event \in BOOLEAN
      BY DEF Began
    <3>2. QED
      BY <1>9, <1>11, <3>1
  <2>2. MappedView' = u
    <3>1. MappedView' = View(resampler.rate, layout, loaded,
                             resampler.valid /\ ~resampler.path,
                             resampler.pair, FALSE, fed, reason, failing)
      BY <1>1, <1>4, <1>11, <2>1
    <3> DEFINE format == <<resampler.rate, layout>>
               model  == IF loaded THEN AnyModel ELSE "none"
               asPair == AsPair(resampler.pair)
               before == gate.reason
               valid  == resampler.valid /\ ~resampler.path
               after  == MappedView'
    <3>2. w = [format |-> format, model |-> model, valid |-> valid,
               pair |-> asPair, used |-> no, fed |-> fed,
               reason |-> before, failing |-> failing]
      BY <1>6 DEF View
    <3>3. after = [format |-> format, model |-> model, valid |-> valid,
                   pair |-> asPair, used |-> no, fed |-> fed,
                   reason |-> reason, failing |-> failing]
      BY <3>1 DEF View
    <3> HIDE DEF format, model, asPair, reason, before, valid, no, w, after
    <3>4. after = [w EXCEPT !.reason = reason]
      BY <3>2, <3>3, SMT
    <3>5. QED
      BY <3>4 DEF after
  <2>3. result'.refresh = no
    BY <1>1, <1>11
  <2>4. Promise!Outcome(u, event, no, no) \in Promise!Opened(v)
    <3>1. v.failing
      BY <1>6, <2>1
    <3> HIDE DEF event, v
    <3>2. Promise!Outcome(u, TRUE, FALSE, FALSE) \in Promise!Opened(v)
      BY <3>1, Zenon DEF Promise!Opened
    <3>3. QED
      BY <2>1, <3>2
  <2>5. MappedAnswer' = [event |-> event, refresh |-> no, hops |-> no]
    BY <1>4, <1>5, <2>3
  <2> HIDE DEF u, event, no
  <2>6. Promise!Outcome(u, event, no, no)
          \in Promise!Ordinary(MappedView) \cup Promise!Setbacks(MappedView)
    BY <1>7, <2>4
  <2>7. QED
    BY <2>2, <2>5, <2>6, ProcessStep
<1>12. QED
  BY <1>10, <1>11

\* A packet was taken in, and the call comes back with or without output.
LEMMA SucceededStep ==
    ASSUME TypeOK, PathIsCurrent, HistoryType,
           NEW used, NEW failing, Began(used, failing), ~Stopped,
           ~RateMismatch, Idle', UNCHANGED <<loaded, layout, resampler>>,
           fed' = (fed \/ resampler.path), lanes'.taken > 0,
           gate'.reason = gate.reason, ~result'.refresh,
           result'.refresh \in BOOLEAN,
           \/ Measured(result') /\ gate'.failures = 0
           \/ ~Measured(result') /\ (gate'.failures > 0) = failing
    PROVE  Promise!PromiseNext
<1> DEFINE v      == MappedView
           event  == result'.event # "None"
           yes    == TRUE
           no     == FALSE
           isFed  == v.fed \/ Promise!Path(v)
           w      == [v EXCEPT !.used = yes, !.fed = isFed]
           u      == [w EXCEPT !.failing = no]
           format == <<resampler.rate, layout>>
           model  == IF loaded THEN AnyModel ELSE "none"
           asPair == AsPair(resampler.pair)
           reason == gate.reason
           valid  == resampler.valid
<1>1. /\ MappedView' = View(resampler.rate, layout, loaded, resampler.valid,
                            resampler.pair, lanes'.taken > 0, fed',
                            gate.reason, gate'.failures > 0)
      /\ MappedAnswer' = [event |-> event, refresh |-> result'.refresh,
                          hops |-> Measured(result')]
  BY CameBack
<1>2. /\ (lanes'.taken > 0) = yes /\ fed' = isFed /\ result'.refresh = no
  <2>1. v.fed = fed /\ (Promise!Path(v) <=> resampler.path)
    BY ViewHere
  <2>2. isFed = (fed \/ resampler.path)
    BY <2>1
  <2>3. QED
    BY <2>2
<1>3. Promise!TakenIn(v) = w
  BY DEF Promise!TakenIn
<1>4. v = [format |-> format, model |-> model, valid |-> valid,
           pair |-> asPair, used |-> used, fed |-> fed,
           reason |-> reason, failing |-> failing]
  BY DEF Began, ViewWith, View
<1>5. w = [format |-> format, model |-> model, valid |-> valid,
           pair |-> asPair, used |-> yes, fed |-> isFed,
           reason |-> reason, failing |-> failing]
  <2> DEFINE x == [v EXCEPT !.used = yes]
  <2>1. w = [x EXCEPT !.fed = isFed]
    OBVIOUS
  <2> HIDE DEF v, yes, isFed, format, model, asPair, reason, valid, w
  <2>2. x = [format |-> format, model |-> model, valid |-> valid,
             pair |-> asPair, used |-> yes, fed |-> fed,
             reason |-> reason, failing |-> failing]
    BY <1>4, SMT
  <2> HIDE DEF x
  <2>3. QED
    BY <2>1, <2>2, SMT
<1>6. u = [format |-> format, model |-> model, valid |-> valid,
           pair |-> asPair, used |-> yes, fed |-> isFed,
           reason |-> reason, failing |-> no]
  <2> HIDE DEF v, yes, no, isFed, format, model, asPair, reason, valid, w
  <2>1. QED
    BY <1>5, SMT
<1>7. event \in BOOLEAN /\ Measured(result') \in BOOLEAN
  BY DEF Measured
<1>8. /\ Promise!Outcome(w, event, FALSE, FALSE) \in Promise!Succeeded(v)
      /\ Promise!Outcome(u, event, FALSE, TRUE) \in Promise!Succeeded(v)
  <2>1. Promise!Succeeded(v)
          = {Promise!Outcome(w, e, FALSE, FALSE) : e \in BOOLEAN}
            \cup {Promise!Outcome(u, e, FALSE, TRUE) : e \in BOOLEAN}
    BY <1>3 DEF Promise!Succeeded
  <2> HIDE DEF v, w, u, event
  <2>2. QED
    BY <1>7, <2>1
<1>9. Promise!Ordinary(v) = Promise!Succeeded(v)
  BY AllowedSetbacks
<1>10. CASE Measured(result') /\ gate'.failures = 0
  <2>1. Measured(result') = yes /\ (gate'.failures > 0) = no
    <3>1. (gate'.failures > 0) = FALSE
      BY <1>10, SMT
    <3>2. QED
      BY <1>7, <1>10, <3>1
  <2>2. MappedView' = u
    BY <1>1, <1>2, <1>6, <2>1 DEF View
  <2>3. MappedAnswer' = [event |-> event, refresh |-> no, hops |-> yes]
    BY <1>1, <1>2, <2>1
  <2>4. Promise!Outcome(u, event, no, yes) \in Promise!Ordinary(v)
    BY <1>8, <1>9
  <2> HIDE DEF u, event, yes, no
  <2>5. Promise!Outcome(u, event, no, yes)
          \in Promise!Ordinary(MappedView) \cup Promise!Setbacks(MappedView)
    BY <2>4
  <2>6. QED
    BY <2>2, <2>3, <2>5, ProcessStep
<1>11. CASE ~Measured(result') /\ (gate'.failures > 0) = failing
  <2>1. Measured(result') = no
    BY <1>7, <1>11
  <2>2. MappedView' = w
    BY <1>1, <1>2, <1>5, <1>11 DEF View
  <2>3. MappedAnswer' = [event |-> event, refresh |-> no, hops |-> no]
    BY <1>1, <1>2, <2>1
  <2>4. Promise!Outcome(w, event, no, no) \in Promise!Ordinary(v)
    BY <1>8, <1>9
  <2> HIDE DEF w, event, no
  <2>5. Promise!Outcome(w, event, no, no)
          \in Promise!Ordinary(MappedView) \cup Promise!Setbacks(MappedView)
    BY <2>4
  <2>6. QED
    BY <2>2, <2>3, <2>5, ProcessStep
<1>12. QED
  BY <1>10, <1>11

\* A jump that gives up the pair.
LEMMA JumpedStep ==
    ASSUME TypeOK, PathIsCurrent, HistoryType,
           NEW used, NEW failing, Began(used, failing),
           failing = (gate.failures > 0), UNCHANGED <<layout, fed>>,
           NEW frames, JumpResampled(frames)
    PROVE  Promise!PromiseNext
<1> DEFINE v     == MappedView
           event == result'.event # "None"
           yes   == TRUE
           no    == FALSE
           w     == Promise!GivenUp(v)
<1>1. /\ GivesUp(TRUE) /\ UNCHANGED loaded /\ resampler.path
      /\ ~Stopped /\ ~RateMismatch
  BY GivingUp DEF JumpResampled, Admissible
<1>2. /\ Idle' /\ gate'.reason = gate.reason
      /\ gate'.failures = gate.failures /\ ~Measured(result')
      /\ result'.refresh = TRUE /\ result'.event = "ResamplerRefreshNeeded"
  <2> DEFINE f == [gate EXCEPT !.jumps = TRUE]
             h == [f EXCEPT !.jumpPending = FALSE]
             g == [h EXCEPT !.rateWarned = TRUE]
             told == "ResamplerRefreshNeeded"
             refresh == TRUE
  <2>1. Return(g, "Passthrough", told, refresh, 0, 0, 0)
    BY DEF JumpResampled, PassThrough
  <2>2. g \in GateType
    <3>1. f \in GateType
      BY GateSetters DEF TypeOK
    <3> HIDE DEF f
    <3>2. h \in GateType
      BY <3>1, GateSetters
    <3> HIDE DEF h
    <3>3. QED
      BY <3>2, GateSetters
  <2>3. g.failures = gate.failures /\ g.reason = gate.reason
    BY SMT DEF TypeOK, GateType
  <2>4. told # "None"
    BY SMT
  <2> HIDE DEF g, told, refresh
  <2>5. result'.event = told
    BY <2>1, <2>2, <2>4, ReturnedFields
  <2>6. /\ Idle' /\ gate'.reason = g.reason /\ gate'.failures = g.failures
        /\ result'.refresh = refresh /\ result'.disposition = "Passthrough"
    BY <2>1, <2>2, ReturnedAnswer
  <2>7. QED
    BY <2>3, <2>5, <2>6, PassedUnmeasured DEF told, refresh
<1>3. /\ resampler'.rate = resampler.rate /\ resampler'.pair = resampler.pair
      /\ resampler'.valid = (resampler.valid /\ ~resampler.path)
      /\ (lanes'.taken > 0) = FALSE
  BY <1>1, SMT DEF GivesUp
<1>4. /\ MappedView' = View(resampler.rate, layout, loaded,
                            resampler.valid /\ ~resampler.path,
                            resampler.pair, FALSE, fed, gate.reason, failing)
      /\ MappedAnswer' = [event |-> event, refresh |-> result'.refresh,
                          hops |-> Measured(result')]
  BY <1>1, <1>2, <1>3, CameBack
<1>5. event = yes /\ Measured(result') = no
  <2>1. "ResamplerRefreshNeeded" # "None"
    BY SMT
  <2>2. QED
    BY <1>2, <2>1 DEF Measured
<1>6. /\ Promise!Path(v)
      /\ w = View(resampler.rate, layout, loaded,
                  resampler.valid /\ ~resampler.path, resampler.pair,
                  FALSE, fed, gate.reason, failing)
  BY <1>1, ViewHere
<1>7. Promise!Jumped(v) \subseteq Promise!Setbacks(v)
  BY <1>1, AllowedSetbacks
<1>8. MappedView' = w
  BY <1>4, <1>6
<1>9. MappedAnswer' = [event |-> yes, refresh |-> yes, hops |-> no]
  BY <1>2, <1>4, <1>5
<1>10. Promise!Outcome(w, yes, yes, no) \in Promise!Jumped(v)
  <2> HIDE DEF v
  <2>1. QED
    BY <1>6, Zenon DEF Promise!Jumped
<1> HIDE DEF w, yes, no
<1>11. Promise!Outcome(w, yes, yes, no)
         \in Promise!Ordinary(MappedView) \cup Promise!Setbacks(MappedView)
  BY <1>7, <1>10
<1>12. QED
  BY <1>8, <1>9, <1>11, ProcessStep

-----------------------------------------------------------------------------
(***************************************************************************)
(* The other methods, between two calls.                                   *)
(***************************************************************************)
LEMMA OtherStep ==
    ASSUME NEW v, MappedView' = v, MappedAnswer' = Promise!NoAnswer
    PROVE  Promise!Becomes(v)
BY Zenon DEF Promise!Becomes, MappedView, MappedAnswer

\* Between two calls the promise sees the processor as it is.
LEMMA BetweenView ==
    ASSUME Idle
    PROVE  MappedView = [format |-> <<resampler.rate, layout>>,
                         model  |-> IF loaded THEN AnyModel ELSE "none",
                         valid  |-> resampler.valid,
                         pair   |-> AsPair(resampler.pair),
                         used   |-> lanes.taken > 0, fed |-> fed,
                         reason |-> gate.reason,
                         failing |-> gate.failures > 0]
BY DEF MappedView, ViewNow

\* A method that is not process() leaves no answer.
LEMMA NoAnswerAfter ==
    ASSUME Idle, UNCHANGED call, result' = NoResult
    PROVE  Idle' /\ MappedAnswer' = Promise!NoAnswer
<1>1. Idle'
  BY DEF Idle
<1>2. /\ NoResult.event = "None" /\ NoResult.refresh = FALSE
      /\ NoResult.disposition = "NoCall"
  BY SMT DEF NoResult
<1>3. ~Measured(NoResult)
  <2>1. "NoCall" # "Pending" /\ "NoCall" # "Processed"
    BY SMT
  <2>2. QED
    BY <1>2, <2>1 DEF Measured
<1>4. Measured(NoResult) = FALSE /\ (NoResult.event # "None") = FALSE
  BY <1>2, <1>3 DEF Measured
<1>5. QED
  BY <1>1, <1>2, <1>4 DEF MappedAnswer, AnswerNow, Promise!NoAnswer

\* A pause and a retry.
LEMMA OverloadStep ==
    ASSUME TypeOK, UNCHANGED <<layout, fed>>,
           DisableForRealtimeOverload \/ ResumeAfterOverload
    PROVE  Promise!PromiseNext
<1> DEFINE v      == MappedView
           no     == FALSE
           format == <<resampler.rate, layout>>
           model  == IF loaded THEN AnyModel ELSE "none"
           asPair == AsPair(resampler.pair)
           valid  == resampler.valid
           used   == lanes.taken > 0
           before == gate.reason
           failing == gate.failures > 0
           stopped == IF DisableForRealtimeOverload THEN "RealtimeOverload"
                      ELSE "None"
           w      == [v EXCEPT !.reason = stopped]
           u      == [v EXCEPT !.reason = stopped, !.failing = no]
<1>1. /\ Idle /\ UNCHANGED <<call, loaded, lanes, resampler>>
      /\ result' = NoResult
      /\ gate' = [gate EXCEPT !.reason = stopped, !.failures = 0,
                              !.reported = FALSE]
  <2>1. CASE DisableForRealtimeOverload
    BY <2>1 DEF DisableForRealtimeOverload, Between, audio
  <2>2. CASE ~DisableForRealtimeOverload
    BY <2>2 DEF ResumeAfterOverload, Between, audio
  <2>3. QED
    BY <2>1, <2>2
<1>2. v = [format |-> format, model |-> model, valid |-> valid,
           pair |-> asPair, used |-> used, fed |-> fed,
           reason |-> before, failing |-> failing]
  BY <1>1, BetweenView
<1>3. gate'.reason = stopped /\ (gate'.failures > 0) = no
  <2> HIDE DEF stopped
  <2>1. gate'.reason = stopped /\ gate'.failures = 0
    BY <1>1, SMT DEF TypeOK, GateType
  <2>2. QED
    BY <2>1, SMT
<1>4. Idle' /\ MappedAnswer' = Promise!NoAnswer
  BY <1>1, NoAnswerAfter
<1>5. MappedView' = u
  <2>1. MappedView' = [format |-> format, model |-> model, valid |-> valid,
                       pair |-> asPair, used |-> used, fed |-> fed,
                       reason |-> stopped, failing |-> no]
    BY <1>1, <1>3, <1>4 DEF MappedView, ViewNow
  <2>2. u = [w EXCEPT !.failing = no]
    OBVIOUS
  <2> DEFINE after == MappedView'
  <2>3. after = [format |-> format, model |-> model, valid |-> valid,
                 pair |-> asPair, used |-> used, fed |-> fed,
                 reason |-> stopped, failing |-> no]
    BY <2>1
  <2> HIDE DEF v, no, format, model, asPair, valid, used, before, failing,
               stopped, u, after
  <2>4. w = [format |-> format, model |-> model, valid |-> valid,
             pair |-> asPair, used |-> used, fed |-> fed,
             reason |-> stopped, failing |-> failing]
    BY <1>2, SMT
  <2> HIDE DEF w
  <2>5. after = u
    BY <2>2, <2>3, <2>4, SMT
  <2>6. QED
    BY <2>5 DEF after
<1>6. Promise!Becomes(u)
  <2> HIDE DEF u
  <2>1. QED
    BY <1>4, <1>5, OtherStep
<1>7. v.reason = gate.reason
  <2> HIDE DEF v, format, model, asPair, valid, used, failing
  <2>1. v.reason = before
    BY <1>2, Zenon
  <2>2. QED
    BY <2>1
<1>8. CASE DisableForRealtimeOverload
  <2>1. u = Promise!DisableForRealtimeOverload(v)
    BY <1>8 DEF Promise!DisableForRealtimeOverload
  <2>2. MappedAnswer.hops /\ v.reason = "None"
    <3>1. Measured(result) /\ gate.reason = "None"
      BY <1>8 DEF DisableForRealtimeOverload, Measured
    <3>2. MappedAnswer.hops = Measured(result)
      BY <1>1, Zenon DEF MappedAnswer, AnswerNow
    <3>3. QED
      BY <1>7, <3>1, <3>2
  <2> HIDE DEF u
  <2>3. Promise!Disable
    BY <1>6, <2>1, <2>2 DEF Promise!Disable, v, MappedView, MappedAnswer
  <2>4. QED
    BY <2>3 DEF Promise!PromiseNext
<1>9. CASE ~DisableForRealtimeOverload
  <2>1. u = Promise!ResumeAfterOverload(v)
    BY <1>9 DEF Promise!ResumeAfterOverload
  <2>2. v.reason = "RealtimeOverload"
    BY <1>7, <1>9 DEF ResumeAfterOverload
  <2> HIDE DEF u
  <2>3. Promise!Resume
    BY <1>6, <2>1, <2>2 DEF Promise!Resume, v, MappedView
  <2>4. QED
    BY <2>3 DEF Promise!PromiseNext
<1>10. QED
  BY <1>8, <1>9

\* A reset, the end of a stream and new controls.
LEMMA RestartStep ==
    ASSUME TypeOK, UNCHANGED <<layout, fed>>,
           ResetState \/ EndStream \/ SetControls
    PROVE  Promise!PromiseNext
<1> DEFINE v      == MappedView
           no     == FALSE
           format == <<resampler.rate, layout>>
           model  == IF loaded THEN AnyModel ELSE "none"
           asPair == AsPair(resampler.pair)
           valid  == resampler.valid
           used   == lanes.taken > 0
           before == gate.reason
           failing == gate.failures > 0
<1>1. /\ Idle /\ UNCHANGED <<call, loaded>> /\ result' = NoResult
  BY DEF ResetState, EndStream, SetControls, Between
<1>2. v = [format |-> format, model |-> model, valid |-> valid,
           pair |-> asPair, used |-> used, fed |-> fed,
           reason |-> before, failing |-> failing]
  BY <1>1, BetweenView
<1>3. Idle' /\ MappedAnswer' = Promise!NoAnswer
  BY <1>1, NoAnswerAfter
<1>4. resampler \in ResamplerType /\ loaded \in BOOLEAN
  BY DEF TypeOK
<1>5. CASE ResetState
  <2> DEFINE none == "None"
             w == [v EXCEPT !.used = no]
             x == [w EXCEPT !.reason = none]
             u == [v EXCEPT !.used = no, !.reason = none, !.failing = no]
  <2>1. /\ resampler'.rate = resampler.rate
        /\ resampler'.valid = resampler.valid
        /\ resampler'.pair = resampler.pair /\ lanes'.taken = 0
    BY <1>4, <1>5, ResetFields DEF ResetState
  <2>2. gate'.reason = none /\ gate'.failures = 0
    BY <1>5, SMT DEF ResetState, FreshGate
  <2>3. (lanes'.taken > 0) = no /\ (gate'.failures > 0) = no
    BY <2>1, <2>2, SMT
  <2> DEFINE after == MappedView'
  <2>4. after = [format |-> format, model |-> model, valid |-> valid,
                 pair |-> asPair, used |-> no, fed |-> fed,
                 reason |-> none, failing |-> no]
    BY <1>1, <1>3, <2>1, <2>2, <2>3 DEF MappedView, ViewNow
  <2>5. u = [x EXCEPT !.failing = no]
    OBVIOUS
  <2>6. u = Promise!ResetState(v)
    BY DEF Promise!ResetState
  <2> HIDE DEF v, no, none, format, model, asPair, valid, used, before,
               failing, u, after
  <2>7. w = [format |-> format, model |-> model, valid |-> valid,
             pair |-> asPair, used |-> no, fed |-> fed,
             reason |-> before, failing |-> failing]
    BY <1>2, SMT
  <2> HIDE DEF w
  <2>8. x = [format |-> format, model |-> model, valid |-> valid,
             pair |-> asPair, used |-> no, fed |-> fed,
             reason |-> none, failing |-> failing]
    BY <2>7, SMT
  <2> HIDE DEF x
  <2>9. after = u
    BY <2>4, <2>5, <2>8, SMT
  <2>10. Promise!Becomes(Promise!ResetState(v))
    BY <1>3, <2>6, <2>9, OtherStep DEF after
  <2>11. QED
    BY <2>10 DEF Promise!PromiseNext, v, MappedView
<1>6. CASE EndStream
  <2> DEFINE u == [v EXCEPT !.used = no]
             after == MappedView'
  <2>1. /\ resampler'.rate = resampler.rate
        /\ resampler'.valid = resampler.valid
        /\ resampler'.pair = resampler.pair /\ lanes'.taken = 0
    BY <1>4, <1>6, ResetFields DEF EndStream
  <2>2. UNCHANGED gate
    BY <1>6 DEF EndStream
  <2>3. (lanes'.taken > 0) = no
    BY <2>1, SMT
  <2>4. after = [format |-> format, model |-> model, valid |-> valid,
                 pair |-> asPair, used |-> no, fed |-> fed,
                 reason |-> before, failing |-> failing]
    BY <1>1, <1>3, <2>1, <2>2, <2>3 DEF MappedView, ViewNow
  <2>5. u = Promise!ResetStream(v)
    BY DEF Promise!ResetStream
  <2> HIDE DEF v, no, format, model, asPair, valid, used, before, failing,
               after
  <2>6. after = u
    BY <1>2, <2>4, SMT
  <2> HIDE DEF u
  <2>7. Promise!Becomes(Promise!ResetStream(v))
    BY <1>3, <2>5, <2>6, OtherStep DEF after
  <2>8. QED
    BY <2>7 DEF Promise!PromiseNext, v, MappedView
<1>7. CASE SetControls
  <2>1. UNCHANGED <<lanes, resampler, gate>>
    BY <1>7 DEF SetControls, audio
  <2>2. MappedView' = v
    BY <1>1, <1>2, <1>3, <2>1 DEF MappedView, ViewNow
  <2>3. Promise!Becomes(v)
    <3> HIDE DEF v
    <3>1. QED
      BY <1>3, <2>2, OtherStep
  <2>4. QED
    BY <2>3 DEF Promise!PromiseNext, v, MappedView
<1>8. QED
  BY <1>5, <1>6, <1>7

\* An empty pair, and only that, is seen as one.
LEMMA PairSeen ==
    ASSUME NEW p \in Rates \cup {NoRate}
    PROVE  AsPair(p) = EmptyPair <=> p = NoRate
BY ProcessorAssumption, SMT DEF AsPair, EmptyPair

\* A format with another rate or another channel count.
LEMMA FormatStep ==
    ASSUME TypeOK, HistoryType, UNCHANGED fed, NEW rate \in Rates,
           SetFormat(rate), layout' = (layout # (rate = resampler.rate))
    PROVE  Promise!PromiseNext
<1> DEFINE v      == MappedView
           no     == FALSE
           format == <<resampler.rate, layout>>
           new    == <<rate, layout'>>
           model  == IF loaded THEN AnyModel ELSE "none"
           asPair == AsPair(resampler.pair)
           before == resampler.valid
           used   == lanes.taken > 0
           reason == gate.reason
           failing == gate.failures > 0
           stale  == loaded /\ (rate # ModelRate \/ resampler.pair # NoRate)
           valid  == resampler.valid /\ ~stale
           w      == [v EXCEPT !.format = new]
           x      == [w EXCEPT !.used = no]
           u      == [v EXCEPT !.format = new, !.used = no, !.valid = valid]
           after  == MappedView'
<1>1. /\ Idle /\ UNCHANGED <<call, loaded>> /\ result' = NoResult
      /\ ResetAudio([Invalidated(stale) EXCEPT !.rate = rate], gate.reason,
                    loaded)
      /\ gate' = [gate EXCEPT !.rateWarned = FALSE]
  BY DEF SetFormat, Between
<1>2. v = [format |-> format, model |-> model, valid |-> before,
           pair |-> asPair, used |-> used, fed |-> fed,
           reason |-> reason, failing |-> failing]
  BY <1>1, BetweenView
<1>3. Idle' /\ MappedAnswer' = Promise!NoAnswer
  BY <1>1, NoAnswerAfter
<1>4. /\ resampler \in ResamplerType /\ loaded \in BOOLEAN
      /\ gate \in GateType /\ layout \in BOOLEAN
      /\ resampler.pair \in Rates \cup {NoRate} /\ resampler.rate \in Rates
  BY Zenon DEF TypeOK, ResamplerType, HistoryType
<1>5. resampler'.rate = rate /\ resampler'.valid = valid
      /\ resampler'.pair = resampler.pair /\ lanes'.taken = 0
  <2> DEFINE old == Invalidated(stale)
             r   == [old EXCEPT !.rate = rate]
  <2>1. /\ old \in ResamplerType /\ old.valid = valid
        /\ old.rate = resampler.rate /\ old.pair = resampler.pair
    BY <1>4, InvalidatedFields
  <2>2. ResetAudio(r, gate.reason, loaded)
    BY <1>1
  <2> HIDE DEF old, valid
  <2>3. r \in ResamplerType
    BY <2>1, ResamplerSetters
  <2>4. r.rate = rate /\ r.valid = old.valid /\ r.pair = old.pair
    BY <2>1, SMT DEF ResamplerType
  <2> HIDE DEF r
  <2>5. QED
    BY <1>4, <2>1, <2>2, <2>3, <2>4, ResetFields
<1>6. gate'.reason = gate.reason /\ gate'.failures = gate.failures
  BY <1>1, <1>4, SMT DEF GateType
<1>7. (lanes'.taken > 0) = no
  BY <1>5, SMT
<1>8. after = [format |-> new, model |-> model, valid |-> valid,
               pair |-> asPair, used |-> no, fed |-> fed,
               reason |-> reason, failing |-> failing]
  BY <1>1, <1>3, <1>5, <1>6, <1>7 DEF MappedView, ViewNow
<1>9. new # format /\ new \in Rates \X BOOLEAN
  <2> DEFINE channels == layout'
             now      == resampler.rate
  <2>1. channels \in BOOLEAN /\ (rate = now => channels # layout)
    BY <1>4
  <2> HIDE DEF channels, now
  <2>2. <<rate, channels>> # <<now, layout>>
    BY <2>1
  <2>3. <<rate, channels>> \in Rates \X BOOLEAN
    BY <2>1
  <2>4. QED
    BY <2>2, <2>3 DEF channels, now
<1>10. /\ v.format = format /\ v.model = model /\ v.valid = before
       /\ v.pair = asPair
  <2> HIDE DEF v, format, model, asPair, before, used, reason, failing
  <2>1. QED
    BY <1>2, SMT
<1>11. /\ Promise!Loaded(v) <=> loaded
       /\ loaded => (Promise!Resamples(new, v.model) <=> rate # ModelRate)
       /\ v.pair # EmptyPair <=> resampler.pair # NoRate
  <2>1. AnyModel # "none"
    BY SMT DEF AnyModel
  <2>2. Promise!Loaded(v) <=> loaded
    BY <1>10, <2>1, Zenon DEF Promise!Loaded
  <2>3. [f \in Rates \X BOOLEAN |-> f[1]][new] = rate
    <3>1. new[1] = rate
      BY SMT
    <3> HIDE DEF new
    <3>2. QED
      BY <1>9, <3>1, SMT
  <2>4. [m \in {AnyModel} |-> ModelRate][AnyModel] = ModelRate
    BY SMT
  <2>5. loaded => v.model = AnyModel
    BY <1>10
  <2> HIDE DEF v, new
  <2>6. loaded => (Promise!Resamples(new, v.model) <=> rate # ModelRate)
    BY <2>1, <2>3, <2>4, <2>5, Zenon DEF Promise!Resamples
  <2>7. v.pair # EmptyPair <=> resampler.pair # NoRate
    BY <1>4, <1>10, PairSeen
  <2>8. QED
    BY <2>2, <2>6, <2>7
<1>12. Promise!SetFormat(v, new) = u
  <2> DEFINE gone == /\ Promise!Loaded(v)
                     /\ \/ Promise!Resamples(new, v.model)
                        \/ v.pair # EmptyPair
             left == v.valid /\ ~gone
  <2>1. Promise!SetFormat(v, new)
          = [v EXCEPT !.format = new, !.used = FALSE, !.valid = left]
    <3> HIDE DEF v, new
    <3>1. new # v.format
      BY <1>9, <1>10 DEF new
    <3>2. QED
      BY <3>1, Zenon DEF Promise!SetFormat
  <2>2. left = valid
    BY <1>10, <1>11
  <2> HIDE DEF v, new, left, valid
  <2>3. QED
    BY <2>1, <2>2 DEF u
<1>13. after = u
  <2>1. u = [x EXCEPT !.valid = valid]
    OBVIOUS
  <2> HIDE DEF v, no, format, new, model, asPair, before, used, reason,
               failing, valid, u, after
  <2>2. w = [format |-> new, model |-> model, valid |-> before,
             pair |-> asPair, used |-> used, fed |-> fed,
             reason |-> reason, failing |-> failing]
    BY <1>2, SMT
  <2> HIDE DEF w
  <2>3. x = [format |-> new, model |-> model, valid |-> before,
             pair |-> asPair, used |-> no, fed |-> fed,
             reason |-> reason, failing |-> failing]
    BY <2>2, SMT
  <2> HIDE DEF x
  <2>4. QED
    BY <1>8, <2>1, <2>3, SMT
<1> HIDE DEF v, new, u
<1>14. Promise!Becomes(Promise!SetFormat(v, new))
  BY <1>3, <1>12, <1>13, OtherStep DEF after
<1>15. QED
  BY <1>9, <1>14, Zenon DEF Promise!PromiseNext, v, MappedView

\* A record with the fields of a view.
IsView(v) ==
    v = [format |-> v.format, model |-> v.model, valid |-> v.valid,
         pair |-> v.pair, used |-> v.used, fed |-> v.fed,
         reason |-> v.reason, failing |-> v.failing]

\* What replace_resamplers and replace_model do to a view.
LEMMA Replaced ==
    ASSUME NEW v, IsView(v), NEW p, NEW none,
           v.pair = EmptyPair /\ p = EmptyPair <=> none
    PROVE  /\ none => Promise!ReplaceResamplers(v, p)
                        = [format |-> v.format, model |-> v.model,
                           valid |-> TRUE, pair |-> v.pair,
                           used |-> v.used, fed |-> v.fed,
                           reason |-> v.reason, failing |-> v.failing]
           /\ ~none => Promise!ReplaceResamplers(v, p)
                        = [format |-> v.format, model |-> v.model,
                           valid |-> TRUE, pair |-> p,
                           used |-> FALSE, fed |-> FALSE,
                           reason |-> v.reason, failing |-> v.failing]
<1> DEFINE a == v.format   b == v.model   c == v.valid   d == v.pair
           e == v.used     f == v.fed     g == v.reason  h == v.failing
           yes == TRUE     no == FALSE
           w == [v EXCEPT !.pair = p]
           x == [w EXCEPT !.valid = yes]
           y == [x EXCEPT !.used = no]
           u == [v EXCEPT !.pair = p, !.valid = yes, !.used = no, !.fed = no]
           t == [v EXCEPT !.valid = yes]
<1>1. v = [format |-> a, model |-> b, valid |-> c, pair |-> d,
           used |-> e, fed |-> f, reason |-> g, failing |-> h]
  BY DEF IsView
<1>2. u = [y EXCEPT !.fed = no]
  OBVIOUS
<1>3. Promise!ReplaceResamplers(v, p) = IF none THEN t ELSE u
  BY Zenon DEF Promise!ReplaceResamplers
<1> HIDE DEF a, b, c, d, e, f, g, h, yes, no, u
<1>4. t = [format |-> a, model |-> b, valid |-> yes, pair |-> d,
           used |-> e, fed |-> f, reason |-> g, failing |-> h]
  BY <1>1, SMT
<1>5. w = [format |-> a, model |-> b, valid |-> c, pair |-> p,
           used |-> e, fed |-> f, reason |-> g, failing |-> h]
  BY <1>1, SMT
<1> HIDE DEF t, w
<1>6. x = [format |-> a, model |-> b, valid |-> yes, pair |-> p,
           used |-> e, fed |-> f, reason |-> g, failing |-> h]
  BY <1>5, SMT
<1> HIDE DEF x
<1>7. y = [format |-> a, model |-> b, valid |-> yes, pair |-> p,
           used |-> no, fed |-> f, reason |-> g, failing |-> h]
  BY <1>6, SMT
<1> HIDE DEF y
<1>8. u = [format |-> a, model |-> b, valid |-> yes, pair |-> p,
           used |-> no, fed |-> no, reason |-> g, failing |-> h]
  BY <1>2, <1>7, SMT
<1>9. QED
  BY <1>3, <1>4, <1>8 DEF a, b, c, d, e, f, g, h, yes, no

\* What the fields of a record are.
LEMMA ViewFields ==
    ASSUME NEW a, NEW b, NEW c, NEW d, NEW e, NEW f, NEW g, NEW h,
           NEW v, v = [format |-> a, model |-> b, valid |-> c, pair |-> d,
                       used |-> e, fed |-> f, reason |-> g, failing |-> h]
    PROVE  /\ v.format = a /\ v.model = b /\ v.valid = c /\ v.pair = d
           /\ v.used = e /\ v.fed = f /\ v.reason = g /\ v.failing = h
           /\ IsView(v)
<1>1. /\ v.format = a /\ v.model = b /\ v.valid = c /\ v.pair = d
      /\ v.used = e /\ v.fed = f /\ v.reason = g /\ v.failing = h
  BY SMT
<1>2. QED
  BY <1>1 DEF IsView

\* The pairs that the promise knows.
LEMMA PairsKnown ==
    ASSUME NEW p \in Rates \cup {NoRate}
    PROVE  AsPair(p) \in Promise!Pairs
<1>1. CASE p = NoRate
  BY <1>1 DEF AsPair, Promise!Pairs
<1>2. CASE p # NoRate
  <2> DEFINE format == <<p, FALSE>>
             pair   == [native |-> p, model |-> ModelRate]
  <2>1. format \in Rates \X BOOLEAN
    BY <1>2
  <2>2. [f \in Rates \X BOOLEAN |-> f[1]][format] = p
    <3>1. format[1] = p
      BY SMT
    <3> HIDE DEF format
    <3>2. QED
      BY <2>1, <3>1, SMT
  <2>3. [m \in {AnyModel} |-> ModelRate][AnyModel] = ModelRate
    BY SMT
  <2> HIDE DEF format
  <2>4. Promise!PairFor(format, AnyModel) = pair
    BY <2>2, <2>3, Zenon DEF Promise!PairFor
  <2> DEFINE F == Rates \X BOOLEAN
             M == {AnyModel}
             P(f, m) == Promise!PairFor(f, m)
  <2>5. Promise!Pairs = {P(f, m) : f \in F, m \in M} \cup {EmptyPair}
    BY DEF Promise!Pairs
  <2>6. format \in F /\ AnyModel \in M
    BY <2>1
  <2> HIDE DEF F, M, P
  <2>7. P(format, AnyModel) \in {P(f, m) : f \in F, m \in M}
    BY <2>6, SMT
  <2>8. P(format, AnyModel) \in Promise!Pairs
    BY <2>5, <2>7
  <2>9. AsPair(p) = pair
    BY <1>2 DEF AsPair
  <2>10. QED
    BY <2>4, <2>8, <2>9 DEF P
<1>3. QED
  BY <1>1, <1>2

\* A fresh pair is no empty one.
LEMMA PairFields ==
    ASSUME NEW pair \in Pairs
    PROVE  /\ pair.pair \in Rates \cup {NoRate}
           /\ pair = NoPair <=> pair.pair = NoRate
BY ProcessorAssumption, SMT DEF Pairs, FreshPairs, NoPair

\* What installing a pair leaves of the resampler record.
LEMMA WithPairFields ==
    ASSUME NEW r \in ResamplerType, NEW pair \in Pairs
    PROVE  /\ WithPair(r, pair) \in ResamplerType
           /\ WithPair(r, pair).rate = r.rate
           /\ WithPair(r, pair).valid = TRUE
           /\ WithPair(r, pair).pair = pair.pair
<1>1. WithPair(r, pair) \in ResamplerType
  BY WithPairType
<1>2. QED
  BY <1>1, Zenon DEF WithPair

\* Only a pair can have been fed.
FedInv == fed => resampler.pair # NoRate

\* replace_resamplers.
LEMMA ReplaceStep ==
    ASSUME TypeOK, HistoryType, FedInv, fed' = FALSE, UNCHANGED layout,
           NEW pair \in Pairs, ReplaceResamplers(pair)
    PROVE  Promise!PromiseNext
<1> DEFINE v      == MappedView
           p      == AsPair(pair.pair)
           none   == resampler.pair = NoRate /\ pair = NoPair
           format == <<resampler.rate, layout>>
           model  == IF loaded THEN AnyModel ELSE "none"
           asPair == AsPair(resampler.pair)
           valid  == resampler.valid
           used   == lanes.taken > 0
           reason == gate.reason
           failing == gate.failures > 0
           after  == MappedView'
           next   == Promise!ReplaceResamplers(v, p)
<1>1. /\ Idle /\ UNCHANGED <<call, loaded>> /\ result' = NoResult
  BY DEF ReplaceResamplers, Between
<1>2. v = [format |-> format, model |-> model, valid |-> valid,
           pair |-> asPair, used |-> used, fed |-> fed,
           reason |-> reason, failing |-> failing]
  BY <1>1, BetweenView
<1>3. Idle' /\ MappedAnswer' = Promise!NoAnswer
  BY <1>1, NoAnswerAfter
<1>4. /\ v.format = format /\ v.model = model /\ v.pair = asPair
      /\ v.used = used /\ v.fed = fed /\ v.reason = reason
      /\ v.failing = failing /\ IsView(v)
  <2> HIDE DEF v, format, model, asPair, valid, used, reason, failing
  <2>1. QED
    BY <1>2, ViewFields
<1>5. /\ resampler \in ResamplerType /\ loaded \in BOOLEAN
      /\ gate \in GateType /\ fed \in BOOLEAN
      /\ resampler.pair \in Rates \cup {NoRate}
      /\ pair.pair \in Rates \cup {NoRate}
      /\ pair = NoPair <=> pair.pair = NoRate
  BY PairFields, Zenon DEF TypeOK, ResamplerType, HistoryType
<1>6. v.pair = EmptyPair /\ p = EmptyPair <=> none
  BY <1>4, <1>5, PairSeen
<1>7. after = next
  <2>1. CASE none
    <3>1. UNCHANGED <<lanes, gate>>
          /\ resampler' = [resampler EXCEPT !.valid = TRUE]
      BY <2>1 DEF ReplaceResamplers
    <3>2. /\ resampler'.rate = resampler.rate /\ resampler'.valid = TRUE
          /\ resampler'.pair = resampler.pair
      BY <1>5, <3>1, SMT DEF ResamplerType
    <3>3. fed' = fed
      BY <1>5, <2>1 DEF FedInv
    <3>4. after = [format |-> format, model |-> model, valid |-> TRUE,
                   pair |-> asPair, used |-> used, fed |-> fed,
                   reason |-> reason, failing |-> failing]
      BY <1>1, <1>3, <3>1, <3>2, <3>3 DEF MappedView, ViewNow
    <3>5. next = [format |-> v.format, model |-> v.model, valid |-> TRUE,
                  pair |-> v.pair, used |-> v.used, fed |-> v.fed,
                  reason |-> v.reason, failing |-> v.failing]
      <4> HIDE DEF v, p, none
      <4>1. QED
        BY <1>4, <1>6, <2>1, Replaced
    <3> HIDE DEF v, next, after
    <3>6. QED
      BY <1>4, <3>4, <3>5
  <2>2. CASE ~none
    <3>1. /\ ResetAudio(WithPair(resampler, pair), gate.reason, loaded)
          /\ gate' = [gate EXCEPT !.rateWarned = FALSE]
      BY <2>2 DEF ReplaceResamplers
    <3>2. /\ resampler'.rate = resampler.rate /\ resampler'.valid = TRUE
          /\ resampler'.pair = pair.pair /\ lanes'.taken = 0
      <4> DEFINE r == WithPair(resampler, pair)
      <4>1. /\ r \in ResamplerType /\ r.rate = resampler.rate
            /\ r.valid = TRUE /\ r.pair = pair.pair
        BY <1>5, WithPairFields
      <4>2. ResetAudio(r, gate.reason, loaded)
        BY <3>1
      <4> HIDE DEF r
      <4>3. QED
        BY <1>5, <4>1, <4>2, ResetFields
    <3>3. gate'.reason = gate.reason /\ gate'.failures = gate.failures
      BY <1>5, <3>1, SMT DEF GateType
    <3>4. (lanes'.taken > 0) = FALSE
      BY <3>2, SMT
    <3>5. after = [format |-> format, model |-> model, valid |-> TRUE,
                   pair |-> p, used |-> FALSE, fed |-> FALSE,
                   reason |-> reason, failing |-> failing]
      BY <1>1, <1>3, <3>2, <3>3, <3>4 DEF MappedView, ViewNow
    <3>6. next = [format |-> v.format, model |-> v.model, valid |-> TRUE,
                  pair |-> p, used |-> FALSE, fed |-> FALSE,
                  reason |-> v.reason, failing |-> v.failing]
      <4> HIDE DEF v, p, none
      <4>1. QED
        BY <1>4, <1>6, <2>2, Replaced
    <3> HIDE DEF v, next, after
    <3>7. QED
      BY <1>4, <3>5, <3>6
  <2>3. QED
    BY <2>1, <2>2
<1>8. p \in Promise!Pairs
  BY <1>5, PairsKnown
<1> HIDE DEF v, p
<1>9. Promise!Becomes(Promise!ReplaceResamplers(v, p))
  BY <1>3, <1>7, OtherStep DEF after
<1>10. QED
  BY <1>8, <1>9, Zenon DEF Promise!PromiseNext, v, MappedView

\* release_invalid_resamplers.
LEMMA ReleaseStep ==
    ASSUME TypeOK, HistoryType, fed' = FALSE, UNCHANGED layout,
           ReleaseInvalidResamplers
    PROVE  Promise!PromiseNext
<1> DEFINE v      == MappedView
           yes    == TRUE
           no     == FALSE
           format == <<resampler.rate, layout>>
           model  == IF loaded THEN AnyModel ELSE "none"
           asPair == AsPair(resampler.pair)
           valid  == resampler.valid
           used   == lanes.taken > 0
           reason == gate.reason
           failing == gate.failures > 0
           after  == MappedView'
           w      == [v EXCEPT !.pair = EmptyPair]
           x      == [w EXCEPT !.valid = yes]
           u      == [v EXCEPT !.pair = EmptyPair, !.valid = yes, !.fed = no]
<1>1. /\ Idle /\ UNCHANGED <<call, loaded, lanes>> /\ result' = NoResult
      /\ ~resampler.valid /\ resampler.rate = ModelRate
      /\ resampler' = Recomputed(WithPair(resampler, NoPair), loaded)
      /\ gate' = [gate EXCEPT !.rateWarned = FALSE]
  BY DEF ReleaseInvalidResamplers, Between
<1>2. v = [format |-> format, model |-> model, valid |-> valid,
           pair |-> asPair, used |-> used, fed |-> fed,
           reason |-> reason, failing |-> failing]
  BY <1>1, BetweenView
<1>3. Idle' /\ MappedAnswer' = Promise!NoAnswer
  BY <1>1, NoAnswerAfter
<1>4. resampler \in ResamplerType /\ gate \in GateType
  BY DEF TypeOK
<1>5. /\ resampler'.rate = resampler.rate /\ resampler'.valid = TRUE
      /\ resampler'.pair = NoRate
  <2> DEFINE r    == WithPair(resampler, NoPair)
             path == PathOf(r, loaded)
  <2>1. NoPair \in Pairs /\ NoPair.pair = NoRate
    BY Zenon DEF Pairs, NoPair
  <2>2. /\ r \in ResamplerType /\ r.rate = resampler.rate
        /\ r.valid = TRUE /\ r.pair = NoRate
    BY <1>4, <2>1, WithPairFields
  <2>3. resampler' = [r EXCEPT !.path = path]
    BY <1>1 DEF Recomputed
  <2> HIDE DEF r, path
  <2>4. QED
    BY <2>2, <2>3, SMT DEF ResamplerType
<1>6. gate'.reason = gate.reason /\ gate'.failures = gate.failures
  BY <1>1, <1>4, SMT DEF GateType
<1>7. after = [format |-> format, model |-> model, valid |-> yes,
               pair |-> EmptyPair, used |-> used, fed |-> no,
               reason |-> reason, failing |-> failing]
  BY <1>1, <1>3, <1>5, <1>6 DEF MappedView, ViewNow, AsPair
<1>8. Promise!ReleaseInvalidResamplers(v) = u
  <2>1. ~v.valid
    <3>1. v.valid = valid
      <4> HIDE DEF v, format, model, asPair, valid, used, reason, failing
      <4>1. QED
        BY <1>2, ViewFields
    <3>2. QED
      BY <1>1, <3>1
  <2>2. ~Promise!Resamples(v.format, v.model)
    <3>1. v = ViewWith(used, failing)
      BY <1>2 DEF ViewWith, View
    <3> HIDE DEF v, used, failing
    <3>2. QED
      BY <1>1, <3>1, ViewPath
  <2> HIDE DEF v
  <2>3. QED
    BY <2>1, <2>2, Zenon DEF Promise!ReleaseInvalidResamplers
<1>9. after = u
  <2>1. u = [x EXCEPT !.fed = no]
    OBVIOUS
  <2> DEFINE empty == EmptyPair
  <2> HIDE DEF v, yes, no, format, model, asPair, valid, used, reason,
               failing, u, after
  <2>2. w = [format |-> format, model |-> model, valid |-> valid,
             pair |-> empty, used |-> used, fed |-> fed,
             reason |-> reason, failing |-> failing]
    <3>1. w = [v EXCEPT !.pair = empty]
      OBVIOUS
    <3> HIDE DEF w, empty
    <3>2. QED
      BY <1>2, <3>1, SMT
  <2>3. after = [format |-> format, model |-> model, valid |-> yes,
                 pair |-> empty, used |-> used, fed |-> no,
                 reason |-> reason, failing |-> failing]
    BY <1>7
  <2> HIDE DEF w, empty
  <2>4. x = [format |-> format, model |-> model, valid |-> yes,
             pair |-> empty, used |-> used, fed |-> fed,
             reason |-> reason, failing |-> failing]
    BY <2>2, SMT
  <2> HIDE DEF x
  <2>5. QED
    BY <2>1, <2>3, <2>4, SMT
<1> HIDE DEF v, u
<1>10. Promise!Becomes(Promise!ReleaseInvalidResamplers(v))
  BY <1>3, <1>8, <1>9, OtherStep DEF after
<1>11. QED
  BY <1>10, Zenon DEF Promise!PromiseNext, v, MappedView

\* A model is activated, with its pair.
LEMMA ActivateStep ==
    ASSUME TypeOK, HistoryType, FedInv, fed' = FALSE, UNCHANGED layout,
           NEW pair \in Pairs, ActivateModel(pair)
    PROVE  Promise!PromiseNext
<1> DEFINE v      == MappedView
           p      == AsPair(pair.pair)
           none   == resampler.pair = NoRate /\ pair = NoPair
           no     == FALSE
           clear  == "None"
           any    == AnyModel
           format == <<resampler.rate, layout>>
           model  == IF loaded THEN AnyModel ELSE "none"
           asPair == AsPair(resampler.pair)
           valid  == resampler.valid
           used   == lanes.taken > 0
           reason == gate.reason
           failing == gate.failures > 0
           after  == MappedView'
           w      == [v EXCEPT !.model = any]
           x      == [w EXCEPT !.used = no]
           y      == [x EXCEPT !.reason = clear]
           u      == [v EXCEPT !.model = any, !.used = no,
                               !.reason = clear, !.failing = no]
           next   == Promise!ReplaceResamplers(u, p)
<1>1. /\ Idle /\ UNCHANGED call /\ result' = NoResult /\ loaded' = TRUE
      /\ ResetAudio(WithPair(resampler, pair), "None", TRUE)
  BY DEF ActivateModel
<1>2. v = [format |-> format, model |-> model, valid |-> valid,
           pair |-> asPair, used |-> used, fed |-> fed,
           reason |-> reason, failing |-> failing]
  BY <1>1, BetweenView
<1>3. Idle' /\ MappedAnswer' = Promise!NoAnswer
  BY <1>1, NoAnswerAfter
<1>4. /\ resampler \in ResamplerType /\ fed \in BOOLEAN
      /\ resampler.pair \in Rates \cup {NoRate}
      /\ pair.pair \in Rates \cup {NoRate}
      /\ pair = NoPair <=> pair.pair = NoRate
  BY PairFields, Zenon DEF TypeOK, ResamplerType, HistoryType
<1>5. u = [format |-> format, model |-> any, valid |-> valid,
           pair |-> asPair, used |-> no, fed |-> fed,
           reason |-> clear, failing |-> no]
  <2>1. u = [y EXCEPT !.failing = no]
    OBVIOUS
  <2> HIDE DEF v, no, clear, any, format, model, asPair, valid, used, reason,
               failing, u
  <2>2. w = [format |-> format, model |-> any, valid |-> valid,
             pair |-> asPair, used |-> used, fed |-> fed,
             reason |-> reason, failing |-> failing]
    BY <1>2, SMT
  <2> HIDE DEF w
  <2>3. x = [format |-> format, model |-> any, valid |-> valid,
             pair |-> asPair, used |-> no, fed |-> fed,
             reason |-> reason, failing |-> failing]
    BY <2>2, SMT
  <2> HIDE DEF x
  <2>4. y = [format |-> format, model |-> any, valid |-> valid,
             pair |-> asPair, used |-> no, fed |-> fed,
             reason |-> clear, failing |-> failing]
    BY <2>3, SMT
  <2> HIDE DEF y
  <2>5. QED
    BY <2>1, <2>4, SMT
<1>6. /\ u.format = format /\ u.model = any /\ u.valid = valid
      /\ u.pair = asPair /\ u.used = no /\ u.fed = fed
      /\ u.reason = clear /\ u.failing = no /\ IsView(u)
  <2> HIDE DEF u, no, clear, any, format, asPair, valid
  <2>1. QED
    BY <1>5, ViewFields
<1>7. u.pair = EmptyPair /\ p = EmptyPair <=> none
  BY <1>4, <1>6, PairSeen
<1>8. /\ resampler'.rate = resampler.rate /\ resampler'.valid = TRUE
      /\ resampler'.pair = pair.pair /\ lanes'.taken = 0
  <2> DEFINE r == WithPair(resampler, pair)
             loads == TRUE
             wiped == "None"
  <2>1. /\ r \in ResamplerType /\ r.rate = resampler.rate
        /\ r.valid = TRUE /\ r.pair = pair.pair
    BY <1>4, WithPairFields
  <2>2. ResetAudio(r, wiped, loads) /\ loads \in BOOLEAN
    BY <1>1
  <2> HIDE DEF r, loads, wiped
  <2>3. QED
    BY <2>1, <2>2, ResetFields
<1>9. gate'.reason = clear /\ gate'.failures = 0
  BY SMT DEF ActivateModel, FreshGate
<1>10. (lanes'.taken > 0) = FALSE /\ (gate'.failures > 0) = FALSE
  BY <1>8, <1>9, SMT
<1>11. after = [format |-> format, model |-> any, valid |-> TRUE,
                pair |-> p, used |-> no, fed |-> FALSE,
                reason |-> clear, failing |-> no]
  BY <1>1, <1>3, <1>8, <1>9, <1>10 DEF MappedView, ViewNow
<1>12. after = next
  <2>1. CASE none
    <3>1. fed = FALSE /\ asPair = p
      BY <1>4, <2>1 DEF FedInv
    <3>2. next = [format |-> u.format, model |-> u.model, valid |-> TRUE,
                  pair |-> u.pair, used |-> u.used, fed |-> u.fed,
                  reason |-> u.reason, failing |-> u.failing]
      <4> HIDE DEF u, p, none
      <4>1. QED
        BY <1>6, <1>7, <2>1, Replaced
    <3> HIDE DEF u, next, after, p, asPair
    <3>3. QED
      BY <1>6, <1>11, <3>1, <3>2
  <2>2. CASE ~none
    <3>1. next = [format |-> u.format, model |-> u.model, valid |-> TRUE,
                  pair |-> p, used |-> FALSE, fed |-> FALSE,
                  reason |-> u.reason, failing |-> u.failing]
      <4> HIDE DEF u, p, none
      <4>1. QED
        BY <1>6, <1>7, <2>2, Replaced
    <3> HIDE DEF u, next, after, p
    <3>2. QED
      BY <1>6, <1>11, <3>1
  <2>3. QED
    BY <2>1, <2>2
<1>13. u = Promise!ReplaceModel(v, AnyModel)
  BY DEF Promise!ReplaceModel
<1>14. p \in Promise!Pairs
  BY <1>4, PairsKnown
<1> HIDE DEF v, p, u
<1>15. Promise!Becomes(Promise!ReplaceResamplers(u, p))
  BY <1>3, <1>12, OtherStep DEF after
<1>16. Promise!Activate(AnyModel, p)
  BY <1>13, <1>15 DEF Promise!Activate, v, MappedView
<1>17. QED
  BY <1>14, <1>16, Zenon DEF Promise!PromiseNext

-----------------------------------------------------------------------------
(***************************************************************************)
(* The steps within a call.  The promise sees none of them; what they      *)
(* leave as it was is what the view the call began with says.              *)
(***************************************************************************)
\* The view the call in progress began with: what a call changes before it
\* comes back is no more than the lanes and the row of failures.
CallBegan(used, failing) ==
    /\ known.view = ViewWith(used, failing)
    /\ call.pc = "admit" /\ gate.recovering => ~used
    /\ IF call.pc = "drain" /\ call.hops > 0 THEN gate.failures = 0
       ELSE failing = (gate.failures > 0)

\* What is remembered of the state between two calls.
MapInv ==
    /\ HistoryType /\ FedInv
    /\ Idle => known = Now
    /\ ~Idle => \E used \in BOOLEAN, failing \in BOOLEAN :
                   CallBegan(used, failing)

\* The promise is shown the state between two calls.
Remembered == known' = IF Idle' THEN Now' ELSE known

\* What a view says apart from the lanes and the failures.
Frame ==
    /\ UNCHANGED <<layout, fed, loaded>>
    /\ resampler'.rate = resampler.rate /\ resampler'.valid = resampler.valid
    /\ resampler'.pair = resampler.pair /\ gate'.reason = gate.reason

\* In the same frame, a view stays what it is.
LEMMA FramedView ==
    ASSUME Frame, NEW used, NEW failing
    PROVE  ViewWith(used, failing)' = ViewWith(used, failing)
BY DEF Frame, ViewWith, View

\* A step within a call, or the first one of it, stutters.
LEMMA GoingOn ==
    ASSUME MapInv, ~Idle', Remembered
    PROVE  UNCHANGED <<MappedView, MappedAnswer>>
<1>1. known' = known
  BY DEF Remembered
<1>2. CASE Idle
  <2>1. known = Now
    BY <1>2 DEF MapInv
  <2>2. known.view = ViewNow /\ known.answer = AnswerNow
    BY <2>1 DEF Now
  <2>3. QED
    BY <1>1, <1>2, <2>2, Zenon DEF MappedView, MappedAnswer
<1>3. CASE ~Idle
  BY <1>1, <1>3, Zenon DEF MappedView, MappedAnswer
<1>4. QED
  BY <1>2, <1>3

\* What a call may rely on, whether it starts or is under way.
LEMMA BeganHere ==
    ASSUME TypeOK, StreamInv, MapInv,
           call.pc = "idle" \/ call.pc = "admit" \/ call.pc = "hops"
    PROVE  \E used \in BOOLEAN, failing \in BOOLEAN :
              /\ Began(used, failing) /\ failing = (gate.failures > 0)
              /\ Idle \/ call.pc = "admit" => (gate.recovering => ~used)
<1>1. CASE Idle
  <2> DEFINE used == lanes.taken > 0  failing == gate.failures > 0
  <2>1. used \in BOOLEAN /\ failing \in BOOLEAN
    OBVIOUS
  <2>2. MappedView = ViewWith(used, failing)
    BY <1>1, ViewIs DEF MappedView
  <2>3. gate.recovering => ~used
    BY SMT DEF StreamInv, QuietInv
  <2> HIDE DEF used
  <2>4. Began(used, failing) /\ failing = (gate.failures > 0)
    BY <2>1, <2>2 DEF Began
  <2>5. QED
    BY <2>1, <2>3, <2>4, Zenon
<1>2. CASE ~Idle
  <2>1. PICK used \in BOOLEAN, failing \in BOOLEAN : CallBegan(used, failing)
    BY <1>2 DEF MapInv
  <2>2. MappedView = ViewWith(used, failing)
    BY <1>2, <2>1 DEF CallBegan, MappedView
  <2>3. call.pc # "drain"
    BY SMT
  <2>4. failing = (gate.failures > 0)
    BY <2>1, <2>3, Zenon DEF CallBegan
  <2>5. call.pc = "admit" => (gate.recovering => ~used)
    BY <2>1, Zenon DEF CallBegan
  <2>6. QED
    BY <1>2, <2>2, <2>4, <2>5, Zenon DEF Began
<1>3. QED
  BY <1>1, <1>2

\* A packet passed through has not fed the pair.
LEMMA NotFed ==
    ASSUME HistoryType, Stream,
           result'.disposition \in {"Passthrough", "NoCall"}
    PROVE  fed' = fed
<1>1. result'.disposition \notin {"Pending", "Processed"}
  BY SMT
<1>2. QED
  BY <1>1, Zenon DEF HistoryType, Stream

\* A packet passed through untouched.
LEMMA PassedStep ==
    ASSUME TypeOK, StreamInv, MapInv, Stream, Stopped \/ RateMismatch, Idle,
           NEW g \in GateType, NEW event, PassThrough(g, event, FALSE, 0),
           g.reason = gate.reason, g.failures = gate.failures,
           UNCHANGED <<audio, loaded>>
    PROVE  Promise!PromiseNext /\ Idle' /\ fed' = fed
<1>1. HistoryType /\ PathIsCurrent /\ UNCHANGED layout
  BY DEF MapInv, StreamInv, PairInv, Stream
<1>2. /\ gate'.reason = g.reason /\ gate'.failures = g.failures
      /\ result'.disposition = "Passthrough" /\ result'.refresh = FALSE
      /\ Idle'
  BY ReturnedAnswer DEF PassThrough
<1>3. fed' = fed
  BY <1>1, <1>2, NotFed
<1>4. UNCHANGED <<resampler, lanes, loaded>>
  BY DEF audio
<1>5. /\ gate'.reason = gate.reason /\ gate'.failures = gate.failures
  BY <1>2
<1>6. MappedView' = MappedView
  <2>1. ViewNow' = ViewNow
    BY <1>1, <1>3, <1>4, <1>5 DEF ViewNow
  <2>2. QED
    BY <1>2, <2>1, Zenon DEF MappedView
<1> DEFINE told == result'.event # "None"  no == FALSE
<1>7. ~Measured(result')
  BY <1>2, PassedUnmeasured
<1>8. Measured(result') = FALSE
  BY <1>7, Zenon DEF Measured
<1>9. MappedAnswer' = [event |-> told, refresh |-> FALSE, hops |-> FALSE]
  <2>1. MappedAnswer' = [event |-> told, refresh |-> result'.refresh,
                         hops |-> Measured(result')]
    BY <1>2, Zenon DEF MappedAnswer, AnswerNow
  <2>2. QED
    BY <2>1, <1>2, <1>8, Zenon
<1>10. told \in BOOLEAN
  OBVIOUS
<1>11. PICK used \in BOOLEAN, failing \in BOOLEAN : Began(used, failing)
  BY BeganHere DEF Idle
<1> HIDE DEF told
<1>12. Promise!PromiseNext
  BY <1>1, <1>6, <1>9, <1>10, <1>11, PassedKept
<1>13. QED
  BY <1>2, <1>3, <1>12

\* A step of process(), as the promise sees it.
CallStep ==
    /\ \/ Promise!PromiseNext
       \/ UNCHANGED <<MappedView, MappedAnswer>>
    /\ resampler'.pair = resampler.pair
    /\ ~Idle' => \E used \in BOOLEAN, failing \in BOOLEAN :
                    CallBegan(used, failing)'

\* A packet that comes in is passed through, turned away, gives up the pair,
\* or starts a call that goes on.
LEMMA ArriveStep ==
    ASSUME TypeOK, CallInv, StreamInv, MapInv, Stream, Remembered, Arrive
    PROVE  CallStep
<1>1. /\ HistoryType /\ PathIsCurrent /\ UNCHANGED layout /\ QuietInv
      /\ gate \in GateType /\ resampler \in ResamplerType
      /\ loaded \in BOOLEAN
  BY DEF MapInv, StreamInv, PairInv, Stream, TypeOK
<1>2. Idle
  BY DEF Arrive, PassUntouched, RejectOversized, PassRateMismatch,
         AcceptTimestamp, JumpNative, JumpResampled, Admissible
<1>3. PICK used \in BOOLEAN, failing \in BOOLEAN :
         /\ Began(used, failing) /\ failing = (gate.failures > 0)
         /\ gate.recovering => ~used
  BY <1>2, BeganHere DEF Idle
<1>4. CASE PassUntouched
  <2>1. Promise!PromiseNext /\ Idle' /\ fed' = fed
    BY <1>1, <1>2, <1>4, PassedStep DEF PassUntouched
  <2>2. resampler' = resampler
    BY <1>4 DEF PassUntouched, audio
  <2>3. QED
    BY <2>1, <2>2, Zenon DEF CallStep
<1>5. ASSUME NEW frames, PassRateMismatch(frames) PROVE CallStep
  <2> DEFINE g == [gate EXCEPT !.rateWarned = TRUE]
             event == IF gate.rateWarned THEN "None" ELSE "RateMismatch"
  <2>1. /\ g \in GateType /\ g.reason = gate.reason
        /\ g.failures = gate.failures
    <3> DEFINE yes == TRUE
    <3>1. g = [gate EXCEPT !.rateWarned = yes]
      OBVIOUS
    <3>2. g \in GateType
      BY <1>1, GateSetters
    <3> HIDE DEF yes, g
    <3>3. QED
      BY <1>1, <3>1, <3>2, SMT DEF GateType
  <2>2. /\ PassThrough(g, event, FALSE, 0) /\ RateMismatch
        /\ UNCHANGED <<audio, loaded>>
    BY <1>5, Zenon DEF PassRateMismatch
  <2> HIDE DEF g, event
  <2>3. Promise!PromiseNext /\ Idle' /\ fed' = fed
    BY <1>1, <1>2, <2>1, <2>2, PassedStep
  <2>4. resampler' = resampler
    BY <2>2 DEF audio
  <2>5. QED
    BY <2>3, <2>4, Zenon DEF CallStep
<1>6. ASSUME NEW frames, RejectOversized(frames) PROVE CallStep
  <2>1. CapacityFailure(TRUE) /\ ~Stopped
    BY <1>6 DEF RejectOversized
  <2> DEFINE yes == TRUE
  <2>2. yes \in BOOLEAN /\ CapacityFailure(yes)
    BY <2>1
  <2> HIDE DEF yes
  <2>3. /\ \/ gate.recovering /\ UNCHANGED <<lanes, resampler>>
                              /\ ~result'.refresh
           \/ GivesUp(resampler.path) /\ result'.refresh = resampler.path
        /\ Idle' /\ result'.disposition = "Passthrough"
    BY <1>1, <2>2, CapacityLeaves
  <2>4. fed' = fed /\ resampler'.pair = resampler.pair
    BY <1>1, <2>3, NotFed DEF GivesUp
  <2>5. Promise!PromiseNext
    BY <1>1, <1>3, <2>1, <2>2, <2>4, TurnedAwayStep
  <2>6. QED
    BY <2>3, <2>4, <2>5, Zenon DEF CallStep
<1>7. ASSUME NEW frames, JumpResampled(frames) PROVE CallStep
  <2> DEFINE g == [gate EXCEPT !.jumps = TRUE, !.jumpPending = FALSE,
                               !.rateWarned = TRUE]
  <2>1. /\ ResetAudio(Invalidated(TRUE), gate.reason, loaded)
        /\ PassThrough(g, "ResamplerRefreshNeeded", TRUE, 0)
    BY <1>7 DEF JumpResampled
  <2> HIDE DEF g
  <2>2. call' = NoCall /\ result'.disposition = "Passthrough"
    BY <2>1, Zenon DEF PassThrough, Return
  <2>3. Idle'
    BY <2>2, NoCallIdle DEF Idle
  <2> DEFINE yes == TRUE
  <2>4. yes \in BOOLEAN /\ ResetAudio(Invalidated(yes), gate.reason, loaded)
    BY <2>1
  <2> HIDE DEF yes
  <2>5. GivesUp(yes)
    BY <2>4, GivingUp
  <2>6. fed' = fed /\ resampler'.pair = resampler.pair
    BY <1>1, <2>2, <2>5, NotFed DEF GivesUp
  <2>7. Promise!PromiseNext
    BY <1>1, <1>3, <1>7, <2>6, JumpedStep
  <2>8. QED
    BY <2>3, <2>6, <2>7, Zenon DEF CallStep
<1>8. ASSUME NEW frames, AcceptTimestamp(frames) \/ JumpNative(frames)
      PROVE  CallStep
  <2>1. /\ Admit(frames) /\ result' = NoResult /\ loaded' = loaded
    BY <1>8 DEF AcceptTimestamp, JumpNative
  <2>2. call'.pc = "admit" /\ ~Idle'
    <3>1. call'.pc = "admit"
      BY <2>1, CallRecords, SMT DEF Admit, CallType
    <3>2. QED
      BY <3>1, SMT DEF Idle
  <2>3. /\ resampler'.rate = resampler.rate
        /\ resampler'.valid = resampler.valid
        /\ resampler'.pair = resampler.pair
    <3>1. CASE AcceptTimestamp(frames)
      BY <3>1 DEF AcceptTimestamp
    <3>2. CASE JumpNative(frames)
      BY <1>1, <3>2, ResetFields DEF JumpNative
    <3>3. QED
      BY <1>8, <3>1, <3>2
  <2>4. /\ gate'.reason = gate.reason /\ gate'.failures = gate.failures
        /\ gate'.recovering = gate.recovering
    <3>1. CASE AcceptTimestamp(frames)
      BY <3>1 DEF AcceptTimestamp
    <3>2. CASE JumpNative(frames)
      <4> DEFINE pending == gate.jumpPending \/ ~gate.jumps
      <4>1. gate' = [gate EXCEPT !.jumps = TRUE, !.jumpPending = pending]
        BY <3>2 DEF JumpNative
      <4> HIDE DEF pending
      <4>2. QED
        BY <1>1, <4>1, SMT DEF GateType
    <3>3. QED
      BY <1>8, <3>1, <3>2
  <2>5. fed' = fed
    BY <1>1, <2>1, NoCallIdle, NotFed
  <2>6. Frame
    BY <1>1, <2>1, <2>3, <2>4, <2>5 DEF Frame
  <2>7. UNCHANGED <<MappedView, MappedAnswer>>
    BY <2>2, GoingOn
  <2>8. known.view = ViewWith(used, failing)
    BY <1>2, <1>3 DEF MapInv, Now, Began, MappedView
  <2>9. known' = known
    BY <2>2 DEF Remembered
  <2>10. known'.view = ViewWith(used, failing)'
    BY <2>6, <2>8, <2>9, FramedView
  <2>11. call'.pc # "drain"
    BY <2>2, SMT
  <2>12. CallBegan(used, failing)'
    BY <1>3, <2>4, <2>10, <2>11, Zenon DEF CallBegan
  <2>13. QED
    BY <2>3, <2>7, <2>12, Zenon DEF CallStep
<1>9. QED
  BY <1>4, <1>5, <1>6, <1>7, <1>8 DEF Arrive

\* A call with hops ends the row of failures.
LEMMA AfterHopsZero ==
    ASSUME gate \in GateType, call.hops > 0
    PROVE  AfterHops.failures = 0
<1> DEFINE none == 0  no == FALSE
<1>1. AfterHops = [gate EXCEPT !.failures = none, !.reported = no]
  BY DEF AfterHops
<1> HIDE DEF none, no
<1>2. AfterHops.failures = none
  BY <1>1, SMT DEF GateType
<1>3. QED
  BY <1>2 DEF none

\* A call that comes back with success.
LEMMA SucceededCall ==
    ASSUME TypeOK, CallInv, StreamInv, MapInv, Stream, ~Idle,
           ReturnPending \/ EmitPacket
    PROVE  Promise!PromiseNext /\ UNCHANGED resampler /\ Idle'
<1>1. /\ HistoryType /\ PathIsCurrent /\ UNCHANGED layout /\ QuietInv
      /\ gate \in GateType /\ lanes \in LanesType
      /\ call \in CallType /\ ~Stopped /\ ~RateMismatch
  BY InCall DEF MapInv, StreamInv, PairInv, Stream, TypeOK
<1>2. UNCHANGED <<loaded, layout, resampler>>
  BY <1>1 DEF ReturnPending, EmitPacket, audio
<1>3. call.pc \in {"hops", "drain"}
  BY DEF ReturnPending, EmitPacket, HopsDone
<1>4. lanes'.taken > 0
  <2>1. lanes.taken > 0
    BY <1>1, <1>3 DEF QuietInv
  <2>2. CASE ReturnPending
    BY <2>1, <2>2 DEF ReturnPending, audio
  <2>3. CASE EmitPacket
    <3> DEFINE n == call.popped
    <3>1. lanes' = Popped(lanes, n)
      BY <2>3 DEF EmitPacket
    <3> HIDE DEF n
    <3>2. lanes'.taken = lanes.taken
      BY <1>1, <3>1, SMT DEF Popped, LanesType
    <3>3. QED
      BY <2>1, <3>2
  <2>4. QED
    BY <2>2, <2>3
<1>5. PICK used \in BOOLEAN, failing \in BOOLEAN : CallBegan(used, failing)
  BY DEF MapInv
<1>6. Began(used, failing)
  BY <1>5, Zenon DEF CallBegan, Began, MappedView
<1>7. call.hops \in Nat /\ gate.failures \in Nat
  BY <1>1, SMT DEF CallType, GateType, MaxFailures
<1>8. /\ result'.disposition \in {"Pending", "Processed"}
      /\ result'.refresh = FALSE /\ Idle' /\ gate'.reason = gate.reason
      /\ result'.hops = call.hops
      /\ call.hops > 0 => gate'.failures = 0
      /\ ~(call.hops > 0) => (gate'.failures > 0) = failing
  <2>1. CASE ReturnPending
    <3>1. Return(AfterHops, "Pending", "None", FALSE, call.hops, 0, 0)
      BY <2>1 DEF ReturnPending
    <3>2. AfterHops \in GateType /\ AfterHops.reason = gate.reason
      BY <1>1, AfterHopsType
    <3>3. /\ result'.disposition = "Pending"
          /\ result'.refresh = FALSE /\ Idle' /\ gate'.reason = gate.reason
          /\ result'.hops = call.hops /\ gate'.failures = AfterHops.failures
      BY <3>1, <3>2, ReturnedAnswer
    <3>4. call.pc # "drain"
      BY <2>1, SMT DEF ReturnPending, HopsDone
    <3>5. failing = (gate.failures > 0)
      BY <1>5, <3>4, Zenon DEF CallBegan
    <3>6. call.hops > 0 => AfterHops.failures = 0
      BY <1>1, AfterHopsZero
    <3>7. ~(call.hops > 0) => AfterHops = gate
      BY Zenon DEF AfterHops
    <3>8. QED
      BY <3>3, <3>5, <3>6, <3>7, Zenon
  <2>2. CASE EmitPacket
    <3>1. Return(gate, "Processed", "None", FALSE, call.hops, call.popped,
                 call.start - Latency(resampler))
      BY <2>2 DEF EmitPacket
    <3> DEFINE start == call.start - Latency(resampler)
    <3> HIDE DEF start
    <3>2. /\ result'.disposition = "Processed"
          /\ result'.refresh = FALSE /\ Idle' /\ gate'.reason = gate.reason
          /\ result'.hops = call.hops /\ gate'.failures = gate.failures
      BY <1>1, <3>1, ReturnedAnswer DEF start
    <3>3. call.pc = "drain"
      BY <2>2 DEF EmitPacket
    <3>4. /\ call.hops > 0 => gate.failures = 0
          /\ ~(call.hops > 0) => failing = (gate.failures > 0)
      BY <1>5, <3>3, Zenon DEF CallBegan
    <3>5. QED
      BY <3>2, <3>4, Zenon
  <2>3. QED
    BY <2>1, <2>2
<1>9. fed' = (fed \/ resampler.path)
  BY <1>8, Zenon DEF Stream
<1>10. \/ Measured(result') /\ gate'.failures = 0
       \/ ~Measured(result') /\ (gate'.failures > 0) = failing
  <2>1. Measured(result') <=> call.hops > 0
    BY <1>8, Zenon DEF Measured
  <2>2. QED
    BY <1>8, <2>1, Zenon
<1>11. ~result'.refresh /\ result'.refresh \in BOOLEAN
  BY <1>8
<1>12. Promise!PromiseNext
  BY <1>1, <1>2, <1>4, <1>6, <1>8, <1>9, <1>10, <1>11, SucceededStep
<1>13. QED
  BY <1>2, <1>8, <1>12

\* What a step within a call leaves as it was, and what it may change.
LEMMA InnerStep ==
    ASSUME TypeOK, CallInv, StreamInv, MapInv, Stream, Remembered, ~Idle,
           TakeInput \/ DiscardHop \/ EmitHop \/ StartDrain \/ DrainInfo
    PROVE  CallStep
<1>1. /\ HistoryType /\ UNCHANGED layout /\ QuietInv
      /\ gate \in GateType /\ call \in CallType
      /\ resampler \in ResamplerType
  BY DEF MapInv, StreamInv, Stream, TypeOK
<1>2. /\ UNCHANGED <<loaded, result>>
      /\ result.disposition = "NoCall"
  BY <1>1 DEF QuietInv, TakeInput, DiscardHop, EmitHop, StartDrain,
              DrainInfo
<1>3. fed' = fed
  BY <1>1, <1>2, NotFed
<1>4. /\ resampler'.rate = resampler.rate
      /\ resampler'.valid = resampler.valid
      /\ resampler'.pair = resampler.pair
  <2>1. CASE TakeInput
    <3>1. PICK arrived : resampler' = FedInput(resampler, call.frames, arrived)
      BY <2>1, Zenon DEF TakeInput
    <3> DEFINE held == resampler.inHeld + call.frames - arrived
    <3>2. resampler' = [resampler EXCEPT !.inHeld = held]
      BY <3>1 DEF FedInput
    <3> HIDE DEF held
    <3>3. QED
      BY <1>1, <3>2, SMT DEF ResamplerType
  <2>2. CASE EmitHop
    <3>1. PICK out : resampler' = FedOutput(resampler, out)
      BY <2>2, Zenon DEF EmitHop
    <3> DEFINE held == resampler.outHeld + Hop - out
    <3>2. resampler' = [resampler EXCEPT !.outHeld = held]
      BY <3>1 DEF FedOutput
    <3> HIDE DEF held
    <3>3. QED
      BY <1>1, <3>2, SMT DEF ResamplerType
  <2>3. CASE DiscardHop \/ StartDrain \/ DrainInfo
    BY <2>3 DEF DiscardHop, StartDrain, DrainInfo, audio
  <2>4. QED
    BY <2>1, <2>2, <2>3
<1>5. /\ gate'.reason = gate.reason
      /\ ~StartDrain => gate'.failures = gate.failures
      /\ StartDrain => gate' = AfterHops
  <2>1. CASE TakeInput
    <3> DEFINE no == FALSE
    <3>1. gate' = [gate EXCEPT !.recovering = no] /\ call'.pc = "hops"
      BY <1>1, <2>1, SMT DEF TakeInput, CallType
    <3> HIDE DEF no
    <3>2. gate'.reason = gate.reason /\ gate'.failures = gate.failures
      BY <1>1, <3>1, SMT DEF GateType
    <3>3. ~StartDrain
      BY <2>1, SMT DEF TakeInput, Admitting, StartDrain, HopsDone
    <3>4. QED
      BY <3>2, <3>3
  <2>2. CASE StartDrain
    BY <1>1, <2>2, AfterHopsType DEF StartDrain
  <2>3. CASE DiscardHop \/ EmitHop \/ DrainInfo
    <3>1. gate' = gate
      BY <2>3 DEF DiscardHop, EmitHop, DrainInfo
    <3>2. StartDrain => gate' = AfterHops
      BY DEF StartDrain
    <3>3. QED
      BY <3>1, <3>2
  <2>4. QED
    BY <2>1, <2>2, <2>3
<1>6. Frame
  BY <1>1, <1>2, <1>3, <1>4, <1>5 DEF Frame
<1>7. /\ call'.pc \in {"hops", "drain"}
      /\ ~StartDrain => (call.pc = "drain" <=> call'.pc = "drain")
      /\ call.pc = "drain" => call'.hops = call.hops
      /\ StartDrain => /\ call.pc = "hops" /\ call'.pc = "drain"
                       /\ call'.hops = call.hops
  <2>1. CASE TakeInput
    <3>1. call' = [call EXCEPT !.pc = "hops"] /\ call.pc = "admit"
      BY <2>1 DEF TakeInput, Admitting
    <3>2. call'.pc = "hops" /\ ~StartDrain
      BY <1>1, <3>1, SMT DEF CallType, StartDrain, HopsDone
    <3>3. QED
      BY <3>1, <3>2, SMT
  <2>2. CASE DiscardHop \/ EmitHop
    <3> DEFINE n == call.hops + 1
    <3>1. call' = [call EXCEPT !.hops = n] /\ call.pc = "hops"
      BY <2>2 DEF DiscardHop, EmitHop, Hopping
    <3>2. ~StartDrain
      BY <2>2 DEF DiscardHop, EmitHop, Hopping, StartDrain, HopsDone
    <3> HIDE DEF n
    <3>3. call'.pc = "hops"
      BY <1>1, <3>1, SMT DEF CallType
    <3>4. QED
      BY <3>1, <3>2, <3>3, SMT
  <2>3. CASE StartDrain
    <3> DEFINE d == "drain"  m == Available(lanes)  s == OutputStart(lanes)
               z == 0
    <3>1. /\ call' = [call EXCEPT !.pc = d, !.missing = m, !.start = s,
                                  !.popped = z]
          /\ call.pc = "hops"
      BY <2>3 DEF StartDrain, HopsDone
    <3> HIDE DEF d, m, s, z
    <3>2. call'.pc = d /\ call'.hops = call.hops
      BY <1>1, <3>1, SMT DEF CallType
    <3>3. QED
      BY <2>3, <3>1, <3>2, SMT DEF d
  <2>4. CASE DrainInfo
    <3> DEFINE share == Share(lanes, call.missing)
               m == call.missing - share  p == call.popped + share
    <3>1. /\ call' = [call EXCEPT !.missing = m, !.popped = p]
          /\ call.pc = "drain"
      BY <2>4 DEF DrainInfo
    <3>2. ~StartDrain
      BY <3>1, SMT DEF StartDrain, HopsDone
    <3> HIDE DEF m, p
    <3>3. call'.pc = call.pc /\ call'.hops = call.hops
      BY <1>1, <3>1, SMT DEF CallType
    <3>4. QED
      BY <3>1, <3>2, <3>3
  <2>5. QED
    BY <2>1, <2>2, <2>3, <2>4
<1>8. ~Idle' /\ call'.pc # "admit" /\ known' = known
  <2>1. ~Idle' /\ call'.pc # "admit"
    BY <1>7, SMT DEF Idle
  <2>2. QED
    BY <2>1 DEF Remembered
<1>9. UNCHANGED <<MappedView, MappedAnswer>>
  BY <1>8, GoingOn
<1>10. PICK used \in BOOLEAN, failing \in BOOLEAN : CallBegan(used, failing)
  BY DEF MapInv
<1>11. known'.view = ViewWith(used, failing)'
  BY <1>6, <1>8, <1>10, FramedView DEF CallBegan
<1>12. IF call'.pc = "drain" /\ call'.hops > 0 THEN gate'.failures = 0
       ELSE failing = (gate'.failures > 0)
  <2>1. CASE StartDrain
    <3>1. failing = (gate.failures > 0)
      <4>1. call.pc # "drain"
        BY <1>7, <2>1, SMT
      <4>2. QED
        BY <1>10, <4>1, Zenon DEF CallBegan
    <3>2. CASE call.hops > 0
      BY <1>1, <1>5, <1>7, <2>1, <3>2, AfterHopsZero, Zenon
    <3>3. CASE ~(call.hops > 0)
      <4>1. AfterHops = gate
        BY <3>3, Zenon DEF AfterHops
      <4>2. QED
        BY <1>5, <1>7, <2>1, <3>1, <3>3, <4>1, Zenon
    <3>4. QED
      BY <3>2, <3>3
  <2>2. CASE ~StartDrain /\ call.pc = "drain"
    BY <1>5, <1>7, <1>10, <2>2, Zenon DEF CallBegan
  <2>3. CASE ~StartDrain /\ call.pc # "drain"
    BY <1>5, <1>7, <1>10, <2>3, Zenon DEF CallBegan
  <2>4. QED
    BY <2>1, <2>2, <2>3
<1>13. CallBegan(used, failing)'
  BY <1>8, <1>11, <1>12, Zenon DEF CallBegan
<1>14. QED
  BY <1>4, <1>9, <1>13, Zenon DEF CallStep

\* A call that goes on, comes back with success, or fails.
LEMMA ContinueStep ==
    ASSUME TypeOK, CallInv, StreamInv, ReportedInv, MapInv, Stream,
           Remembered, Continue
    PROVE  CallStep
<1>1. /\ HistoryType /\ PathIsCurrent /\ UNCHANGED layout /\ QuietInv
      /\ gate \in GateType /\ resampler \in ResamplerType
      /\ loaded \in BOOLEAN
  BY DEF MapInv, StreamInv, PairInv, Stream, TypeOK
<1>2. call.pc \in {"admit", "hops", "drain"}
  BY DEF Continue, RejectCapacity, InputResamplerFails, TakeInput,
         DiscardHop, EmitHop, InferenceFails, OutputResamplerFails,
         ReturnPending, StartDrain, DrainInfo, EmitPacket, Admitting,
         Hopping, HopsDone
<1>3. ~Idle
  BY <1>2, SMT DEF Idle
<1>4. ~Stopped /\ ~RateMismatch
  BY <1>3, InCall
<1>5. CASE TakeInput \/ DiscardHop \/ EmitHop \/ StartDrain \/ DrainInfo
  BY <1>3, <1>5, InnerStep
<1>6. CASE ReturnPending \/ EmitPacket
  <2>1. Promise!PromiseNext /\ UNCHANGED resampler /\ Idle'
    BY <1>3, <1>6, SucceededCall
  <2>2. QED
    BY <2>1, Zenon DEF CallStep
<1>7. CASE RejectCapacity
  <2> DEFINE no == FALSE
  <2>1. no \in BOOLEAN /\ CapacityFailure(no) /\ call.pc = "admit"
    BY <1>7 DEF RejectCapacity, Admitting
  <2> HIDE DEF no
  <2>2. /\ \/ gate.recovering /\ UNCHANGED <<lanes, resampler>>
                              /\ ~result'.refresh
           \/ GivesUp(resampler.path) /\ result'.refresh = resampler.path
        /\ Idle' /\ result'.disposition = "Passthrough"
    BY <1>1, <2>1, CapacityLeaves
  <2>3. fed' = fed /\ resampler'.pair = resampler.pair
    BY <1>1, <2>2, NotFed DEF GivesUp
  <2>4. PICK used \in BOOLEAN, failing \in BOOLEAN :
           /\ Began(used, failing) /\ failing = (gate.failures > 0)
           /\ gate.recovering => ~used
    BY <2>1, BeganHere
  <2>5. Promise!PromiseNext
    BY <1>1, <1>4, <2>1, <2>3, <2>4, TurnedAwayStep
  <2>6. QED
    BY <2>2, <2>3, <2>5, Zenon DEF CallStep
<1>8. CASE InputResamplerFails \/ InferenceFails \/ OutputResamplerFails
  <2>1. PICK hops : FailureResult(hops)
    BY <1>8, Zenon DEF InputResamplerFails, InferenceFails,
                       OutputResamplerFails
  <2>2. call.pc = "admit" \/ call.pc = "hops"
    BY <1>8 DEF InputResamplerFails, InferenceFails, OutputResamplerFails,
                Admitting, Hopping
  <2>3. /\ GivesUp(resampler.path) /\ Idle'
        /\ result'.disposition = "Passthrough"
    BY <1>4, <2>1, FailureLeaves
  <2>4. fed' = fed /\ resampler'.pair = resampler.pair
    BY <1>1, <2>3, NotFed DEF GivesUp
  <2>5. PICK used \in BOOLEAN, failing \in BOOLEAN :
           Began(used, failing) /\ failing = (gate.failures > 0)
    BY <2>2, BeganHere
  <2>6. Promise!PromiseNext
    BY <1>1, <1>4, <2>1, <2>4, <2>5, FailedStep
  <2>7. QED
    BY <2>3, <2>4, <2>6, Zenon DEF CallStep
<1>9. QED
  BY <1>5, <1>6, <1>7, <1>8 DEF Continue

-----------------------------------------------------------------------------
(***************************************************************************)
(* Every step, and the refinement.                                         *)
(***************************************************************************)
\* The methods that run between two calls.
LEMMA BetweenCalls ==
    ASSUME Upkeep \/ NewFormat \/ NewPair
    PROVE  Idle /\ Idle'
<1>1. Idle /\ UNCHANGED call
  BY Zenon DEF Upkeep, NewFormat, NewPair, DisableForRealtimeOverload,
         ResumeAfterOverload, ResetState, EndStream, SetControls, SetFormat,
         ReplaceResamplers, ReleaseInvalidResamplers, ActivateModel, Between
<1>2. QED
  BY <1>1 DEF Idle

\* The guard, resets and controls.
LEMMA UpkeepStep ==
    ASSUME TypeOK, MapInv, Upkeep
    PROVE  /\ Promise!PromiseNext
           /\ HistoryType' /\ FedInv'
<1>1. /\ resampler \in ResamplerType /\ loaded \in BOOLEAN
      /\ UNCHANGED <<layout, fed>> /\ HistoryType /\ FedInv
  BY DEF TypeOK, MapInv, Upkeep
<1>2. CASE DisableForRealtimeOverload \/ ResumeAfterOverload
  <2>1. UNCHANGED resampler
    BY <1>2 DEF DisableForRealtimeOverload, ResumeAfterOverload, audio
  <2>2. QED
    BY <1>1, <1>2, <2>1, OverloadStep DEF HistoryType, FedInv
<1>3. CASE ResetState \/ EndStream \/ SetControls
  <2>1. resampler'.pair = resampler.pair
    <3>1. CASE SetControls
      BY <3>1 DEF SetControls, audio
    <3>2. CASE ResetState \/ EndStream
      <4>1. PICK reason : ResetAudio(resampler, reason, loaded)
        BY <3>2 DEF ResetState, EndStream
      <4>2. QED
        BY <1>1, <4>1, ResetFields
    <3>3. QED
      BY <1>3, <3>1, <3>2
  <2>2. QED
    BY <1>1, <1>3, <2>1, RestartStep DEF HistoryType, FedInv
<1>4. QED
  BY <1>2, <1>3 DEF Upkeep

\* A new format.
LEMMA NewFormatStep ==
    ASSUME TypeOK, MapInv, NewFormat
    PROVE  /\ Promise!PromiseNext
           /\ HistoryType' /\ FedInv'
<1>1. /\ resampler \in ResamplerType /\ loaded \in BOOLEAN
      /\ UNCHANGED fed /\ HistoryType /\ FedInv
  BY DEF TypeOK, MapInv, NewFormat
<1>2. PICK rate \in Rates :
         SetFormat(rate) /\ layout' = (layout # (rate = resampler.rate))
  BY DEF NewFormat
<1>3. Promise!PromiseNext
  BY <1>1, <1>2, FormatStep
<1>4. layout' \in BOOLEAN
  BY <1>2
<1> DEFINE stale == loaded /\ (rate # ModelRate \/ resampler.pair # NoRate)
           r == [Invalidated(stale) EXCEPT !.rate = rate]
<1>5. ResetAudio(r, gate.reason, loaded)
  BY <1>2 DEF SetFormat
<1>6. stale \in BOOLEAN
  BY <1>1
<1> HIDE DEF stale
<1>7. /\ Invalidated(stale) \in ResamplerType
      /\ Invalidated(stale).pair = resampler.pair
  BY <1>1, <1>6, InvalidatedFields
<1>8. r \in ResamplerType
  BY <1>2, <1>7, ResamplerSetters
<1>9. r.pair = resampler.pair
  BY <1>7, SMT DEF ResamplerType
<1> HIDE DEF r
<1>10. resampler'.pair = resampler.pair
  BY <1>1, <1>5, <1>8, <1>9, ResetFields
<1>11. QED
  BY <1>1, <1>3, <1>4, <1>10 DEF HistoryType, FedInv

\* A new pair, with or without a new model.
LEMMA NewPairStep ==
    ASSUME TypeOK, MapInv, NewPair
    PROVE  /\ Promise!PromiseNext
           /\ HistoryType' /\ FedInv'
<1>1. /\ HistoryType /\ FedInv /\ resampler.rate \in Rates
      /\ fed' = FALSE /\ UNCHANGED layout
  BY Zenon DEF TypeOK, ResamplerType, MapInv, NewPair
<1>2. /\ NoPair \in Pairs
      /\ \A rate \in Rates : FreshPairs(rate) \subseteq Pairs
  BY DEF Pairs
<1>3. \/ \E pair \in Pairs : ReplaceResamplers(pair) \/ ActivateModel(pair)
      \/ ReleaseInvalidResamplers
  <2>1. CASE ReplaceResamplers(NoPair) \/ ActivateModel(NoPair)
    BY <1>2, <2>1
  <2>2. CASE \E rate \in Rates \ {ModelRate} :
                \E pair \in FreshPairs(rate) : ReplaceResamplers(pair)
    BY <1>2, <2>2
  <2>3. CASE \E pair \in FreshPairs(resampler.rate) : ActivateModel(pair)
    BY <1>1, <1>2, <2>3
  <2>4. QED
    BY <2>1, <2>2, <2>3 DEF NewPair
<1>4. Promise!PromiseNext
  BY <1>1, <1>3, ReplaceStep, ReleaseStep, ActivateStep
<1>5. QED
  BY <1>1, <1>4 DEF HistoryType, FedInv

\* A step of Processor is one step of the promise, or none.
LEMMA HistoryStep ==
    ASSUME TypeOK, CallInv, StreamInv, ReportedInv, MapInv,
           [HistoryNext]_historyVars
    PROVE  MapInv' /\ [Promise!PromiseNext]_<<MappedView, MappedAnswer>>
<1>1. CASE UNCHANGED historyVars
  <2>1. UNCHANGED <<lanes, spectrum, resampler, gate, loaded, audible,
                    haveTs, call, result, voice, layout, fed, known>>
    BY <1>1 DEF historyVars, history, vars
  <2>2. MapInv'
    BY <2>1 DEF MapInv, HistoryType, FedInv, CallBegan, Idle, Now, ViewNow,
                AnswerNow, Measured, ViewWith, View
  <2>3. UNCHANGED <<MappedView, MappedAnswer>>
    BY <2>1 DEF MappedView, MappedAnswer, ViewNow, AnswerNow, Measured, Idle
  <2>4. QED
    BY <2>2, <2>3
<1>2. ASSUME HistoryNext, Idle', HistoryType', FedInv'
      PROVE  MapInv'
  <2>1. known' = Now'
    BY <1>2, Zenon DEF HistoryNext
  <2>2. QED
    BY <1>2, <2>1 DEF MapInv
<1>3. CASE HistoryNext /\ Stream
  <2>1. Remembered
    BY <1>3 DEF HistoryNext, Remembered
  <2>2. CallStep
    BY <1>3, <2>1, ArriveStep, ContinueStep DEF Stream
  <2>3. HistoryType'
    <3>1. HistoryType /\ resampler.path \in BOOLEAN
      BY Zenon DEF MapInv, TypeOK, ResamplerType
    <3>2. QED
      BY <1>3, <3>1 DEF Stream, HistoryType
  <2>4. FedInv'
    <3>1. FedInv /\ (resampler.path => resampler.pair # NoRate)
      BY DEF MapInv, StreamInv, PairInv, PathIsCurrent, PathOf
    <3>2. fed' => fed \/ resampler.path
      BY <1>3, Zenon DEF Stream
    <3>3. resampler'.pair = resampler.pair
      BY <2>2 DEF CallStep
    <3>4. QED
      BY <3>1, <3>2, <3>3 DEF FedInv
  <2>5. MapInv'
    <3>1. CASE Idle'
      BY <1>2, <1>3, <2>3, <2>4, <3>1
    <3>2. CASE ~Idle'
      BY <2>2, <2>3, <2>4, <3>2 DEF CallStep, MapInv
    <3>3. QED
      BY <3>1, <3>2
  <2>6. QED
    BY <2>2, <2>5 DEF CallStep
<1>4. CASE HistoryNext /\ (Upkeep \/ NewFormat \/ NewPair)
  <2>1. Promise!PromiseNext /\ HistoryType' /\ FedInv'
    BY <1>4, UpkeepStep, NewFormatStep, NewPairStep
  <2>2. Idle'
    BY <1>4, BetweenCalls
  <2>3. QED
    BY <1>2, <1>4, <2>1, <2>2
<1>5. QED
  BY <1>1, <1>3, <1>4 DEF HistoryNext

\* The history variables only watch: leaving them out, it is Processor.
LEMMA HistoryWatches == HistorySpec => Spec
<1>1. HistoryInit => Init
  BY DEF HistoryInit
<1>2. [HistoryNext]_historyVars => [Next]_vars
  <2>1. HistoryNext => Next
    <3>1. Stream => Next
      BY DEF Stream, Next
    <3>2. Upkeep \/ NewFormat \/ NewPair => Others
      BY Zenon DEF Upkeep, NewFormat, NewPair, Others
    <3>3. QED
      BY <3>1, <3>2 DEF HistoryNext, Next
  <2>2. UNCHANGED historyVars => UNCHANGED vars
    BY DEF historyVars
  <2>3. QED
    BY <2>1, <2>2
<1>3. QED
  BY <1>1, <1>2, PTL DEF HistorySpec, Spec

\* A processor without a model is what the promise starts with.
LEMMA HistoryStarts ==
    ASSUME HistoryInit
    PROVE  MapInv /\ Promise!PromiseInit
<1>1. Init /\ layout = FALSE /\ fed = FALSE /\ known = Now
  BY DEF HistoryInit
<1>2. Idle
  BY <1>1, NoCallIdle DEF Init, Idle
<1>3. PICK rate \in Rates :
         resampler = [rate |-> rate, valid |-> TRUE, path |-> FALSE,
                      pair |-> NoRate, inHeld |-> 0, outHeld |-> 0,
                      inPrimed |-> 0, outPrimed |-> 0]
  BY <1>1 DEF Init
<1>4. MapInv
  BY <1>1, <1>2 DEF MapInv, HistoryType, FedInv
<1>5. MappedView = Promise!FirstView(<<rate, FALSE>>)
  <2>1. /\ resampler.rate = rate /\ resampler.valid = TRUE
        /\ resampler.pair = NoRate
    BY <1>3, Zenon
  <2>2. /\ loaded = FALSE /\ (lanes.taken > 0) = FALSE
        /\ gate.reason = "None" /\ (gate.failures > 0) = FALSE
    BY <1>1, SMT DEF Init, EmptyLanes, FreshGate
  <2>3. ViewNow = [format |-> <<rate, FALSE>>, model |-> "none",
                   valid |-> TRUE, pair |-> EmptyPair, used |-> FALSE,
                   fed |-> FALSE, reason |-> "None", failing |-> FALSE]
    BY <1>1, <2>1, <2>2, Zenon DEF ViewNow, AsPair
  <2>4. QED
    BY <1>2, <2>3, Zenon DEF MappedView, Promise!FirstView
<1>6. MappedAnswer = Promise!NoAnswer
  <2>1. result = NoResult
    BY <1>1 DEF Init
  <2>2. /\ (result.event # "None") = FALSE /\ result.refresh = FALSE
        /\ Measured(result) = FALSE
    BY <2>1, SMT DEF NoResult, Measured
  <2>3. QED
    BY <1>2, <2>2, Zenon DEF MappedAnswer, AnswerNow, Promise!NoAnswer
<1>7. <<rate, FALSE>> \in Rates \X BOOLEAN
  OBVIOUS
<1>8. QED
  BY <1>4, <1>5, <1>6, <1>7, Zenon DEF Promise!PromiseInit, MappedView,
                                      MappedAnswer

\* Whatever happens inside process(), and whatever the other methods do in
\* between, the filter sees the outcomes that ProcessorPromise lists: the
\* detailed model implements the view that Filter is built on.
THEOREM PromiseIsKept == HistorySpec => KeepsPromise
<1>1. HistoryInit => MapInv /\ Promise!PromiseInit
  BY HistoryStarts
<1>2. TypeOK /\ CallInv /\ StreamInv /\ ReportedInv /\ MapInv
        /\ [HistoryNext]_historyVars
        => MapInv' /\ [Promise!PromiseNext]_<<MappedView, MappedAnswer>>
  BY HistoryStep
<1>3. HistorySpec => [](TypeOK /\ CallInv /\ StreamInv /\ ReportedInv)
  BY HistoryWatches, StreamInvariant, ReportedInvariant, PTL
<1>4. QED
  BY <1>1, <1>2, <1>3, PTL DEF HistorySpec, KeepsPromise,
     Promise!PromiseSpec, MappedView, MappedAnswer
=============================================================================
