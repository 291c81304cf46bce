---------------------------- MODULE FilterProofs ----------------------------
(***************************************************************************)
(* What holds of the filter (module Filter) for any number of calling      *)
(* threads, any formats, models and event slots: its variables keep their  *)
(* types, a status line is written of a model that is still loaded, the    *)
(* retry schedule never runs ahead of what was posted, its delay is the    *)
(* one of the attempt that is due, no event is lost between the audio      *)
(* thread and the log, and, as long as no reset() interferes, a pause      *)
(* always has its retry coming; a stream starts through a pair that holds  *)
(* nothing, and a pair it lacks is on its way, where the failures and      *)
(* races that the findings describe are left out.                          *)
(*                                                                         *)
(* The inductive invariant is FilterInv: the types; ClientInv, that what a *)
(* call prepared is what its section installs; PostsInv, that what the     *)
(* audio thread has left to post is one result, or the event a pause       *)
(* displaced and then the pause; LockInv, that the holder of update_mutex_ *)
(* and nobody else is in a step that needs it.  HandInv, what a call has   *)
(* read that still holds when it installs, carries the last two.           *)
(***************************************************************************)
EXTENDS Filter, SequenceTheorems, TLAPS
-----------------------------------------------------------------------------
(***************************************************************************)
(* The processor as the filter sees it: what each method keeps.            *)
(***************************************************************************)
\* A field of the processor set to a value of its kind leaves a processor.
LEMMA ViewSetters ==
    ASSUME NEW v \in ViewType
    PROVE  /\ \A x \in Formats : [v EXCEPT !.format = x] \in ViewType
           /\ \A x \in Paths : [v EXCEPT !.model = x] \in ViewType
           /\ \A x \in Pairs : [v EXCEPT !.pair = x] \in ViewType
           /\ \A x \in Reasons : [v EXCEPT !.reason = x] \in ViewType
           /\ \A x \in BOOLEAN :
                /\ [v EXCEPT !.valid = x] \in ViewType
                /\ [v EXCEPT !.used = x] \in ViewType
                /\ [v EXCEPT !.fed = x] \in ViewType
                /\ [v EXCEPT !.failing = x] \in ViewType
<1>1. \A x \in Formats : [v EXCEPT !.format = x] \in ViewType
  BY SMT DEF ViewType
<1>2. \A x \in Paths : [v EXCEPT !.model = x] \in ViewType
  BY SMT DEF ViewType, Paths
<1>3. \A x \in Pairs : [v EXCEPT !.pair = x] \in ViewType
  <2> SUFFICES ASSUME NEW x \in Pairs PROVE [v EXCEPT !.pair = x] \in ViewType
    OBVIOUS
  <2>1. QED
    BY SMT DEF ViewType
<1>4. \A x \in Reasons : [v EXCEPT !.reason = x] \in ViewType
  BY SMT DEF ViewType
<1>5. \A x \in BOOLEAN :
        /\ [v EXCEPT !.valid = x] \in ViewType
        /\ [v EXCEPT !.used = x] \in ViewType
        /\ [v EXCEPT !.fed = x] \in ViewType
        /\ [v EXCEPT !.failing = x] \in ViewType
  BY SMT DEF ViewType
<1>6. QED
  BY <1>1, <1>2, <1>3, <1>4, <1>5

\* The fields that say which stream and model it is, and why it is off.
SameRun(w, v) == w.format = v.format /\ w.model = v.model

\* The fields of the processor are in their sets.
LEMMA ViewFields ==
    ASSUME NEW v \in ViewType
    PROVE  /\ v.format \in Formats /\ v.model \in Paths /\ v.pair \in Pairs
           /\ v.reason \in Reasons /\ v.valid \in BOOLEAN
           /\ v.used \in BOOLEAN /\ v.fed \in BOOLEAN /\ v.failing \in BOOLEAN
BY Zenon DEF ViewType, Paths

\* The reasons processing may be off differ from one another.
LEMMA ReasonsAre ==
    /\ "None" \in Reasons /\ "RealtimeOverload" \in Reasons
    /\ "RepeatedProcessingFailures" \in Reasons
    /\ "None" # "RealtimeOverload" /\ "None" # "RepeatedProcessingFailures"
    /\ "RepeatedProcessingFailures" # "RealtimeOverload"
BY SMT DEF Reasons

\* A value as the setters build it, one field after the other, and the
\* fields they leave.
LEMMA SetFormatView ==
    ASSUME NEW v \in ViewType, NEW f \in Formats
    PROVE  /\ SetFormat(v, f) \in ViewType
           /\ SetFormat(v, f).model = v.model
           /\ SetFormat(v, f).format = f
           /\ SetFormat(v, f).reason = v.reason
<1>1. CASE f = v.format
  BY <1>1 DEF SetFormat
<1>2. CASE f # v.format
  <2> DEFINE valid == v.valid /\ ~(/\ Loaded(v)
                                   /\ \/ Resamples(f, v.model)
                                      \/ v.pair # NoPair)
             w == [v EXCEPT !.format = f, !.used = FALSE, !.valid = valid]
  <2>1. SetFormat(v, f) = w
    BY <1>2 DEF SetFormat
  <2>2. valid \in BOOLEAN
    OBVIOUS
  <2> HIDE DEF valid
  <2>3. [v EXCEPT !.format = f] \in ViewType
    BY ViewSetters
  <2>4. [[v EXCEPT !.format = f] EXCEPT !.used = FALSE] \in ViewType
    BY <2>3, ViewSetters
  <2>5. [[[v EXCEPT !.format = f] EXCEPT !.used = FALSE]
           EXCEPT !.valid = valid] \in ViewType
    BY <2>2, <2>4, ViewSetters
  <2>6. w \in ViewType
    BY <2>5, Zenon
  <2>7. w.model = v.model /\ w.format = f /\ w.reason = v.reason
    BY SMT DEF ViewType
  <2>8. QED
    BY <2>1, <2>6, <2>7
<1>3. QED
  BY <1>1, <1>2

\* A model that is replaced starts with nothing against it.
LEMMA ReplaceModelView ==
    ASSUME NEW v \in ViewType, NEW m \in Paths
    PROVE  /\ ReplaceModel(v, m) \in ViewType
           /\ ReplaceModel(v, m).reason = "None"
           /\ ReplaceModel(v, m).format = v.format
           /\ ReplaceModel(v, m).model = m
<1> DEFINE w == [v EXCEPT !.model = m, !.used = FALSE, !.reason = "None",
                          !.failing = FALSE]
           a == [v EXCEPT !.model = m]
           b == [a EXCEPT !.used = FALSE]
           c == [b EXCEPT !.reason = "None"]
           d == [c EXCEPT !.failing = FALSE]
<1>1. ReplaceModel(v, m) = w
  BY DEF ReplaceModel
<1>2. a \in ViewType
  BY ViewSetters
<1> HIDE DEF a
<1>3. b \in ViewType
  BY <1>2, ViewSetters
<1> HIDE DEF b
<1>4. c \in ViewType
  BY <1>3, ReasonsAre, ViewSetters
<1> HIDE DEF c
<1>5. d \in ViewType
  BY <1>4, ViewSetters
<1>6. d = w
  BY Zenon DEF a, b, c
<1>7. w.reason = "None" /\ w.format = v.format /\ w.model = m
  BY SMT DEF ViewType
<1>8. QED
  BY <1>1, <1>5, <1>6, <1>7

\* A pair that is replaced leaves the stream, the model and the reason.
LEMMA ReplaceResamplersView ==
    ASSUME NEW v \in ViewType, NEW p \in Pairs
    PROVE  /\ ReplaceResamplers(v, p) \in ViewType
           /\ ReplaceResamplers(v, p).reason = v.reason
           /\ SameRun(ReplaceResamplers(v, p), v)
<1> DEFINE u == [v EXCEPT !.valid = TRUE]
           w == [v EXCEPT !.pair = p, !.valid = TRUE, !.used = FALSE,
                          !.fed = FALSE]
           a == [v EXCEPT !.pair = p]
           b == [a EXCEPT !.valid = TRUE]
           c == [b EXCEPT !.used = FALSE]
           d == [c EXCEPT !.fed = FALSE]
<1>1. ReplaceResamplers(v, p) = u \/ ReplaceResamplers(v, p) = w
  BY DEF ReplaceResamplers
<1>2. u \in ViewType
  BY ViewSetters
<1>3. u.reason = v.reason /\ u.format = v.format /\ u.model = v.model
  BY SMT DEF ViewType
<1>4. w.reason = v.reason /\ w.format = v.format /\ w.model = v.model
  BY SMT DEF ViewType
<1>5. a \in ViewType
  BY ViewSetters
<1> HIDE DEF a
<1>6. b \in ViewType
  BY <1>5, ViewSetters
<1> HIDE DEF b
<1>7. c \in ViewType
  BY <1>6, ViewSetters
<1> HIDE DEF c
<1>8. d \in ViewType
  BY <1>7, ViewSetters
<1>9. d = w
  BY Zenon DEF a, b, c
<1> HIDE DEF u, w
<1>10. QED
  BY <1>1, <1>2, <1>3, <1>4, <1>8, <1>9 DEF SameRun

\* So does a pair that is released because nothing can use it.
LEMMA ReleaseView ==
    ASSUME NEW v \in ViewType
    PROVE  /\ ReleaseInvalidResamplers(v) \in ViewType
           /\ ReleaseInvalidResamplers(v).reason = v.reason
           /\ SameRun(ReleaseInvalidResamplers(v), v)
<1> DEFINE w == [v EXCEPT !.pair = NoPair, !.valid = TRUE, !.fed = FALSE]
           a == [v EXCEPT !.pair = NoPair]
           b == [a EXCEPT !.valid = TRUE]
           c == [b EXCEPT !.fed = FALSE]
<1>1. NoPair \in Pairs
  BY DEF Pairs
<1>2. \/ ReleaseInvalidResamplers(v) = v
      \/ ReleaseInvalidResamplers(v) = w
  BY DEF ReleaseInvalidResamplers
<1>3. w.reason = v.reason /\ w.format = v.format /\ w.model = v.model
  BY SMT DEF ViewType
<1>4. a \in ViewType
  BY <1>1, ViewSetters
<1> HIDE DEF a
<1>5. b \in ViewType
  BY <1>4, ViewSetters
<1> HIDE DEF b
<1>6. c \in ViewType
  BY <1>5, ViewSetters
<1>7. c = w
  BY Zenon DEF a, b
<1> HIDE DEF w
<1>8. QED
  BY <1>2, <1>3, <1>6, <1>7 DEF SameRun

\* What the resets, the pause and its end make of the processor.
LEMMA ResetsView ==
    ASSUME NEW v \in ViewType
    PROVE  /\ ResetState(v) \in ViewType /\ ResetState(v).reason = "None"
           /\ SameRun(ResetState(v), v)
           /\ ResetStream(v) \in ViewType /\ ResetStream(v).reason = v.reason
           /\ SameRun(ResetStream(v), v)
           /\ DisableForRealtimeOverload(v) \in ViewType
           /\ DisableForRealtimeOverload(v).reason = "RealtimeOverload"
           /\ SameRun(DisableForRealtimeOverload(v), v)
           /\ ResumeAfterOverload(v) \in ViewType
           /\ ResumeAfterOverload(v).reason = "None"
           /\ SameRun(ResumeAfterOverload(v), v)
<1>1. ASSUME NEW r \in Reasons
      PROVE  /\ [v EXCEPT !.reason = r, !.failing = FALSE] \in ViewType
             /\ [v EXCEPT !.reason = r, !.failing = FALSE].reason = r
             /\ SameRun([v EXCEPT !.reason = r, !.failing = FALSE], v)
  <2> DEFINE a == [v EXCEPT !.reason = r]
             b == [a EXCEPT !.failing = FALSE]
             w == [v EXCEPT !.reason = r, !.failing = FALSE]
  <2>1. a \in ViewType
    BY ViewSetters
  <2> HIDE DEF a
  <2>2. b \in ViewType
    BY <2>1, ViewSetters
  <2>3. b = w
    BY Zenon DEF a
  <2>4. w.reason = r /\ w.format = v.format /\ w.model = v.model
    BY SMT DEF ViewType
  <2>5. QED
    BY <2>2, <2>3, <2>4, Zenon DEF SameRun
<1>2. /\ DisableForRealtimeOverload(v) \in ViewType
      /\ DisableForRealtimeOverload(v).reason = "RealtimeOverload"
      /\ SameRun(DisableForRealtimeOverload(v), v)
  BY <1>1, ReasonsAre, Zenon DEF DisableForRealtimeOverload
<1>3. /\ ResumeAfterOverload(v) \in ViewType
      /\ ResumeAfterOverload(v).reason = "None"
      /\ SameRun(ResumeAfterOverload(v), v)
  BY <1>1, ReasonsAre, Zenon DEF ResumeAfterOverload
<1>4. /\ ResetStream(v) \in ViewType /\ ResetStream(v).reason = v.reason
      /\ SameRun(ResetStream(v), v)
  <2> DEFINE w == [v EXCEPT !.used = FALSE]
  <2>1. w \in ViewType
    BY ViewSetters
  <2>2. w.reason = v.reason /\ w.format = v.format /\ w.model = v.model
    BY SMT DEF ViewType
  <2>3. QED
    BY <2>1, <2>2, Zenon DEF ResetStream, SameRun
<1>5. /\ ResetState(v) \in ViewType /\ ResetState(v).reason = "None"
      /\ SameRun(ResetState(v), v)
  <2> DEFINE a == [v EXCEPT !.used = FALSE]
             b == [a EXCEPT !.reason = "None"]
             c == [b EXCEPT !.failing = FALSE]
             w == [v EXCEPT !.used = FALSE, !.reason = "None",
                            !.failing = FALSE]
  <2>1. a \in ViewType
    BY ViewSetters
  <2> HIDE DEF a
  <2>2. b \in ViewType
    BY <2>1, ReasonsAre, ViewSetters
  <2> HIDE DEF b
  <2>3. c \in ViewType
    BY <2>2, ViewSetters
  <2>4. c = w
    BY Zenon DEF a, b
  <2>5. w.reason = "None" /\ w.format = v.format /\ w.model = v.model
    BY SMT DEF ViewType
  <2>6. QED
    BY <2>3, <2>4, <2>5, Zenon DEF ResetState, SameRun
<1>6. QED
  BY <1>2, <1>3, <1>4, <1>5

\* What process() comes back with.
Outcomes == [view : ViewType, event : BOOLEAN, refresh : BOOLEAN,
             hops : BOOLEAN]

Steady(w, v) == w \in ViewType /\ SameRun(w, v) /\ w.reason = v.reason

\* It changes neither stream nor model, and nothing but the circuit stops it.
Returns(o, v) ==
    /\ o \in Outcomes /\ SameRun(o.view, v)
    /\ \/ o.view.reason = v.reason
       \/ /\ o.view.reason = "RepeatedProcessingFailures"
          /\ o.event /\ ~o.hops

\* A result holds what it was made of.
LEMMA OutcomeFields ==
    ASSUME NEW w, NEW event, NEW refresh, NEW hops
    PROVE  /\ Outcome(w, event, refresh, hops).view = w
           /\ w \in ViewType /\ event \in BOOLEAN /\ refresh \in BOOLEAN
              /\ hops \in BOOLEAN
                => Outcome(w, event, refresh, hops) \in Outcomes
BY DEF Outcome, Outcomes

\* A step that keeps the stream comes back as a call to process() may.
LEMMA SteadyReturns ==
    ASSUME NEW v, NEW w, Steady(w, v), NEW event \in BOOLEAN,
           NEW refresh \in BOOLEAN
    PROVE  /\ Returns(Outcome(w, event, refresh, FALSE), v)
           /\ Returns(Outcome(w, event, FALSE, FALSE), v)
           /\ Returns(Outcome(w, event, FALSE, TRUE), v)
           /\ Returns(Outcome(w, TRUE, TRUE, FALSE), v)
<1>1. ASSUME NEW e \in BOOLEAN, NEW r \in BOOLEAN, NEW h \in BOOLEAN
      PROVE  Returns(Outcome(w, e, r, h), v)
  <2> DEFINE o == Outcome(w, e, r, h)
  <2>1. o \in Outcomes /\ o.view = w
    BY OutcomeFields DEF Steady
  <2> HIDE DEF o
  <2>2. Returns(o, v)
    BY <2>1, Zenon DEF Steady, Returns
  <2>3. QED
    BY <2>2 DEF o
<1> DEFINE yes == TRUE
           no  == FALSE
<1>2. yes \in BOOLEAN /\ no \in BOOLEAN
  OBVIOUS
<1> HIDE DEF yes, no
<1>3. /\ Returns(Outcome(w, event, refresh, no), v)
      /\ Returns(Outcome(w, event, no, no), v)
      /\ Returns(Outcome(w, event, no, yes), v)
      /\ Returns(Outcome(w, yes, yes, no), v)
  BY <1>1, <1>2, Zenon
<1>4. QED
  BY <1>3 DEF yes, no

\* Audio that is given up leaves the stream, the model and the reason.
LEMMA GivenUpView ==
    ASSUME NEW v \in ViewType
    PROVE  /\ Steady(GivenUp(v), v)
           /\ Steady([GivenUp(v) EXCEPT !.failing = TRUE], v)
<1> DEFINE valid == v.valid /\ ~Path(v)
           a == [v EXCEPT !.valid = valid]
           b == [a EXCEPT !.used = FALSE]
           w == GivenUp(v)
           u == [w EXCEPT !.failing = TRUE]
<1>1. w = [v EXCEPT !.valid = valid, !.used = FALSE]
  BY DEF GivenUp
<1>2. valid \in BOOLEAN
  OBVIOUS
<1> HIDE DEF valid
<1>3. a \in ViewType
  BY <1>2, ViewSetters
<1> HIDE DEF a
<1>4. b \in ViewType
  BY <1>3, ViewSetters
<1>5. b = w
  BY <1>1, Zenon DEF a
<1>6. w.reason = v.reason /\ w.format = v.format /\ w.model = v.model
  BY <1>1, SMT DEF ViewType
<1> HIDE DEF w
<1>7. w \in ViewType
  BY <1>4, <1>5
<1>8. u \in ViewType
  BY <1>7, ViewSetters
<1>9. u.reason = w.reason /\ u.format = w.format /\ u.model = w.model
  BY <1>7, SMT DEF ViewType
<1> HIDE DEF u
<1>10. Steady(w, v) /\ Steady(u, v)
  BY <1>6, <1>7, <1>8, <1>9, Zenon DEF Steady, SameRun
<1>11. QED
  BY <1>10 DEF w, u

\* So does audio that is taken in.
LEMMA TakenInView ==
    ASSUME NEW v \in ViewType
    PROVE  /\ Steady(TakenIn(v), v)
           /\ Steady([TakenIn(v) EXCEPT !.failing = FALSE], v)
<1> DEFINE fed == v.fed \/ Path(v)
           a == [v EXCEPT !.used = TRUE]
           b == [a EXCEPT !.fed = fed]
           w == TakenIn(v)
           u == [w EXCEPT !.failing = FALSE]
<1>1. w = [v EXCEPT !.used = TRUE, !.fed = fed]
  BY DEF TakenIn
<1>2. fed \in BOOLEAN
  OBVIOUS
<1> HIDE DEF fed
<1>3. a \in ViewType
  BY ViewSetters
<1> HIDE DEF a
<1>4. b \in ViewType
  BY <1>2, <1>3, ViewSetters
<1>5. b = w
  BY <1>1, Zenon DEF a
<1>6. w.reason = v.reason /\ w.format = v.format /\ w.model = v.model
  BY <1>1, SMT DEF ViewType
<1> HIDE DEF w
<1>7. w \in ViewType
  BY <1>4, <1>5
<1>8. u \in ViewType
  BY <1>7, ViewSetters
<1>9. u.reason = w.reason /\ u.format = w.format /\ u.model = w.model
  BY <1>7, SMT DEF ViewType
<1> HIDE DEF u
<1>10. Steady(w, v) /\ Steady(u, v)
  BY <1>6, <1>7, <1>8, <1>9, Zenon DEF Steady, SameRun
<1>11. QED
  BY <1>10 DEF w, u

\* Whatever process() does, it changes neither stream nor model, and only the
\* failure circuit turns processing off.
LEMMA ResultsView ==
    ASSUME NEW v \in ViewType, NEW o \in Results(v)
    PROVE  Returns(o, v)
<1>1. Steady(v, v)
  BY DEF Steady, SameRun
<1>2. Path(v) \in BOOLEAN
  BY DEF Path, ResamplerMatches
<1>3. ASSUME o \in PassedThrough(v) PROVE Returns(o, v)
  <2>1. PICK event \in BOOLEAN : o = Outcome(v, event, FALSE, FALSE)
    BY <1>3, Zenon DEF PassedThrough
  <2>2. Returns(Outcome(v, event, FALSE, FALSE), v)
    BY <1>1, SteadyReturns, Zenon
  <2>3. QED
    BY <2>1, <2>2, Zenon
<1>4. ASSUME o \in TurnedAway(v) PROVE Returns(o, v)
  <2> DEFINE Back(event, w) == Outcome(w, event, w.valid # v.valid, FALSE)
  <2>1. TurnedAway(v) =
           {Back(event, w) : event \in BOOLEAN,
                             w \in {GivenUp(v)} \cup {u \in {v} : ~u.used}}
    BY DEF TurnedAway
  <2> HIDE DEF Back
  <2>2. \E event \in BOOLEAN, w \in {GivenUp(v)} \cup {u \in {v} : ~u.used} :
          o = Back(event, w)
    BY <1>4, <2>1
  <2>3. \E event \in BOOLEAN, w \in {GivenUp(v)} \cup {u \in {v} : ~u.used} :
          o = Outcome(w, event, w.valid # v.valid, FALSE)
    BY <2>2 DEF Back
  <2>4. PICK event \in BOOLEAN, w \in {GivenUp(v)} \cup {u \in {v} : ~u.used} :
          o = Outcome(w, event, w.valid # v.valid, FALSE)
    BY <2>3
  <2>5. w = GivenUp(v) \/ w = v
    BY <2>4
  <2>6. Steady(w, v)
    BY <1>1, <2>5, GivenUpView
  <2> DEFINE refresh == w.valid # v.valid
  <2>7. refresh \in BOOLEAN /\ event \in BOOLEAN
    BY <2>4
  <2>8. o = Outcome(w, event, refresh, FALSE)
    BY <2>4
  <2> HIDE DEF refresh
  <2>9. Returns(Outcome(w, event, refresh, FALSE), v)
    BY <2>6, <2>7, SteadyReturns, Zenon
  <2>10. QED
    BY <2>8, <2>9, Zenon
<1>5. ASSUME o \in Jumped(v) PROVE Returns(o, v)
  <2>1. o = Outcome(GivenUp(v), TRUE, TRUE, FALSE)
    BY <1>5, Zenon DEF Jumped
  <2>2. Returns(Outcome(GivenUp(v), TRUE, TRUE, FALSE), v)
    BY <1>2, GivenUpView, SteadyReturns, Zenon
  <2>3. QED
    BY <2>1, <2>2, Zenon
<1>6. ASSUME o \in Failed(v) PROVE Returns(o, v)
  <2> DEFINE w == [GivenUp(v) EXCEPT !.failing = TRUE]
             refresh == Path(v)
  <2>1. \E event \in IF v.failing THEN BOOLEAN ELSE {TRUE} :
           o = Outcome(w, event, refresh, FALSE)
    BY <1>6, Zenon DEF Failed
  <2>2. PICK event \in IF v.failing THEN BOOLEAN ELSE {TRUE} :
           o = Outcome(w, event, refresh, FALSE)
    BY <2>1
  <2>3. event \in BOOLEAN
    BY <2>2, Zenon
  <2>4. Steady(w, v)
    BY GivenUpView
  <2> HIDE DEF w, refresh
  <2>5. Returns(Outcome(w, event, refresh, FALSE), v)
    BY <1>2, <2>3, <2>4, SteadyReturns, Zenon DEF refresh
  <2>6. QED
    BY <2>2, <2>5, Zenon
<1>7. ASSUME o \in Opened(v) PROVE Returns(o, v)
  <2> DEFINE g == GivenUp(v)
             w == [g EXCEPT !.reason = "RepeatedProcessingFailures"]
  <2>1. o = Outcome(w, TRUE, FALSE, FALSE)
    BY <1>7, Zenon DEF Opened
  <2>2. g \in ViewType /\ SameRun(g, v)
    BY GivenUpView, Zenon DEF Steady
  <2> HIDE DEF g
  <2>3. w \in ViewType
    BY <2>2, ReasonsAre, ViewSetters
  <2>4. /\ w.reason = "RepeatedProcessingFailures"
        /\ w.format = g.format /\ w.model = g.model
    BY <2>2, SMT DEF ViewType
  <2> HIDE DEF w
  <2>5. o \in Outcomes /\ o.view = w /\ o.event /\ ~o.hops
    BY <2>1, <2>3 DEF Outcome, Outcomes
  <2>6. QED
    BY <2>2, <2>4, <2>5, Zenon DEF Returns, SameRun
<1>8. ASSUME o \in Succeeded(v) PROVE Returns(o, v)
  <2> DEFINE w == TakenIn(v)
             u == [w EXCEPT !.failing = FALSE]
  <2>1. \/ \E event \in BOOLEAN : o = Outcome(w, event, FALSE, FALSE)
        \/ \E event \in BOOLEAN : o = Outcome(u, event, FALSE, TRUE)
    BY <1>8, Zenon DEF Succeeded
  <2>2. Steady(w, v) /\ Steady(u, v)
    BY TakenInView
  <2> HIDE DEF w, u
  <2>3. ASSUME NEW event \in BOOLEAN
        PROVE  /\ Returns(Outcome(w, event, FALSE, FALSE), v)
               /\ Returns(Outcome(u, event, FALSE, TRUE), v)
    BY <1>2, <2>2, SteadyReturns, Zenon
  <2>4. QED
    BY <2>1, <2>3, Zenon
<1>9. \/ o \in PassedThrough(v) \/ o \in Succeeded(v) \/ o \in TurnedAway(v)
      \/ o \in Jumped(v) \/ o \in Failed(v) \/ o \in Opened(v)
  BY DEF Results, Ordinary, Setbacks
<1>10. QED
  BY <1>3, <1>4, <1>5, <1>6, <1>7, <1>8, <1>9

-----------------------------------------------------------------------------
(***************************************************************************)
(* Pairs: what is prepared for a stream and what is installed of it.       *)
(***************************************************************************)
\* A pair that a stream needs is a pair.
LEMMA NeededPair ==
    ASSUME NEW f \in Formats, NEW m \in Paths, Resamples(f, m)
    PROVE  PairFor(f, m) \in Pairs
BY DEF Resamples, Paths, Pairs

\* So is none.
LEMMA NoPairType == NoPair \in Pairs
BY DEF Pairs

\* What a reset installs in place of an invalid pair leaves stream, model and
\* reason.
LEMMA FreshView ==
    ASSUME NEW old \in [format : Formats, model : Paths, path : BOOLEAN,
                        stale : BOOLEAN],
           NEW prepared \in BOOLEAN, proc \in ViewType
    PROVE  /\ FreshInstalled(old, prepared) \in ViewType
           /\ FreshInstalled(old, prepared).reason = proc.reason
           /\ SameRun(FreshInstalled(old, prepared), proc)
<1>1. old.format \in Formats /\ old.model \in Paths
  OBVIOUS
<1> DEFINE p == IF prepared THEN PairFor(old.format, old.model) ELSE NoPair
<1>2. CASE Resamples(old.format, old.model)
  <2>1. p \in Pairs
    BY <1>1, <1>2, NeededPair, NoPairType
  <2>2. FreshInstalled(old, prepared) = ReplaceResamplers(proc, p)
    BY <1>2 DEF FreshInstalled
  <2> HIDE DEF p
  <2>3. QED
    BY <2>1, <2>2, ReplaceResamplersView
<1>3. CASE ~Resamples(old.format, old.model)
  <2>1. \/ FreshInstalled(old, prepared) = ReleaseInvalidResamplers(proc)
        \/ FreshInstalled(old, prepared) = proc
    BY <1>3 DEF FreshInstalled
  <2>2. QED
    BY <2>1, ReleaseView DEF SameRun
<1>4. QED
  BY <1>2, <1>3

\* What the client keeps between preparing and installing.
PairWanted(k) ==
    /\ k.pc \in {"fallback", "install"} /\ k.pair = "ready"
         => Resamples(k.format, TargetModel(k))
    /\ k.pc = "fallback" => OldNeedsResamplers(k)
    /\ k.pc = "install" /\ k.fallback = "ready" => OldNeedsResamplers(k)

ClientInv == \A c \in Clients : PairWanted(client[c])

\* The fields of a calling thread are in their sets.
LEMMA ClientFields ==
    ASSUME NEW k \in ClientType
    PROVE  /\ k.pc \in ClientPcs /\ k.path \in Paths /\ k.switch \in BOOLEAN
           /\ k.format \in Formats /\ k.load \in Loads /\ k.pair \in Attempts
           /\ k.fallback \in Attempts
           /\ k.old \in [format : Formats, model : Paths, path : BOOLEAN,
                         stale : BOOLEAN]
           /\ k.old.format \in Formats /\ k.old.model \in Paths
           /\ TargetModel(k) \in Paths
<1>1. /\ k.pc \in ClientPcs /\ k.path \in Paths /\ k.switch \in BOOLEAN
      /\ k.format \in Formats /\ k.load \in Loads /\ k.pair \in Attempts
      /\ k.fallback \in Attempts
      /\ k.old \in [format : Formats, model : Paths, path : BOOLEAN,
                    stale : BOOLEAN]
  BY Zenon DEF ClientType
<1>2. k.old.format \in Formats /\ k.old.model \in Paths
  BY <1>1, Zenon
<1>3. QED
  BY <1>1, <1>2 DEF TargetModel

\* The pair an update installs is one that was prepared.
LEMMA PairChangeView ==
    ASSUME NEW k \in ClientType, k.pc = "install", PairWanted(k),
           NEW v \in ViewType
    PROVE  /\ WithPairChange(k, v) \in ViewType
           /\ WithPairChange(k, v).reason = v.reason
           /\ SameRun(WithPairChange(k, v), v)
<1> DEFINE change == PairChange(k)
           p == IF change = "fresh" THEN PairFor(k.format, TargetModel(k))
                ELSE IF change = "fallback"
                THEN PairFor(k.format, k.old.model)
                ELSE NoPair
<1>1. CASE change = "keep"
  BY <1>1 DEF WithPairChange, SameRun
<1>2. CASE change # "keep"
  <2>1. ASSUME change = "fresh" PROVE Resamples(k.format, TargetModel(k))
    <3>1. k.pair = "ready"
      BY <2>1, ClientFields, SMT DEF PairChange, Attempts
    <3>2. QED
      BY <3>1 DEF PairWanted
  <2>2. ASSUME change = "fallback" PROVE Resamples(k.format, k.old.model)
    <3>1. k.fallback = "ready"
      BY <2>2, ClientFields, SMT DEF PairChange, Attempts
    <3>2. QED
      BY <3>1 DEF PairWanted, OldNeedsResamplers
  <2>3. p \in Pairs
    BY <2>1, <2>2, ClientFields, NeededPair, NoPairType
  <2>4. WithPairChange(k, v) = ReplaceResamplers(v, p)
    BY <1>2 DEF WithPairChange
  <2> HIDE DEF p
  <2>5. QED
    BY <2>3, <2>4, ReplaceResamplersView
<1>3. QED
  BY <1>1, <1>2

\* What the sections of a call make of the processor.
LEMMA UpdateView ==
    ASSUME TypeOK, ClientInv, NEW c \in Clients, UpdateInstall(c)
    PROVE  /\ proc' \in ViewType
           /\ \/ proc'.reason = proc.reason /\ guard' = guard
              \/ proc'.reason = "None" /\ guard' = NoGuard
<1> DEFINE k == client[c]
           settled == SetFormat(proc, k.format)
           modeled == IF k.load = "loaded" THEN ReplaceModel(settled, k.path)
                      ELSE settled
           paired  == WithPairChange(k, modeled)
<1>1. k \in ClientType /\ k.pc = "install" /\ PairWanted(k)
  BY DEF TypeOK, UpdateInstall, ClientInv
<1>2. /\ proc' = IF k.switch THEN ResetStream(paired) ELSE paired
      /\ guard' = IF k.load = "loaded" THEN NoGuard ELSE guard
  BY DEF UpdateInstall
<1> HIDE DEF k
<1>3. /\ k.format \in Formats /\ k.path \in Paths
  BY <1>1, ClientFields
<1>4. settled \in ViewType /\ settled.reason = proc.reason
  BY <1>3, SetFormatView DEF TypeOK
<1> HIDE DEF settled
<1>5. /\ modeled \in ViewType
      /\ modeled.reason = IF k.load = "loaded" THEN "None" ELSE proc.reason
  BY <1>3, <1>4, ReplaceModelView
<1> HIDE DEF modeled
<1>6. paired \in ViewType /\ paired.reason = modeled.reason
  BY <1>1, <1>5, PairChangeView
<1> HIDE DEF paired
<1>7. proc' \in ViewType /\ proc'.reason = paired.reason
  BY <1>2, <1>6, ResetsView
<1>8. QED
  BY <1>2, <1>5, <1>6, <1>7

\* A reset() starts the processor and the guard over.
LEMMA ResetView ==
    ASSUME TypeOK, NEW c \in Clients, ResetInstall(c)
    PROVE  /\ proc' \in ViewType
           /\ proc'.reason = "None" /\ guard' = NoGuard /\ error' \in BOOLEAN
<1>1. PICK prepared \in BOOLEAN :
        /\ proc' = ResetState(FreshInstalled(client[c].old, prepared))
        /\ error' = FreshError(client[c].old, prepared)
  BY DEF ResetInstall, MaySucceed
<1>2. client[c].old \in [format : Formats, model : Paths, path : BOOLEAN,
                         stale : BOOLEAN]
  BY ClientFields DEF TypeOK
<1>3. FreshInstalled(client[c].old, prepared) \in ViewType
  BY <1>2, FreshView DEF TypeOK
<1>4. QED
  BY <1>1, <1>3, ResetsView DEF ResetInstall, FreshError, Resamples

\* A stream boundary starts the stream over and keeps the reason.
LEMMA BoundaryView ==
    ASSUME TypeOK, NEW c \in Clients, BoundaryInstall(c)
    PROVE  /\ proc' \in ViewType
           /\ proc'.reason = proc.reason /\ guard' = guard /\ error' \in BOOLEAN
<1>1. PICK prepared \in BOOLEAN :
        /\ proc' = ResetStream(FreshInstalled(client[c].old, prepared))
        /\ error' = FreshError(client[c].old, prepared)
  BY DEF BoundaryInstall, MaySucceed
<1>2. client[c].old \in [format : Formats, model : Paths, path : BOOLEAN,
                         stale : BOOLEAN]
  BY ClientFields DEF TypeOK
<1>3. /\ FreshInstalled(client[c].old, prepared) \in ViewType
      /\ FreshInstalled(client[c].old, prepared).reason = proc.reason
  BY <1>2, FreshView DEF TypeOK
<1>4. QED
  BY <1>1, <1>3, ResetsView DEF BoundaryInstall, FreshError, Resamples

\* What the worker makes of it.
LEMMA RebuildView ==
    ASSUME TypeOK, RebuildInstall
    PROVE  /\ proc' \in ViewType
           /\ proc'.reason = proc.reason /\ guard' = guard /\ error' \in BOOLEAN
<1> DEFINE needed == Resamples(worker.format, worker.model)
           pair   == PairFor(worker.format, worker.model)
<1>1. guard' = guard
  BY DEF RebuildInstall
<1>2. worker.format \in Formats /\ worker.model \in Paths
  BY DEF TypeOK, WorkerType
<1>3. \/ UNCHANGED <<proc, error>>
      \/ error' = TRUE /\ UNCHANGED proc
      \/ needed /\ proc' = ReplaceResamplers(proc, pair) /\ error' = FALSE
      \/ proc' = ReleaseInvalidResamplers(proc) /\ error' = FALSE
  BY DEF RebuildInstall
<1>4. needed => pair \in Pairs
  BY <1>2, NeededPair
<1> HIDE DEF needed, pair
<1>5. QED
  BY <1>1, <1>3, <1>4, ReplaceResamplersView, ReleaseView DEF TypeOK

\* The retry ends a pause, and nothing else.
LEMMA RetryView ==
    ASSUME TypeOK, WorkerRetry
    PROVE  /\ proc' \in ViewType
           /\ \/ ~Overloaded /\ UNCHANGED <<proc, guard>>
              \/ /\ Overloaded /\ proc'.reason = "None"
                 /\ guard' = [guard EXCEPT !.probe = TRUE]
BY ResetsView DEF TypeOK, WorkerRetry

-----------------------------------------------------------------------------
(***************************************************************************)
(* What the audio callback leaves, and what it has left to post.           *)
(***************************************************************************)
\* The events a result may report, none of them an empty slot.
LEMMA EventsAre ==
    /\ "setback" \in Events \cup {"none"} /\ "paused" \in Events \cup {"none"}
    /\ "recovered" \in Events \cup {"none"} /\ "none" \in Events \cup {"none"}
    /\ "none" \notin Slots
BY FilterAssumption DEF Events

\* A result reports an event or none.
LEMMA EventOfType ==
    ASSUME NEW o
    PROVE  EventOf(o) \in Events \cup {"none"}
BY EventsAre, Zenon DEF EventOf

\* What is posted holds what it was made of.
LEMMA PostFields ==
    ASSUME NEW refresh, NEW event, NEW delay
    PROVE  /\ Post(refresh, event, delay).refresh = refresh
           /\ Post(refresh, event, delay).event = event
           /\ Post(refresh, event, delay).delay = delay
           /\ refresh \in BOOLEAN /\ event \in Events \cup {"none"}
              /\ delay \in 0 .. LastDelay
                => Post(refresh, event, delay) \in PostType
BY DEF Post, PostType

\* What waits to be posted: nothing, one result, or the event a pause
\* displaced and then the pause.
One(posts) == \E p \in PostType : posts = <<p>>
Two(posts) == \E p, q \in PostType : p.delay = 0 /\ posts = <<p, q>>

\* There is something to post exactly between a callback's section and the
\* end of the callback.
PostsInv ==
    /\ audio.pc = "post" <=> audio.posts # <<>>
    /\ audio.posts = <<>> \/ One(audio.posts) \/ Two(audio.posts)

\* The events that wait to be posted.
Told(posts) == {posts[i].event : i \in DOMAIN posts}

\* Two results posted one after the other are the sequence of both.
LEMMA TwoInARow ==
    ASSUME NEW p \in PostType, NEW q \in PostType
    PROVE  <<p>> \o <<q>> = <<p, q>>
<1> DEFINE s == <<p>>
           t == <<q>>
           u == <<p, q>>
           w == s \o t
<1>1. /\ s \in Seq(PostType) /\ Len(s) = 1 /\ s[1] = p
      /\ t \in Seq(PostType) /\ Len(t) = 1 /\ t[1] = q
      /\ u \in Seq(PostType) /\ Len(u) = 2 /\ u[1] = p /\ u[2] = q
  OBVIOUS
<1> HIDE DEF s, t, u
<1>2. /\ w \in Seq(PostType) /\ Len(w) = Len(s) + Len(t)
      /\ \A i \in 1 .. Len(s) + Len(t) :
           w[i] = IF i <= Len(s) THEN s[i] ELSE t[i - Len(s)]
  BY <1>1, ConcatProperties
<1> HIDE DEF w
<1>3. Len(w) = 2 /\ w[1] = p /\ w[2] = q
  BY <1>1, <1>2
<1>4. \A i \in 1 .. 2 : w[i] = u[i]
  BY <1>1, <1>3
<1>5. w = u
  BY <1>1, <1>2, <1>3, <1>4, SeqEqual
<1>6. QED
  BY <1>5 DEF w, s, t, u

\* The events of none, one and two results.
LEMMA ToldOf ==
    /\ Told(<<>>) = {}
    /\ \A p : Told(<<p>>) = {p.event}
    /\ \A p, q : Told(<<p, q>>) = {p.event, q.event}
<1>1. Told(<<>>) = {}
  BY DEF Told
<1>2. ASSUME NEW p PROVE Told(<<p>>) = {p.event}
  <2>1. DOMAIN <<p>> = {1}
    OBVIOUS
  <2>2. QED
    BY <2>1 DEF Told
<1>3. ASSUME NEW p, NEW q PROVE Told(<<p, q>>) = {p.event, q.event}
  <2>1. DOMAIN <<p, q>> = {1, 2}
    OBVIOUS
  <2>2. QED
    BY <2>1 DEF Told
<1>4. QED
  BY <1>1, <1>2, <1>3

\* A result that has nothing to say is not posted.
LEMMA PostIfShape ==
    ASSUME NEW refresh \in BOOLEAN, NEW says \in BOOLEAN,
           NEW event \in Events \cup {"none"}
    PROVE  \/ PostIf(refresh, says, event) = <<>> /\ event = "none"
           \/ \E p \in PostType : /\ PostIf(refresh, says, event) = <<p>>
                                  /\ p.event = event /\ p.delay = 0
<1>1. CASE refresh \/ says \/ event # "none"
  <2>1. PostIf(refresh, says, event) = <<Post(refresh, event, 0)>>
    BY <1>1 DEF PostIf
  <2>2. 0 \in 0 .. LastDelay
    BY DEF LastDelay
  <2>3. QED
    BY <2>1, <2>2, PostFields
<1>2. CASE ~(refresh \/ says \/ event # "none")
  BY <1>2 DEF PostIf
<1>3. QED
  BY <1>1, <1>2

\* The next delay is one of the schedule's, and the guard's counters keep
\* their kind.
LEMMA NextDelayType ==
    ASSUME NEW g \in GuardType
    PROVE  /\ NextDelay(g) \in 1 .. LastDelay
           /\ NextDelay(g) \in 0 .. LastDelay
           /\ \A n \in 0 .. LastDelay : [g EXCEPT !.attempts = n] \in GuardType
           /\ \A p \in BOOLEAN : [g EXCEPT !.probe = p] \in GuardType
           /\ \A n : /\ [g EXCEPT !.attempts = n].attempts = n
                     /\ [g EXCEPT !.attempts = n].probe = g.probe
           /\ \A p : /\ [g EXCEPT !.probe = p].probe = p
                     /\ [g EXCEPT !.probe = p].attempts = g.attempts
<1>1. g.attempts \in 0 .. LastDelay
  BY DEF GuardType
<1>2. /\ NextDelay(g) \in 1 .. LastDelay
      /\ NextDelay(g) \in 0 .. LastDelay
  BY <1>1 DEF NextDelay, LastDelay
<1>3. \A n \in 0 .. LastDelay : [g EXCEPT !.attempts = n] \in GuardType
  BY Zenon DEF GuardType
<1>4. \A p \in BOOLEAN : [g EXCEPT !.probe = p] \in GuardType
  BY Zenon DEF GuardType
<1>5. \A n : /\ [g EXCEPT !.attempts = n].attempts = n
             /\ [g EXCEPT !.attempts = n].probe = g.probe
  BY Zenon DEF GuardType
<1>6. \A p : /\ [g EXCEPT !.probe = p].probe = p
             /\ [g EXCEPT !.probe = p].attempts = g.attempts
  BY Zenon DEF GuardType
<1>7. QED
  BY <1>2, <1>3, <1>4, <1>5, <1>6

\* A guard that starts over has no attempts and no probe.
LEMMA NoGuardType ==
    NoGuard \in GuardType /\ NoGuard.attempts = 0 /\ ~NoGuard.probe
BY DEF NoGuard, GuardType, LastDelay

\* What a callback leaves, when the guard lets the result pass, trips on it,
\* or ends the probe with it.
Passed ==
    /\ guard' = guard
    /\ \/ proc'.reason = proc.reason
       \/ proc'.reason = "RepeatedProcessingFailures"
    /\ \/ audio'.posts = <<>> /\ unlogged' = unlogged
       \/ \E p \in PostType : /\ audio'.posts = <<p>> /\ p.delay = 0
                              /\ unlogged' = unlogged \cup ({p.event} \cap Slots)

Paused ==
    /\ guard' = [guard EXCEPT !.attempts = NextDelay(guard)]
    /\ proc.reason = "None" /\ proc'.reason = "RealtimeOverload"
    /\ \E q \in PostType :
         /\ q.delay = NextDelay(guard)
         /\ \/ /\ audio'.posts = <<q>>
               /\ unlogged' = unlogged \cup ({q.event} \cap Slots)
            \/ \E p \in PostType :
                 /\ p.delay = 0 /\ audio'.posts = <<p, q>>
                 /\ unlogged' = unlogged \cup ({p.event, q.event} \cap Slots)

Probed ==
    /\ guard' = NoGuard
    /\ proc.reason = "None" /\ proc'.reason = "None"
    /\ \E p \in PostType : /\ audio'.posts = <<p>> /\ p.delay = 0
                           /\ unlogged' = unlogged \cup ({p.event} \cap Slots)

\* The audio callback's section either passes a result on, pauses, or ends
\* the probe.
LEMMA AudioView ==
    ASSUME TypeOK, AudioProcess
    PROVE  /\ proc' \in ViewType /\ proc'.model = proc.model
           /\ audio' = IF audio'.posts = <<>> THEN NoAudio
                       ELSE [NoAudio EXCEPT !.pc = "post",
                                            !.posts = audio'.posts]
           /\ Passed \/ Paused \/ Probed
<1> DEFINE v        == SetFormat(proc, audio.format)
           changed  == audio.format # proc.format
           eligible == /\ Loaded(v) /\ v.reason = "None"
                       /\ ~Resamples(v.format, v.model) \/ Path(v)
<1>1. audio.format \in Formats /\ proc \in ViewType /\ guard \in GuardType
  BY DEF TypeOK, AudioType
<1>2. v \in ViewType /\ v.reason = proc.reason /\ v.model = proc.model
  BY <1>1, SetFormatView
<1>3. eligible => v.reason = "None"
  OBVIOUS
<1>4. PICK o \in Results(v) :
        LET says    == proc.failing /\ ~o.view.failing
            refresh == o.refresh \/ (changed /\ Stale(v))
        IN \E r \in Verdicts(o, eligible, says, refresh) :
             /\ proc' = r.view
             /\ guard' = r.guard
             /\ audio' = IF r.posts = <<>> THEN NoAudio
                         ELSE [NoAudio EXCEPT !.pc = "post",
                                              !.posts = r.posts]
             /\ unlogged' = unlogged \cup ({EventOf(o), r.event} \cap Slots)
  BY Zenon DEF AudioProcess
<1> HIDE DEF v, changed, eligible
<1>5. Returns(o, v)
  BY <1>2, ResultsView
<1> DEFINE says    == proc.failing /\ ~o.view.failing
           refresh == o.refresh \/ (changed /\ Stale(v))
<1>6. PICK r \in Verdicts(o, eligible, says, refresh) :
        /\ proc' = r.view
        /\ guard' = r.guard
        /\ audio' = IF r.posts = <<>> THEN NoAudio
                    ELSE [NoAudio EXCEPT !.pc = "post", !.posts = r.posts]
        /\ unlogged' = unlogged \cup ({EventOf(o), r.event} \cap Slots)
  BY <1>4, Zenon
<1>7. /\ o.view \in ViewType /\ o.view.model = v.model
      /\ o.refresh \in BOOLEAN /\ o.event \in BOOLEAN
  BY <1>5 DEF Returns, Outcomes, SameRun
<1>8. says \in BOOLEAN /\ refresh \in BOOLEAN
  BY <1>7, Zenon DEF Stale
<1> HIDE DEF says, refresh
<1>9. audio'.posts = r.posts
  BY <1>6, Zenon DEF NoAudio
<1> DEFINE event == EventOf(o)
<1>10. event \in Events \cup {"none"}
  BY EventOfType
<1>11. event = "none" => {event, "none"} \cap Slots = {}
  BY EventsAre
<1>12. CASE r = Untouched(o, says, refresh)
  <2>1. /\ r.guard = guard /\ r.view = o.view /\ r.event = "none"
        /\ r.posts = PostIf(refresh, says, event)
    BY <1>12 DEF Untouched
  <2>2. \/ proc'.reason = proc.reason
        \/ proc'.reason = "RepeatedProcessingFailures"
    BY <1>2, <1>5, <1>6, <2>1 DEF Returns
  <2> HIDE DEF event
  <2>3. unlogged' = unlogged \cup ({event, "none"} \cap Slots)
    BY <1>6, <2>1 DEF event
  <2>4. Passed
    <3>1. CASE r.posts = <<>> /\ event = "none"
      BY <1>6, <1>9, <1>11, <2>1, <2>2, <2>3, <3>1 DEF Passed
    <3>2. CASE \E p \in PostType : /\ r.posts = <<p>> /\ p.event = event
                                   /\ p.delay = 0
      <4>1. PICK p \in PostType : r.posts = <<p>> /\ p.event = event
                                  /\ p.delay = 0
        BY <3>2
      <4>2. {event, "none"} \cap Slots = {p.event} \cap Slots
        BY <4>1, EventsAre
      <4>3. QED
        BY <1>6, <1>9, <2>1, <2>2, <2>3, <4>1, <4>2 DEF Passed
    <3>3. \/ PostIf(refresh, says, event) = <<>> /\ event = "none"
          \/ \E p \in PostType : /\ PostIf(refresh, says, event) = <<p>>
                                 /\ p.event = event /\ p.delay = 0
      BY <1>8, <1>10, PostIfShape
    <3>4. QED
      BY <2>1, <3>1, <3>2, <3>3 DEF event
  <2>5. QED
    BY <1>2, <1>6, <1>7, <1>9, <2>1, <2>4
<1>13. CASE eligible /\ o.hops /\ r = Tripped(o, refresh)
  <2> DEFINE before == PostIf(FALSE, FALSE, event)
             q      == Post(refresh, "paused", NextDelay(guard))
  <2>1. /\ r.guard = [guard EXCEPT !.attempts = NextDelay(guard)]
        /\ r.view = DisableForRealtimeOverload(o.view)
        /\ r.event = "paused" /\ r.posts = before \o <<q>>
    BY <1>13 DEF Tripped, Pause
  <2>2. NextDelay(guard) \in 0 .. LastDelay
    BY <1>1, NextDelayType
  <2>3. /\ q \in PostType /\ q.delay = NextDelay(guard) /\ q.event = "paused"
    BY <1>8, <2>2, EventsAre, PostFields
  <2>4. /\ proc' \in ViewType /\ proc'.reason = "RealtimeOverload"
        /\ proc'.model = proc.model
    BY <1>2, <1>6, <1>7, <2>1, ResetsView DEF SameRun
  <2>5. proc.reason = "None"
    BY <1>2, <1>3, <1>13
  <2>6. unlogged' = unlogged \cup ({event, "paused"} \cap Slots)
    BY <1>6, <2>1
  <2> DEFINE no == FALSE
  <2>7. no \in BOOLEAN
    OBVIOUS
  <2> HIDE DEF no, event
  <2>8. \/ PostIf(no, no, event) = <<>> /\ event = "none"
        \/ \E p \in PostType : /\ PostIf(no, no, event) = <<p>>
                               /\ p.event = event /\ p.delay = 0
    BY <1>10, <2>7, PostIfShape
  <2>9. \/ before = <<>> /\ event = "none"
        \/ \E p \in PostType : /\ before = <<p>>
                               /\ p.event = event /\ p.delay = 0
    BY <2>8 DEF no
  <2> HIDE DEF before, q
  <2>10. Paused
    <3>1. CASE before = <<>> /\ event = "none"
      <4>1. r.posts = <<q>>
        BY <2>1, <3>1
      <4>2. {event, "paused"} \cap Slots = {q.event} \cap Slots
        BY <2>3, <3>1, EventsAre
      <4>3. QED
        BY <1>6, <1>9, <2>1, <2>3, <2>4, <2>5, <2>6, <4>1, <4>2 DEF Paused
    <3>2. CASE \E p \in PostType : /\ before = <<p>>
                                   /\ p.event = event /\ p.delay = 0
      <4>1. PICK p \in PostType : before = <<p>> /\ p.event = event
                                  /\ p.delay = 0
        BY <3>2
      <4>2. r.posts = <<p, q>>
        BY <2>1, <2>3, <4>1, TwoInARow
      <4>3. unlogged' = unlogged \cup ({p.event, q.event} \cap Slots)
        BY <2>3, <2>6, <4>1
      <4>4. /\ guard' = [guard EXCEPT !.attempts = NextDelay(guard)]
            /\ audio'.posts = <<p, q>> /\ proc'.reason = "RealtimeOverload"
        BY <1>6, <1>9, <2>1, <2>4, <4>2
      <4>5. QED
        BY <2>3, <2>5, <4>1, <4>3, <4>4, Zenon DEF Paused
    <3>3. QED
      BY <2>9, <3>1, <3>2
  <2>11. QED
    BY <1>6, <1>9, <2>4, <2>10
<1>14. CASE /\ eligible /\ o.hops /\ guard.probe /\ ~o.event
            /\ r = ProbeOver(o, refresh)
  <2> DEFINE p == Post(refresh, "recovered", 0)
  <2>1. /\ r.guard = NoGuard /\ r.view = o.view
        /\ r.event = "recovered" /\ r.posts = <<p>>
    BY <1>14 DEF ProbeOver
  <2>2. 0 \in 0 .. LastDelay
    BY DEF LastDelay
  <2>3. p \in PostType /\ p.delay = 0 /\ p.event = "recovered"
    BY <1>8, <2>2, EventsAre, PostFields
  <2>4. proc.reason = "None" /\ o.view.reason = "None"
    BY <1>2, <1>3, <1>5, <1>14 DEF Returns
  <2>5. event = "none"
    BY <1>14, Zenon DEF EventOf
  <2>6. unlogged' = unlogged \cup ({p.event} \cap Slots)
    <3>1. unlogged' = unlogged \cup ({event, "recovered"} \cap Slots)
      BY <1>6, <2>1
    <3> HIDE DEF event
    <3>2. {event, "recovered"} \cap Slots = {p.event} \cap Slots
      BY <2>3, <2>5, EventsAre
    <3>3. QED
      BY <3>1, <3>2
  <2> HIDE DEF p
  <2>7. Probed
    BY <1>6, <1>9, <2>1, <2>3, <2>4, <2>6 DEF Probed
  <2>8. QED
    BY <1>2, <1>6, <1>7, <1>9, <2>1, <2>7
<1>15. QED
  <2>1. \/ r = Untouched(o, says, refresh)
        \/ eligible /\ o.hops /\ r = Tripped(o, refresh)
        \/ /\ eligible /\ o.hops /\ guard.probe /\ ~o.event
           /\ r = ProbeOver(o, refresh)
    BY Zenon DEF Verdicts
  <2>2. QED
    BY <1>12, <1>13, <1>14, <2>1

-----------------------------------------------------------------------------
(***************************************************************************)
(* The steps, and what is posted between them.                             *)
(***************************************************************************)
\* Steps that touch neither the processor nor the guard nor what is posted,
\* asked for or logged.
Elsewhere == /\ UNCHANGED <<proc, guard, error, rejected, request, audio,
                            worker, unlogged>>

\* The steps of each thread that touch what the threads share.
ByAudio    == AudioArrives \/ AudioProcess \/ AudioPost
ByWorker   == \/ WorkerWake \/ RebuildRead \/ RebuildInstall \/ WorkerRetry
              \/ StatusRead \/ StatusShow
ByClient(c) == \/ UpdateInstall(c) \/ ResetInstall(c) \/ ResetClear(c)
               \/ BoundaryInstall(c) \/ Notify(c)

\* Every step is one of these, or leaves what the threads share alone.
LEMMA StepKinds ==
    ASSUME [Next]_vars
    PROVE  \/ Elsewhere \/ ByAudio \/ ByWorker \/ DeadlinePasses \/ Destroy
           \/ \E c \in Clients : ByClient(c)
<1>1. CASE vars' = vars
  BY <1>1 DEF vars, Elsewhere
<1>2. CASE Next
  <2>1. CASE AudioStep \/ WorkerStep
    BY <2>1 DEF AudioStep, WorkerStep, ByAudio, ByWorker
  <2>2. CASE ResetObsAudio
    BY <2>2 DEF ResetObsAudio, Elsewhere
  <2>3. CASE \E c \in Clients : ClientCall(c)
    BY <2>3 DEF ClientCall, CallUpdate, CallReset, CallDisable, CallEnable,
                Elsewhere
  <2>4. CASE \E c \in Clients : ClientStep(c)
    <3>1. PICK c \in Clients : ClientStep(c)
      BY <2>4
    <3>2. CASE BeginUpdate(c) \/ UpdateRead(c)
      BY <3>2, Zenon DEF BeginUpdate, UpdateRead, Elsewhere
    <3>3. CASE UpdatePrepare(c) \/ UpdateFallback(c)
      BY <3>3, Zenon DEF UpdatePrepare, UpdateFallback, Elsewhere
    <3>4. CASE ResetRead(c) \/ BoundaryRead(c)
      BY <3>4, Zenon DEF ResetRead, BoundaryRead, ReadForReset, Elsewhere
    <3>5. CASE ByClient(c)
      BY <3>5
    <3>6. QED
      BY <3>1, <3>2, <3>3, <3>4, <3>5, Zenon DEF ClientStep, ByClient
  <2>5. QED
    BY <1>2, <2>1, <2>2, <2>3, <2>4 DEF Next
<1>3. QED
  BY <1>1, <1>2

\* A field of the audio thread set to a value of its kind.
LEMMA AudioSetters ==
    ASSUME NEW a \in AudioType
    PROVE  /\ \A x \in {"idle", "lock", "post"} :
                /\ [a EXCEPT !.pc = x] \in AudioType
                /\ [a EXCEPT !.pc = x].pc = x
                /\ [a EXCEPT !.pc = x].posts = a.posts
           /\ \A x \in Formats :
                /\ [a EXCEPT !.format = x] \in AudioType
                /\ [a EXCEPT !.format = x].pc = a.pc
                /\ [a EXCEPT !.format = x].posts = a.posts
           /\ \A x \in Seq(PostType) :
                /\ [a EXCEPT !.posts = x] \in AudioType
                /\ [a EXCEPT !.posts = x].posts = x
                /\ [a EXCEPT !.posts = x].pc = a.pc
<1>1. \A x \in {"idle", "lock", "post"} :
        /\ [a EXCEPT !.pc = x] \in AudioType
        /\ [a EXCEPT !.pc = x].pc = x
        /\ [a EXCEPT !.pc = x].posts = a.posts
  BY Zenon DEF AudioType
<1>2. \A x \in Formats :
        /\ [a EXCEPT !.format = x] \in AudioType
        /\ [a EXCEPT !.format = x].pc = a.pc
        /\ [a EXCEPT !.format = x].posts = a.posts
  BY Zenon DEF AudioType
<1>3. \A x \in Seq(PostType) :
        /\ [a EXCEPT !.posts = x] \in AudioType
        /\ [a EXCEPT !.posts = x].posts = x
        /\ [a EXCEPT !.posts = x].pc = a.pc
  BY Zenon DEF AudioType
<1>4. QED
  BY <1>1, <1>2, <1>3

\* What is posted stays in shape.
LEMMA PostsStep ==
    ASSUME TypeOK, PostsInv, [Next]_vars
    PROVE  /\ PostsInv' /\ audio' \in AudioType /\ Len(audio'.posts) <= 2
<1>1. audio \in AudioType /\ audio.posts \in Seq(PostType)
  BY DEF TypeOK, AudioType
<1>2. ASSUME audio' = audio
      PROVE  /\ PostsInv' /\ audio' \in AudioType /\ Len(audio'.posts) <= 2
  BY <1>2 DEF TypeOK, PostsInv
<1>3. ASSUME NEW s \in Seq(PostType), s = <<>> \/ One(s) \/ Two(s)
      PROVE  Len(s) <= 2
  <2>1. CASE s = <<>>
    BY <2>1
  <2>2. CASE One(s)
    BY <2>2, SMT DEF One
  <2>3. CASE Two(s)
    BY <2>3, SMT DEF Two
  <2>4. QED
    BY <1>3, <2>1, <2>2, <2>3
<1>4. NoAudio \in AudioType /\ NoAudio.pc = "idle" /\ NoAudio.posts = <<>>
  <2>1. AnyFormat \in Formats
    BY DEF TypeOK, AnyFormat
  <2>2. QED
    BY <2>1 DEF NoAudio, AudioType
<1>5. CASE AudioArrives
  <2>1. obs \in Formats
    BY DEF TypeOK
  <2>2. /\ audio.pc = "idle"
        /\ audio' = [audio EXCEPT !.pc = "lock", !.format = obs]
    BY <1>5 DEF AudioArrives
  <2>3. audio' \in AudioType /\ audio'.pc = "lock" /\ audio'.posts = audio.posts
    <3> DEFINE a == [audio EXCEPT !.pc = "lock"]
               b == [a EXCEPT !.format = obs]
    <3>1. a \in AudioType /\ a.pc = "lock" /\ a.posts = audio.posts
      BY <1>1, AudioSetters
    <3> HIDE DEF a
    <3>2. b \in AudioType /\ b.pc = "lock" /\ b.posts = audio.posts
      BY <2>1, <3>1, AudioSetters
    <3>3. audio' = b
      BY <2>2, Zenon DEF a
    <3>4. QED
      BY <3>2, <3>3
  <2>4. audio.posts = <<>>
    BY <2>2 DEF PostsInv
  <2>5. QED
    BY <2>3, <2>4 DEF PostsInv, TypeOK
<1>6. CASE AudioProcess
  <2> DEFINE s == audio'.posts
  <2>1. /\ audio' = IF s = <<>> THEN NoAudio
                    ELSE [NoAudio EXCEPT !.pc = "post", !.posts = s]
        /\ Passed \/ Paused \/ Probed
    BY <1>6, AudioView
  <2>2. s = <<>> \/ One(s) \/ Two(s)
    BY <2>1, Zenon DEF Passed, Paused, Probed, One, Two
  <2>3. s \in Seq(PostType)
    <3>1. CASE s = <<>>
      BY <3>1, EmptySeq
    <3>2. CASE One(s)
      BY <3>2 DEF One
    <3>3. CASE Two(s)
      BY <3>3 DEF Two
    <3>4. QED
      BY <2>2, <3>1, <3>2, <3>3
  <2> HIDE DEF s
  <2>4. s # <<>> => audio' = [NoAudio EXCEPT !.pc = "post", !.posts = s]
    BY <2>1
  <2>5. /\ audio' \in AudioType
        /\ audio'.pc = "post" <=> s # <<>>
    BY <1>4, <2>1, <2>3 DEF AudioType
  <2>6. Len(s) <= 2
    BY <1>3, <2>2, <2>3
  <2>7. QED
    BY <2>2, <2>5, <2>6 DEF s, PostsInv
<1>7. CASE AudioPost
  <2> DEFINE s == audio.posts
  <2>1. /\ audio.pc = "post"
        /\ audio' = IF Len(s) = 1 THEN NoAudio ELSE [audio EXCEPT !.posts = Tail(s)]
    BY <1>7 DEF AudioPost
  <2>2. One(s) \/ Two(s)
    BY <2>1 DEF PostsInv
  <2>3. CASE One(s)
    <3>1. Len(s) = 1
      BY <2>3, SMT DEF One
    <3>2. audio' = NoAudio
      BY <2>1, <3>1
    <3>3. QED
      BY <1>4, <3>2 DEF PostsInv
  <2>4. CASE Two(s)
    <3>1. PICK p, q \in PostType : p.delay = 0 /\ s = <<p, q>>
      BY <2>4 DEF Two
    <3>2. Len(s) = 2 /\ Tail(s) = <<q>>
      BY <3>1, SMT
    <3>3. audio' = [audio EXCEPT !.posts = <<q>>]
      <4>1. Len(s) # 1
        BY <3>2
      <4> HIDE DEF s
      <4>2. QED
        BY <2>1, <3>2, <4>1
    <3>4. <<q>> \in Seq(PostType) /\ Len(<<q>>) = 1 /\ <<q>> # <<>>
      BY <3>1, SMT
    <3> DEFINE rest == <<q>>
    <3>5. rest \in Seq(PostType) /\ audio' = [audio EXCEPT !.posts = rest]
      BY <3>3, <3>4
    <3> HIDE DEF rest
    <3>6. /\ audio' \in AudioType /\ audio'.posts = rest
          /\ audio'.pc = "post"
      <4>1. audio.pc = "post"
        BY <2>1
      <4>2. /\ [audio EXCEPT !.posts = rest] \in AudioType
            /\ [audio EXCEPT !.posts = rest].posts = rest
            /\ [audio EXCEPT !.posts = rest].pc = audio.pc
        BY <1>1, <3>5, AudioSetters, Zenon
      <4>3. QED
        BY <3>5, <4>1, <4>2, Zenon
    <3>7. rest # <<>> /\ Len(rest) = 1 /\ One(rest)
      BY <3>1, <3>4 DEF rest, One
    <3>8. QED
      BY <3>6, <3>7 DEF PostsInv
  <2>5. QED
    BY <2>2, <2>3, <2>4
<1>8. CASE \/ Elsewhere \/ ByWorker \/ DeadlinePasses \/ Destroy
           \/ \E c \in Clients : ByClient(c)
  <2>1. audio' = audio
    BY <1>8 DEF Elsewhere, ByWorker, WorkerWake, RebuildRead, RebuildInstall,
       WorkerRetry, StatusRead, StatusShow, DeadlinePasses, Destroy, ByClient,
       UpdateInstall, ResetInstall, ResetClear, BoundaryInstall, Notify
  <2>2. QED
    BY <1>2, <2>1
<1>9. QED
  BY <1>5, <1>6, <1>7, <1>8, StepKinds DEF ByAudio

-----------------------------------------------------------------------------
(***************************************************************************)
(* The processor, the guard, the request and the worker.                   *)
(***************************************************************************)
\* What a step makes of the reason processing is off, and of the guard.
Settled == proc'.reason = proc.reason /\ guard' = guard
Cleared == proc'.reason = "None" /\ guard' = NoGuard
Retried == /\ Overloaded /\ proc'.reason = "None"
           /\ guard' = [guard EXCEPT !.probe = TRUE]

\* Every step keeps the processor and the guard in type, and says what it
\* makes of the reason.
LEMMA ProcStep ==
    ASSUME TypeOK, ClientInv, [Next]_vars
    PROVE  /\ proc' \in ViewType /\ guard' \in GuardType
           /\ AudioProcess \/ Settled \/ Cleared \/ Retried
<1>1. guard \in GuardType /\ proc \in ViewType
  BY DEF TypeOK
<1>2. ASSUME UNCHANGED <<proc, guard>>
      PROVE  /\ proc' \in ViewType /\ guard' \in GuardType
             /\ Settled
  BY <1>1, <1>2 DEF Settled
<1>3. CASE Elsewhere \/ DeadlinePasses \/ Destroy
  <2>1. UNCHANGED <<proc, guard>>
    BY <1>3, Zenon DEF Elsewhere, DeadlinePasses, Destroy
  <2>2. QED
    BY <1>2, <2>1
<1>4. CASE ByAudio
  <2>1. CASE AudioArrives \/ AudioPost
    <3>1. UNCHANGED <<proc, guard>>
      BY <2>1, Zenon DEF AudioArrives, AudioPost
    <3>2. QED
      BY <1>2, <3>1
  <2>2. CASE AudioProcess
    <3>1. proc' \in ViewType /\ (Passed \/ Paused \/ Probed)
      BY <2>2, AudioView
    <3>2. NextDelay(guard) \in 0 .. LastDelay
      BY <1>1, NextDelayType
    <3>3. guard' \in GuardType
      BY <1>1, <3>1, <3>2, NextDelayType, NoGuardType
         DEF Passed, Paused, Probed
    <3>4. QED
      BY <2>2, <3>1, <3>3
  <2>3. QED
    BY <1>4, <2>1, <2>2 DEF ByAudio
<1>5. CASE ByWorker
  <2>1. CASE WorkerWake \/ RebuildRead \/ StatusRead \/ StatusShow
    <3>1. UNCHANGED <<proc, guard>>
      BY <2>1, Zenon DEF WorkerWake, RebuildRead, StatusRead, StatusShow
    <3>2. QED
      BY <1>2, <3>1
  <2>2. CASE RebuildInstall
    BY <1>1, <2>2, RebuildView DEF Settled
  <2>3. CASE WorkerRetry
    <3>1. /\ proc' \in ViewType
          /\ \/ ~Overloaded /\ UNCHANGED <<proc, guard>>
             \/ Retried
      BY <2>3, RetryView DEF Retried
    <3>2. guard' \in GuardType
      <4>1. CASE UNCHANGED guard
        BY <1>1, <4>1
      <4>2. CASE guard' = [guard EXCEPT !.probe = TRUE]
        <5> DEFINE yes == TRUE
        <5>1. yes \in BOOLEAN /\ guard' = [guard EXCEPT !.probe = yes]
          BY <4>2
        <5> HIDE DEF yes
        <5>2. QED
          BY <1>1, <5>1, NextDelayType
      <4>3. QED
        BY <3>1, <4>1, <4>2 DEF Retried
    <3>3. QED
      BY <3>1, <3>2 DEF Settled
  <2>4. QED
    BY <1>5, <2>1, <2>2, <2>3 DEF ByWorker
<1>6. ASSUME NEW c \in Clients, ByClient(c)
      PROVE  /\ proc' \in ViewType /\ guard' \in GuardType
             /\ Settled \/ Cleared
  <2>1. CASE ResetClear(c) \/ Notify(c)
    <3>1. UNCHANGED <<proc, guard>>
      BY <2>1, Zenon DEF ResetClear, Notify
    <3>2. QED
      BY <1>2, <3>1
  <2>2. CASE UpdateInstall(c)
    <3>1. /\ proc' \in ViewType
          /\ Settled \/ Cleared
      BY <2>2, UpdateView DEF Settled, Cleared
    <3>2. guard' \in GuardType
      BY <1>1, <3>1, NoGuardType DEF Settled, Cleared
    <3>3. QED
      BY <3>1, <3>2
  <2>3. CASE ResetInstall(c)
    BY <2>3, ResetView, NoGuardType DEF Cleared
  <2>4. CASE BoundaryInstall(c)
    BY <1>1, <2>4, BoundaryView DEF Settled
  <2>5. QED
    BY <1>6, <2>1, <2>2, <2>3, <2>4 DEF ByClient
<1>7. QED
  BY <1>3, <1>4, <1>5, <1>6, StepKinds

-----------------------------------------------------------------------------
\* The fields of the posted request are in their sets.
LEMMA RequestFields ==
    ASSUME NEW r \in RequestType
    PROVE  /\ r.refresh \in BOOLEAN /\ r.news \in BOOLEAN
           /\ r.slots \in SUBSET Slots /\ r.deadline \in 0 .. LastDelay
           /\ r.due \in BOOLEAN /\ r.stop \in BOOLEAN
BY Zenon DEF RequestType

\* A field of the request set to a value of its kind leaves a request.
LEMMA RequestSetters ==
    ASSUME NEW r \in RequestType
    PROVE  /\ \A x \in BOOLEAN :
                /\ [r EXCEPT !.refresh = x] \in RequestType
                /\ [r EXCEPT !.news = x] \in RequestType
                /\ [r EXCEPT !.due = x] \in RequestType
                /\ [r EXCEPT !.stop = x] \in RequestType
           /\ \A x \in SUBSET Slots : [r EXCEPT !.slots = x] \in RequestType
           /\ \A x \in 0 .. LastDelay :
                [r EXCEPT !.deadline = x] \in RequestType
<1>1. \A x \in BOOLEAN : [r EXCEPT !.refresh = x] \in RequestType
  BY Zenon DEF RequestType
<1>2. \A x \in BOOLEAN : [r EXCEPT !.news = x] \in RequestType
  BY Zenon DEF RequestType
<1>3. \A x \in BOOLEAN : [r EXCEPT !.due = x] \in RequestType
  BY Zenon DEF RequestType
<1>4. \A x \in BOOLEAN : [r EXCEPT !.stop = x] \in RequestType
  BY Zenon DEF RequestType
<1>5. \A x \in SUBSET Slots : [r EXCEPT !.slots = x] \in RequestType
  BY Zenon DEF RequestType
<1>6. \A x \in 0 .. LastDelay : [r EXCEPT !.deadline = x] \in RequestType
  BY Zenon DEF RequestType
<1>7. QED
  BY <1>1, <1>2, <1>3, <1>4, <1>5, <1>6

\* A posted result adds its event and, when it has a delay, sets the
\* deadline.
LEMMA PostRequest ==
    ASSUME TypeOK, AudioPost
    PROVE  LET p == Head(audio.posts)
           IN  p \in PostType =>
                 /\ request' \in RequestType
                 /\ request'.slots = request.slots \cup ({p.event} \cap Slots)
                 /\ request'.deadline = IF p.delay > 0 THEN p.delay
                                        ELSE request.deadline
<1> DEFINE p == Head(audio.posts)
<1> SUFFICES ASSUME p \in PostType
             PROVE /\ request' \in RequestType
                   /\ request'.slots = request.slots \cup ({p.event} \cap Slots)
                   /\ request'.deadline = IF p.delay > 0 THEN p.delay
                                          ELSE request.deadline
  OBVIOUS
<1>1. request' = [request EXCEPT
             !.refresh  = @ \/ p.refresh,
             !.news     = @ \/ p.event \notin Slots,
             !.slots    = @ \cup ({p.event} \cap Slots),
             !.deadline = IF p.delay > 0 THEN p.delay ELSE @,
             !.due      = @ /\ p.delay = 0]
  BY DEF AudioPost
<1>2. p.delay \in 0 .. LastDelay /\ p.refresh \in BOOLEAN
  BY Zenon DEF PostType
<1> HIDE DEF p
<1> DEFINE r == request
           refresh == r.refresh \/ p.refresh
           news    == r.news \/ p.event \notin Slots
           slots   == r.slots \cup ({p.event} \cap Slots)
           deadline == IF p.delay > 0 THEN p.delay ELSE r.deadline
           due     == r.due /\ p.delay = 0
           a == [r EXCEPT !.refresh = refresh]
           b == [a EXCEPT !.news = news]
           c == [b EXCEPT !.slots = slots]
           d == [c EXCEPT !.deadline = deadline]
           e == [d EXCEPT !.due = due]
<1>3. r \in RequestType
  BY DEF TypeOK
<1>4. request' = [r EXCEPT !.refresh = refresh, !.news = news, !.slots = slots,
                           !.deadline = deadline, !.due = due]
  BY <1>1
<1>5. /\ refresh \in BOOLEAN /\ news \in BOOLEAN /\ slots \in SUBSET Slots
      /\ deadline \in 0 .. LastDelay /\ due \in BOOLEAN
  BY <1>2, <1>3, RequestFields
<1> HIDE DEF r, refresh, news, slots, deadline, due
<1>6. a \in RequestType
  BY <1>3, <1>5, RequestSetters
<1> HIDE DEF a
<1>7. b \in RequestType
  BY <1>5, <1>6, RequestSetters
<1> HIDE DEF b
<1>8. c \in RequestType
  BY <1>5, <1>7, RequestSetters
<1> HIDE DEF c
<1>9. d \in RequestType
  BY <1>5, <1>8, RequestSetters
<1> HIDE DEF d
<1>10. e \in RequestType
  BY <1>5, <1>9, RequestSetters
<1>11. request' = e
  BY <1>4, Zenon DEF a, b, c, d
<1>12. request'.slots = slots /\ request'.deadline = deadline
  BY <1>3, <1>4, SMT DEF RequestType
<1>13. QED
  BY <1>10, <1>11, <1>12 DEF slots, deadline, r

\* What the worker takes empties the slots, and the deadline when it is over.
LEMMA TakenType ==
    ASSUME request \in RequestType
    PROVE  /\ Taken \in RequestType /\ Taken.slots = {}
           /\ Taken.deadline = IF Expired THEN 0 ELSE request.deadline
<1> DEFINE r == request
           no == FALSE
           deadline == IF Expired THEN 0 ELSE r.deadline
           a == [r EXCEPT !.refresh = no]
           b == [a EXCEPT !.news = no]
           c == [b EXCEPT !.slots = {}]
           d == [c EXCEPT !.deadline = deadline]
           e == [d EXCEPT !.due = no]
<1>1. Taken = [r EXCEPT !.refresh = no, !.news = no, !.slots = {},
                        !.deadline = deadline, !.due = no]
  BY DEF Taken
<1>2. no \in BOOLEAN /\ {} \in SUBSET Slots
  OBVIOUS
<1>3. deadline \in 0 .. LastDelay
  BY RequestFields DEF LastDelay
<1> HIDE DEF no, deadline
<1>4. a \in RequestType
  BY <1>2, RequestSetters
<1> HIDE DEF a
<1>5. b \in RequestType
  BY <1>2, <1>4, RequestSetters
<1> HIDE DEF b
<1>6. c \in RequestType
  BY <1>2, <1>5, RequestSetters
<1> HIDE DEF c
<1>7. d \in RequestType
  BY <1>3, <1>6, RequestSetters
<1> HIDE DEF d
<1>8. e \in RequestType
  BY <1>2, <1>7, RequestSetters
<1>9. Taken = e
  BY <1>1, Zenon DEF a, b, c, d
<1>10. Taken.slots = {} /\ Taken.deadline = deadline
  BY <1>1, SMT DEF RequestType
<1>11. QED
  BY <1>8, <1>9, <1>10 DEF deadline

\* Only posting, waking and a reset's clearing change slots or deadline.
LEMMA RequestStep ==
    ASSUME TypeOK, PostsInv, [Next]_vars
    PROVE  /\ request' \in RequestType
           /\ \/ AudioPost \/ WorkerWake
              \/ \E c \in Clients : ResetClear(c)
              \/ /\ request'.slots = request.slots
                 /\ request'.deadline = request.deadline
<1> DEFINE yes == TRUE
           no  == FALSE
           Kept == /\ request'.slots = request.slots
                   /\ request'.deadline = request.deadline
<1>1. request \in RequestType /\ yes \in BOOLEAN /\ no \in BOOLEAN
  BY DEF TypeOK
<1>2. ASSUME request' = request
      PROVE  request' \in RequestType /\ Kept
  BY <1>1, <1>2
<1>3. CASE Elsewhere
  BY <1>2, <1>3 DEF Elsewhere
<1>4. CASE ByAudio
  <2>1. CASE AudioArrives \/ AudioProcess
    <3>1. request' = request
      BY <2>1, Zenon DEF AudioArrives, AudioProcess
    <3>2. QED
      BY <1>2, <3>1
  <2>2. CASE AudioPost
    <3>1. One(audio.posts) \/ Two(audio.posts)
      BY <2>2 DEF AudioPost, PostsInv
    <3>2. Head(audio.posts) \in PostType
      BY <3>1 DEF One, Two
    <3>3. QED
      BY <2>2, <3>2, PostRequest
  <2>3. QED
    BY <1>4, <2>1, <2>2 DEF ByAudio
<1>5. CASE ByWorker
  <2>1. CASE WorkerWake
    <3>1. request' = request \/ request' = Taken
      BY <2>1 DEF WorkerWake
    <3>2. QED
      BY <1>1, <2>1, <3>1, TakenType
  <2>2. CASE \/ RebuildRead \/ RebuildInstall \/ WorkerRetry
             \/ StatusRead \/ StatusShow
    <3>1. request' = request
      BY <2>2, Zenon DEF RebuildRead, RebuildInstall, WorkerRetry, StatusRead,
                         StatusShow
    <3>2. QED
      BY <1>2, <3>1
  <2>3. QED
    BY <1>5, <2>1, <2>2 DEF ByWorker
<1>6. CASE DeadlinePasses
  <2>1. request' = [request EXCEPT !.due = yes]
    BY <1>6 DEF DeadlinePasses
  <2> HIDE DEF yes
  <2>2. request' \in RequestType
    BY <1>1, <2>1, RequestSetters
  <2>3. Kept
    BY <1>1, <2>1, SMT DEF RequestType
  <2>4. QED
    BY <2>2, <2>3
<1>7. CASE Destroy
  <2>1. request' = [request EXCEPT !.stop = yes]
    BY <1>7 DEF Destroy
  <2> HIDE DEF yes
  <2>2. request' \in RequestType
    BY <1>1, <2>1, RequestSetters
  <2>3. Kept
    BY <1>1, <2>1, SMT DEF RequestType
  <2>4. QED
    BY <2>2, <2>3
<1>8. ASSUME NEW c \in Clients, ByClient(c)
      PROVE  request' \in RequestType /\ (ResetClear(c) \/ Kept)
  <2>1. CASE UpdateInstall(c) \/ ResetInstall(c) \/ BoundaryInstall(c)
    <3>1. request' = request
      BY <2>1, Zenon DEF UpdateInstall, ResetInstall, BoundaryInstall
    <3>2. QED
      BY <1>2, <3>1
  <2>2. CASE Notify(c)
    <3>1. request' = [request EXCEPT !.news = yes]
      BY <2>2 DEF Notify
    <3> HIDE DEF yes
    <3>2. request' \in RequestType
      BY <1>1, <3>1, RequestSetters
    <3>3. Kept
      BY <1>1, <3>1, SMT DEF RequestType
    <3>4. QED
      BY <3>2, <3>3
  <2>3. CASE ResetClear(c)
    <3> DEFINE a == [request EXCEPT !.deadline = 0]
               b == [a EXCEPT !.due = no]
    <3>1. request' = [request EXCEPT !.deadline = 0, !.due = no]
      BY <2>3 DEF ResetClear
    <3> HIDE DEF no
    <3>2. 0 \in 0 .. LastDelay
      BY DEF LastDelay
    <3>3. a \in RequestType
      BY <1>1, <3>2, RequestSetters
    <3> HIDE DEF a
    <3>4. b \in RequestType
      BY <1>1, <3>3, RequestSetters
    <3>5. request' = b
      BY <3>1, Zenon DEF a
    <3>6. QED
      BY <2>3, <3>4, <3>5
  <2>4. QED
    BY <1>8, <2>1, <2>2, <2>3 DEF ByClient
<1>9. QED
  BY <1>3, <1>4, <1>5, <1>6, <1>7, <1>8, StepKinds

-----------------------------------------------------------------------------
\* A field of the worker set to a value of its kind leaves a worker.
LEMMA WorkerSetters ==
    ASSUME NEW w \in WorkerType
    PROVE  /\ \A x \in WorkerPcs : [w EXCEPT !.pc = x] \in WorkerType
           /\ \A x \in BOOLEAN : /\ [w EXCEPT !.timed = x] \in WorkerType
                                 /\ [w EXCEPT !.retry = x] \in WorkerType
           /\ \A x \in Formats : [w EXCEPT !.format = x] \in WorkerType
           /\ \A x \in Paths : [w EXCEPT !.model = x] \in WorkerType
<1>1. \A x \in WorkerPcs : [w EXCEPT !.pc = x] \in WorkerType
  BY Zenon DEF WorkerType
<1>2. \A x \in BOOLEAN : [w EXCEPT !.timed = x] \in WorkerType
  BY Zenon DEF WorkerType
<1>3. \A x \in BOOLEAN : [w EXCEPT !.retry = x] \in WorkerType
  BY Zenon DEF WorkerType
<1>4. \A x \in Formats : [w EXCEPT !.format = x] \in WorkerType
  BY Zenon DEF WorkerType
<1>5. \A x \in Paths : [w EXCEPT !.model = x] \in WorkerType
  BY Zenon DEF WorkerType
<1>6. QED
  BY <1>1, <1>2, <1>3, <1>4, <1>5

\* A waiting worker has no retry in hand.
LEMMA NoWorkType ==
    ASSUME obs \in Formats
    PROVE  /\ NoWork \in WorkerType /\ NoWork.pc = "waiting"
           /\ NoWork.retry = FALSE
BY DEF NoWork, WorkerType, WorkerPcs, AnyFormat, Paths

\* Every step leaves the worker in type.
LEMMA WorkerStepType ==
    ASSUME TypeOK, [Next]_vars
    PROVE  worker' \in WorkerType
<1>1. /\ worker \in WorkerType /\ proc \in ViewType
      /\ NoWork \in WorkerType /\ NoWork.pc = "waiting"
  BY NoWorkType DEF TypeOK
<1>2. /\ proc.format \in Formats /\ proc.model \in Paths
  BY <1>1, ViewFields
<1>3. \A x \in {"rebuild", "install", "retry", "status", "snapshot",
                "stopped"} : x \in WorkerPcs
  BY DEF WorkerPcs
<1>4. AfterRebuild \in WorkerPcs
  BY DEF AfterRebuild, WorkerPcs
<1>5. ASSUME NEW w \in WorkerType, NEW pc \in WorkerPcs, NEW x \in BOOLEAN
      PROVE  [w EXCEPT !.pc = pc, !.retry = x] \in WorkerType
  <2> DEFINE a == [w EXCEPT !.pc = pc]
             b == [a EXCEPT !.retry = x]
  <2>1. a \in WorkerType
    BY <1>5, WorkerSetters
  <2> HIDE DEF a
  <2>2. b \in WorkerType
    BY <1>5, <2>1, WorkerSetters
  <2>3. b = [w EXCEPT !.pc = pc, !.retry = x]
    BY Zenon DEF a
  <2>4. QED
    BY <2>2, <2>3
<1>6. CASE WorkerWake
  <2> DEFINE expired == Expired
             timed   == Taken.deadline > 0
             yes     == TRUE
  <2>1. \/ worker' = [NoWork EXCEPT !.pc = "stopped"]
        \/ worker' = [NoWork EXCEPT !.pc = "rebuild", !.retry = expired]
        \/ worker' = [NoWork EXCEPT !.pc = "retry", !.retry = yes]
        \/ worker' = [NoWork EXCEPT !.pc = "status"]
        \/ worker' = [NoWork EXCEPT !.timed = timed]
    BY <1>6 DEF WorkerWake, WorkerWaits
  <2>2. expired \in BOOLEAN /\ timed \in BOOLEAN /\ yes \in BOOLEAN
    BY DEF Expired
  <2> HIDE DEF expired, timed, yes
  <2>3. /\ [NoWork EXCEPT !.pc = "stopped"] \in WorkerType
        /\ [NoWork EXCEPT !.pc = "status"] \in WorkerType
        /\ [NoWork EXCEPT !.timed = timed] \in WorkerType
    BY <1>1, <1>3, <2>2, WorkerSetters
  <2>4. /\ [NoWork EXCEPT !.pc = "rebuild", !.retry = expired] \in WorkerType
        /\ [NoWork EXCEPT !.pc = "retry", !.retry = yes] \in WorkerType
    BY <1>1, <1>3, <1>5, <2>2
  <2>5. QED
    BY <2>1, <2>3, <2>4, Zenon
<1>7. CASE RebuildRead
  <2>1. CASE worker' = [worker EXCEPT !.pc = "install", !.format = proc.format,
                                      !.model = proc.model]
    <3> DEFINE a == [worker EXCEPT !.pc = "install"]
               b == [a EXCEPT !.format = proc.format]
               c == [b EXCEPT !.model = proc.model]
    <3>1. a \in WorkerType
      BY <1>1, <1>3, WorkerSetters
    <3> HIDE DEF a
    <3>2. b \in WorkerType
      BY <1>2, <3>1, WorkerSetters
    <3> HIDE DEF b
    <3>3. c \in WorkerType
      BY <1>2, <3>2, WorkerSetters
    <3>4. worker' = c
      BY <2>1, Zenon DEF a, b
    <3>5. QED
      BY <3>3, <3>4
  <2>2. CASE worker' = [worker EXCEPT !.pc = AfterRebuild]
    BY <1>1, <1>4, <2>2, WorkerSetters
  <2>3. QED
    BY <1>7, <2>1, <2>2 DEF RebuildRead
<1>8. CASE RebuildInstall
  <2> DEFINE pc == AfterRebuild
             retry == worker.retry
  <2>1. worker' = [NoWork EXCEPT !.pc = pc, !.retry = retry]
    BY <1>8 DEF RebuildInstall
  <2>2. pc \in WorkerPcs /\ retry \in BOOLEAN
    BY <1>1, <1>4, Zenon DEF WorkerType
  <2> HIDE DEF pc, retry
  <2>3. QED
    BY <1>1, <1>5, <2>1, <2>2
<1>9. CASE WorkerRetry
  <2> DEFINE no == FALSE
  <2>1. worker' = [worker EXCEPT !.pc = "status", !.retry = no]
    BY <1>9 DEF WorkerRetry
  <2>2. no \in BOOLEAN
    OBVIOUS
  <2> HIDE DEF no
  <2>3. QED
    BY <1>1, <1>3, <1>5, <2>1, <2>2
<1>10. CASE StatusRead
  <2> DEFINE a == [worker EXCEPT !.pc = "snapshot"]
             b == [a EXCEPT !.model = proc.model]
  <2>1. a \in WorkerType
    BY <1>1, <1>3, WorkerSetters
  <2> HIDE DEF a
  <2>2. b \in WorkerType
    BY <1>2, <2>1, WorkerSetters
  <2>3. worker' = b
    BY <1>10, Zenon DEF StatusRead, a
  <2>4. QED
    BY <2>2, <2>3
<1>11. CASE StatusShow
  <2> DEFINE timed == request.deadline > 0
  <2>1. worker' = [NoWork EXCEPT !.timed = timed]
    BY <1>11 DEF StatusShow, WorkerWaits
  <2>2. timed \in BOOLEAN
    OBVIOUS
  <2> HIDE DEF timed
  <2>3. QED
    BY <1>1, <2>1, <2>2, WorkerSetters
<1>12. CASE \/ Elsewhere \/ ByAudio \/ DeadlinePasses \/ Destroy
            \/ \E c \in Clients : ByClient(c)
  <2>1. worker' = worker
    BY <1>12, Zenon DEF Elsewhere, ByAudio, AudioArrives, AudioProcess, AudioPost,
       DeadlinePasses, Destroy, ByClient, UpdateInstall, ResetInstall,
       ResetClear, BoundaryInstall, Notify
  <2>2. QED
    BY <1>1, <2>1
<1>13. QED
  BY <1>6, <1>7, <1>8, <1>9, <1>10, <1>11, <1>12, StepKinds DEF ByWorker

-----------------------------------------------------------------------------
(***************************************************************************)
(* The calling threads.                                                    *)
(***************************************************************************)
\* What an update reads of the processor before it prepares.
OldType == [format : Formats, model : Paths, path : BOOLEAN, stale : BOOLEAN]

\* A field of a calling thread set to a value of its kind.
LEMMA ClientSetters ==
    ASSUME NEW k \in ClientType
    PROVE  /\ \A x \in ClientPcs : [k EXCEPT !.pc = x] \in ClientType
           /\ \A x \in Paths : [k EXCEPT !.path = x] \in ClientType
           /\ \A x \in BOOLEAN : [k EXCEPT !.switch = x] \in ClientType
           /\ \A x \in Formats : [k EXCEPT !.format = x] \in ClientType
           /\ \A x \in OldType : [k EXCEPT !.old = x] \in ClientType
           /\ \A x \in Loads : [k EXCEPT !.load = x] \in ClientType
           /\ \A x \in Attempts : /\ [k EXCEPT !.pair = x] \in ClientType
                                  /\ [k EXCEPT !.fallback = x] \in ClientType
<1>1. \A x \in ClientPcs : [k EXCEPT !.pc = x] \in ClientType
  BY Zenon DEF ClientType
<1>2. \A x \in Paths : [k EXCEPT !.path = x] \in ClientType
  BY Zenon DEF ClientType
<1>3. \A x \in BOOLEAN : [k EXCEPT !.switch = x] \in ClientType
  BY Zenon DEF ClientType
<1>4. \A x \in Formats : [k EXCEPT !.format = x] \in ClientType
  BY Zenon DEF ClientType
<1>5. \A x \in OldType : [k EXCEPT !.old = x] \in ClientType
  BY Zenon DEF ClientType, OldType
<1>6. \A x \in Loads : [k EXCEPT !.load = x] \in ClientType
  BY Zenon DEF ClientType
<1>7. \A x \in Attempts : [k EXCEPT !.pair = x] \in ClientType
  BY Zenon DEF ClientType
<1>8. \A x \in Attempts : [k EXCEPT !.fallback = x] \in ClientType
  BY Zenon DEF ClientType
<1>9. QED
  BY <1>1, <1>2, <1>3, <1>4, <1>5, <1>6, <1>7, <1>8

\* The calling threads, typed and holding what they prepared.
ClientOK == client \in [Clients -> ClientType] /\ ClientInv

\* A step of one thread leaves the others as they were.
LEMMA ClientChange ==
    ASSUME ClientOK, NEW c \in Clients, NEW k \in ClientType, PairWanted(k),
           client' = [client EXCEPT ![c] = k]
    PROVE  ClientOK'
<1>1. client' \in [Clients -> ClientType]
  BY DEF ClientOK
<1>2. ASSUME NEW d \in Clients PROVE PairWanted(client'[d])
  <2>1. CASE d = c
    <3>1. client'[d] = k
      BY <2>1 DEF ClientOK
    <3>2. QED
      BY <3>1
  <2>2. CASE d # c
    <3>1. client'[d] = client[d]
      BY <2>2 DEF ClientOK
    <3>2. QED
      BY <3>1 DEF ClientOK, ClientInv
  <2>3. QED
    BY <2>1, <2>2
<1>3. QED
  BY <1>1, <1>2 DEF ClientOK, ClientInv

\* A thread outside every call, and one between a call's sections.
LEMMA AwayType ==
    ASSUME obs \in Formats
    PROVE  /\ Away \in ClientType /\ Away.pc = "idle"
           /\ AnyOld \in OldType
           /\ [Away EXCEPT !.pc = "clear"] \in ClientType
           /\ [Away EXCEPT !.pc = "notify"] \in ClientType
           /\ [Away EXCEPT !.pc = "clear"].pc = "clear"
           /\ [Away EXCEPT !.pc = "notify"].pc = "notify"
<1>1. AnyOld \in OldType
  BY DEF AnyOld, AnyFormat, OldType, Paths
<1>2. AnyFormat \in Formats
  BY DEF AnyFormat
<1>3. Away \in ClientType /\ Away.pc = "idle"
  BY <1>1, <1>2, SMT DEF Away, ClientType, OldType, ClientPcs, UpdatePcs, ResetPcs, BoundaryPcs,
       Paths, Loads, Attempts
<1>4. "clear" \in ClientPcs /\ "notify" \in ClientPcs
  BY DEF ClientPcs, ResetPcs, BoundaryPcs
<1>5. /\ [Away EXCEPT !.pc = "clear"].pc = "clear"
      /\ [Away EXCEPT !.pc = "notify"].pc = "notify"
  BY DEF Away
<1>6. QED
  BY <1>1, <1>3, <1>4, <1>5, ClientSetters

\* A thread that has nothing prepared wants no pair.
LEMMA NothingWanted ==
    ASSUME NEW k, k.pc \notin {"fallback", "install"}
    PROVE  PairWanted(k)
BY DEF PairWanted

\* A step that only moves the thread on.
LEMMA ClientMoves ==
    ASSUME ClientOK, NEW c \in Clients,
           NEW pc \in ClientPcs \ {"fallback", "install"},
           client' = [client EXCEPT ![c] = [client[c] EXCEPT !.pc = pc]]
    PROVE  ClientOK'
<1> DEFINE k == [client[c] EXCEPT !.pc = pc]
<1>1. client[c] \in ClientType
  BY DEF ClientOK
<1>2. k \in ClientType
  BY <1>1, ClientSetters
<1>3. k.pc = pc
  BY <1>1, Zenon DEF ClientType
<1>4. client' = [client EXCEPT ![c] = k]
  OBVIOUS
<1> HIDE DEF k
<1>5. PairWanted(k)
  BY <1>3, NothingWanted
<1>6. QED
  BY <1>2, <1>4, <1>5, ClientChange

\* What a thread reads of the processor is in type.
LEMMA OldStateType ==
    ASSUME proc \in ViewType
    PROVE  OldState \in OldType
<1> DEFINE path == Path(proc)
           stale == Stale(proc)
           f == proc.format
           m == proc.model
<1>1. OldState = [format |-> f, model |-> m, path |-> path, stale |-> stale]
  BY DEF OldState
<1>2. path \in BOOLEAN /\ stale \in BOOLEAN
  BY DEF Path, ResamplerMatches, Stale
<1>3. f \in Formats /\ m \in Paths
  BY ViewFields
<1> HIDE DEF path, stale, f, m
<1>4. QED
  BY <1>1, <1>2, <1>3, Zenon DEF OldType

\* A read of the processor under its mutex leaves the thread in order.
LEMMA ReadStep ==
    ASSUME ClientOK, proc \in ViewType, NEW c \in Clients,
           NEW pc \in ClientPcs \ {"fallback", "install"},
           client' = [client EXCEPT ![c].pc = pc, ![c].old = OldState]
    PROVE  ClientOK'
<1> DEFINE a == [client[c] EXCEPT !.pc = pc]
           old == OldState
           k == [a EXCEPT !.old = old]
<1>1. client[c] \in ClientType
  BY DEF ClientOK
<1>2. old \in OldType
  BY OldStateType
<1> HIDE DEF old
<1>3. a \in ClientType
  BY <1>1, ClientSetters
<1>4. a.pc = pc
  BY <1>1, Zenon DEF ClientType
<1>5. client' = [client EXCEPT ![c] = k]
  BY Zenon DEF ClientOK, old
<1> HIDE DEF a
<1>6. k \in ClientType
  BY <1>2, <1>3, ClientSetters
<1>7. k.pc = pc
  BY <1>3, <1>4, Zenon DEF ClientType
<1> HIDE DEF k
<1>8. PairWanted(k)
  BY <1>7, NothingWanted
<1>9. QED
  BY <1>5, <1>6, <1>8, ClientChange

\* So does the start of an update.
LEMMA BeginStep ==
    ASSUME ClientOK, obs \in Formats, NEW c \in Clients, BeginUpdate(c)
    PROVE  ClientOK'
<1>1. PICK path \in Paths, switch \in BOOLEAN :
        client' = [client EXCEPT ![c].pc = "read", ![c].format = obs,
                                 ![c].path = path, ![c].switch = switch]
  BY DEF BeginUpdate
<1> DEFINE a == [client[c] EXCEPT !.pc = "read"]
           b == [a EXCEPT !.format = obs]
           d == [b EXCEPT !.path = path]
           k == [d EXCEPT !.switch = switch]
<1>2. client[c] \in ClientType
  BY DEF ClientOK
<1>3. "read" \in ClientPcs
  BY DEF ClientPcs, UpdatePcs
<1>4. client' = [client EXCEPT ![c] = k]
  BY <1>1, Zenon DEF ClientOK
<1>5. a \in ClientType
  BY <1>2, <1>3, ClientSetters
<1>6. a.pc = "read"
  BY <1>2, Zenon DEF ClientType
<1> HIDE DEF a
<1>7. b \in ClientType
  BY <1>5, ClientSetters
<1>8. b.pc = "read"
  BY <1>5, <1>6, Zenon DEF ClientType
<1> HIDE DEF b
<1>9. d \in ClientType
  BY <1>1, <1>7, ClientSetters
<1>10. d.pc = "read"
  BY <1>7, <1>8, Zenon DEF ClientType
<1> HIDE DEF d
<1>11. k \in ClientType
  BY <1>1, <1>9, ClientSetters
<1>12. k.pc = "read"
  BY <1>9, <1>10, Zenon DEF ClientType
<1> HIDE DEF k
<1>13. PairWanted(k)
  BY <1>12, NothingWanted
<1>14. QED
  BY <1>4, <1>11, <1>13, ClientChange

\* A pair is prepared for the model that is to run in the format that is to
\* come, and only when the two differ.
LEMMA PrepareStep ==
    ASSUME ClientOK, NEW c \in Clients, UpdatePrepare(c)
    PROVE  ClientOK'
<1> DEFINE k == client[c]
<1>1. PICK loads \in MaySucceed("load"), prepared \in MaySucceed("prepare") :
         LET got    == WantsLoad(k) /\ k.path # NoModel /\ loads
             target == IF got THEN k.path ELSE k.old.model
             fresh  == /\ Resamples(k.format, target)
                       /\ \/ got \/ k.switch \/ FormatBoundary(k)
                          \/ ~ResamplerMatches(proc, k.format, target)
             failed == fresh /\ ~prepared
         IN client' = [client EXCEPT
              ![c].load = IF got THEN IF failed THEN "unpaired" ELSE "loaded"
                          ELSE IF WantsLoad(k) THEN "rejected" ELSE "none",
              ![c].pair = IF failed THEN "failed"
                          ELSE IF fresh THEN "ready" ELSE "none",
              ![c].fallback = "none",
              ![c].pc = IF got /\ failed /\ OldNeedsResamplers(k)
                        THEN "fallback" ELSE "install"]
  BY Zenon DEF UpdatePrepare
<1> DEFINE got    == WantsLoad(k) /\ k.path # NoModel /\ loads
           target == IF got THEN k.path ELSE k.old.model
           fresh  == /\ Resamples(k.format, target)
                     /\ \/ got \/ k.switch \/ FormatBoundary(k)
                        \/ ~ResamplerMatches(proc, k.format, target)
           failed == fresh /\ ~prepared
           load == IF got THEN IF failed THEN "unpaired" ELSE "loaded"
                   ELSE IF WantsLoad(k) THEN "rejected" ELSE "none"
           pair == IF failed THEN "failed"
                   ELSE IF fresh THEN "ready" ELSE "none"
           pc == IF got /\ failed /\ OldNeedsResamplers(k)
                 THEN "fallback" ELSE "install"
           a == [k EXCEPT !.load = load]
           b == [a EXCEPT !.pair = pair]
           d == [b EXCEPT !.fallback = "none"]
           e == [d EXCEPT !.pc = pc]
<1>2. client' = [client EXCEPT ![c].load = load, ![c].pair = pair,
                               ![c].fallback = "none", ![c].pc = pc]
  BY <1>1, Zenon
<1>3. /\ fresh => Resamples(k.format, target)
      /\ target = IF got THEN k.path ELSE k.old.model
  OBVIOUS
<1>4. k \in ClientType
  BY DEF ClientOK
<1>5. /\ load \in Loads /\ (load \in {"loaded", "unpaired"} <=> got)
      /\ pair \in Attempts /\ (pair = "ready" => fresh)
      /\ pc \in ClientPcs /\ pc \in {"fallback", "install"}
      /\ pc = "fallback" => OldNeedsResamplers(k)
      /\ "none" \in Attempts
  <2> HIDE DEF got, fresh, failed, k
  <2>1. QED
    BY DEF Loads, Attempts, ClientPcs, UpdatePcs
<1> HIDE DEF k, got, target, fresh, failed, load, pair, pc
<1>6. client' = [client EXCEPT ![c] = e]
  BY <1>2, Zenon DEF ClientOK, k
<1>7. /\ e.load = load /\ e.pair = pair /\ e.fallback = "none" /\ e.pc = pc
      /\ e.format = k.format /\ e.path = k.path /\ e.old = k.old
  BY <1>4, SMT DEF ClientType
<1>8. e \in ClientType
  <2>1. a \in ClientType
    BY <1>4, <1>5, ClientSetters
  <2> HIDE DEF a
  <2>2. b \in ClientType
    BY <1>5, <2>1, ClientSetters
  <2> HIDE DEF b
  <2>3. d \in ClientType
    BY <1>5, <2>2, ClientSetters
  <2> HIDE DEF d
  <2>4. QED
    BY <1>5, <2>3, ClientSetters
<1> HIDE DEF e
<1>9. TargetModel(e) = target
  BY <1>3, <1>5, <1>7 DEF TargetModel
<1>10. OldNeedsResamplers(e) = OldNeedsResamplers(k)
  BY <1>7 DEF OldNeedsResamplers
<1>11. PairWanted(e)
  <2>1. e.pair = "ready" => Resamples(e.format, TargetModel(e))
    BY <1>3, <1>5, <1>7, <1>9
  <2>2. e.pc = "fallback" => OldNeedsResamplers(e)
    BY <1>5, <1>7, <1>10
  <2>3. e.fallback # "ready"
    BY <1>7
  <2>4. QED
    BY <2>1, <2>2, <2>3 DEF PairWanted
<1>12. QED
  BY <1>6, <1>8, <1>11, ClientChange

\* The fallback pair is prepared for the model that keeps running, when that
\* one needs resamplers.
LEMMA FallbackStep ==
    ASSUME ClientOK, NEW c \in Clients, UpdateFallback(c)
    PROVE  ClientOK'
<1> DEFINE k == client[c]
<1>1. PICK prepared \in MaySucceed("prepare") :
         LET needed == \/ FormatBoundary(k)
                       \/ ~ResamplerMatches(proc, k.format, k.old.model)
         IN client' = [client EXCEPT
              ![c].pc = "install",
              ![c].fallback = IF ~needed THEN "none"
                              ELSE IF prepared THEN "ready" ELSE "failed"]
  BY Zenon DEF UpdateFallback
<1> DEFINE needed == \/ FormatBoundary(k)
                     \/ ~ResamplerMatches(proc, k.format, k.old.model)
           fallback == IF ~needed THEN "none"
                       ELSE IF prepared THEN "ready" ELSE "failed"
           a == [k EXCEPT !.pc = "install"]
           e == [a EXCEPT !.fallback = fallback]
<1>2. client' = [client EXCEPT ![c].pc = "install", ![c].fallback = fallback]
  BY <1>1, Zenon
<1>3. k \in ClientType /\ k.pc = "fallback" /\ PairWanted(k)
  BY DEF ClientOK, ClientInv, UpdateFallback
<1>4. fallback \in Attempts /\ "install" \in ClientPcs
  BY DEF Attempts, ClientPcs, UpdatePcs
<1> HIDE DEF fallback, k
<1>5. client' = [client EXCEPT ![c] = e]
  BY <1>2, Zenon DEF ClientOK, k
<1>6. /\ e.pc = "install" /\ e.load = k.load /\ e.pair = k.pair
      /\ e.format = k.format /\ e.path = k.path /\ e.old = k.old
  BY <1>3, SMT DEF ClientType
<1>7. e \in ClientType
  <2>1. a \in ClientType
    BY <1>3, <1>4, ClientSetters
  <2> HIDE DEF a
  <2>2. QED
    BY <1>4, <2>1, ClientSetters
<1> HIDE DEF e
<1>8. /\ TargetModel(e) = TargetModel(k)
      /\ OldNeedsResamplers(e) = OldNeedsResamplers(k)
  BY <1>6 DEF TargetModel, OldNeedsResamplers
<1>9. PairWanted(e)
  BY <1>3, <1>6, <1>8 DEF PairWanted
<1>10. QED
  BY <1>5, <1>7, <1>9, ClientChange

\* Every step leaves the calling threads in order.
LEMMA ClientTypeStep ==
    ASSUME TypeOK, ClientInv, [Next]_vars
    PROVE  ClientOK'
<1>1. ClientOK /\ proc \in ViewType /\ obs \in Formats
  BY DEF TypeOK, ClientOK
<1>2. ASSUME client' = client PROVE ClientOK'
  BY <1>1, <1>2 DEF ClientOK, ClientInv
<1>3. /\ {"update", "read", "prepare", "reset", "resetInstall", "boundary",
          "boundaryInstall", "notify", "idle"}
           \subseteq ClientPcs \ {"fallback", "install"}
  BY DEF ClientPcs, UpdatePcs, ResetPcs, BoundaryPcs
<1>4. CASE \/ vars' = vars \/ AudioStep \/ WorkerStep \/ DeadlinePasses
           \/ ResetObsAudio \/ Destroy
  <2>1. client' = client
    BY <1>4, Zenon DEF vars, AudioStep, AudioArrives, AudioProcess, AudioPost,
       WorkerStep, WorkerWake, RebuildRead, RebuildInstall, WorkerRetry,
       StatusRead, StatusShow, DeadlinePasses, ResetObsAudio, Destroy
  <2>2. QED
    BY <1>2, <2>1
<1>5. ASSUME NEW c \in Clients, ClientCall(c) PROVE ClientOK'
  <2>1. \/ client' = [client EXCEPT ![c].pc = "update"]
        \/ client' = [client EXCEPT ![c].pc = "reset"]
        \/ client' = [client EXCEPT ![c].pc = "boundary"]
        \/ client' = [client EXCEPT ![c].pc = "notify"]
    BY <1>5, Zenon DEF ClientCall, CallUpdate, CallReset, CallDisable, CallEnable
  <2>2. PICK pc \in ClientPcs \ {"fallback", "install"} :
          client' = [client EXCEPT ![c].pc = pc]
    BY <1>3, <2>1
  <2>3. QED
    BY <1>1, <2>2, ClientMoves
<1>6. ASSUME NEW c \in Clients, ClientStep(c) PROVE ClientOK'
  <2>1. CASE BeginUpdate(c)
    BY <1>1, <2>1, BeginStep
  <2>2. CASE UpdateRead(c) \/ ResetRead(c) \/ BoundaryRead(c)
    <3>1. \/ client' = [client EXCEPT ![c].pc = "prepare", ![c].old = OldState]
          \/ client' = [client EXCEPT ![c].pc = "resetInstall",
                                      ![c].old = OldState]
          \/ client' = [client EXCEPT ![c].pc = "boundaryInstall",
                                      ![c].old = OldState]
      BY <2>2, Zenon DEF UpdateRead, ResetRead, BoundaryRead, ReadForReset
    <3>2. "prepare" \in ClientPcs \ {"fallback", "install"}
      BY DEF ClientPcs, UpdatePcs
    <3>3. PICK pc \in ClientPcs \ {"fallback", "install"} :
            client' = [client EXCEPT ![c].pc = pc, ![c].old = OldState]
      BY <1>3, <3>1, <3>2
    <3>4. QED
      BY <1>1, <3>3, ReadStep
  <2>3. CASE UpdatePrepare(c)
    BY <1>1, <2>3, PrepareStep
  <2>4. CASE UpdateFallback(c)
    BY <1>1, <2>4, FallbackStep
  <2>5. CASE \/ UpdateInstall(c) \/ ResetInstall(c) \/ BoundaryInstall(c)
    <3>1. PICK k \in {Away, [Away EXCEPT !.pc = "clear"],
                      [Away EXCEPT !.pc = "notify"]} :
            client' = [client EXCEPT ![c] = k]
      BY <2>5, Zenon DEF UpdateInstall, ResetInstall, BoundaryInstall
    <3>2. k \in ClientType /\ k.pc \in {"idle", "clear", "notify"}
      BY <1>1, AwayType
    <3>3. PairWanted(k)
      BY <3>2, NothingWanted
    <3>4. QED
      BY <1>1, <3>1, <3>2, <3>3, ClientChange
  <2>6. CASE ResetClear(c) \/ Notify(c)
    <3>1. \/ client' = [client EXCEPT ![c].pc = "update"]
          \/ client' = [client EXCEPT ![c].pc = "idle"]
      BY <2>6, Zenon DEF ResetClear, Notify
    <3>2. PICK pc \in ClientPcs \ {"fallback", "install"} :
            client' = [client EXCEPT ![c].pc = pc]
      BY <1>3, <3>1
    <3>3. QED
      BY <1>1, <3>2, ClientMoves
  <2>7. QED
    BY <1>6, <2>1, <2>2, <2>3, <2>4, <2>5, <2>6, Zenon DEF ClientStep
<1>7. QED
  BY <1>4, <1>5, <1>6 DEF Next

-----------------------------------------------------------------------------
(***************************************************************************)
(* update_mutex_.                                                          *)
(***************************************************************************)
\* The steps of a call that are taken with update_mutex_ held.
Held == {"read", "prepare", "fallback", "install", "resetInstall",
         "boundaryInstall"}

\* update_mutex_ is held by the one thread that is in such a step.
LockInv ==
    /\ updateLock = "worker" <=> worker.pc \in {"install", "snapshot"}
    /\ \A c \in Clients : updateLock = c <=> client[c].pc \in Held

\* How a call moves with respect to update_mutex_.
Takes(c)   == /\ updateLock = "free" /\ updateLock' = c
              /\ client[c].pc \notin Held /\ client'[c].pc \in Held
Holds(c)   == /\ updateLock' = updateLock
              /\ client[c].pc \in Held /\ client'[c].pc \in Held
Frees(c)   == /\ updateLock' = "free"
              /\ client[c].pc \in Held /\ client'[c].pc \notin Held
Outside(c) == /\ updateLock' = updateLock
              /\ client[c].pc \notin Held /\ client'[c].pc \notin Held

\* The steps of an update up to its section.
LEMMA UpdateForward ==
    ASSUME client \in [Clients -> ClientType], NEW c \in Clients,
           UpdateRead(c) \/ UpdatePrepare(c) \/ UpdateFallback(c)
    PROVE  /\ client'[c].pc \in {"prepare", "fallback", "install"}
           /\ \A d \in Clients \ {c} : client'[d] = client[d]
<1>1. CASE UpdateRead(c)
  <2>1. client' = [client EXCEPT ![c].pc = "prepare", ![c].old = OldState]
    BY <1>1 DEF UpdateRead
  <2>2. /\ client'[c].pc = "prepare"
        /\ \A d \in Clients \ {c} : client'[d] = client[d]
    BY <2>1, Zenon DEF ClientType
  <2>3. QED
    BY <2>2
<1>2. CASE UpdatePrepare(c)
  <2>1. PICK load, pair, fallback, pc :
          /\ pc \in {"fallback", "install"}
          /\ client' = [client EXCEPT ![c].load = load, ![c].pair = pair,
                                      ![c].fallback = fallback, ![c].pc = pc]
    <3> DEFINE k == client[c]
    <3>1. PICK loads \in MaySucceed("load"), prepared \in MaySucceed("prepare") :
            LET got    == WantsLoad(k) /\ k.path # NoModel /\ loads
                target == IF got THEN k.path ELSE k.old.model
                fresh  == /\ Resamples(k.format, target)
                          /\ \/ got \/ k.switch \/ FormatBoundary(k)
                             \/ ~ResamplerMatches(proc, k.format, target)
                failed == fresh /\ ~prepared
            IN client' = [client EXCEPT
                 ![c].load = IF got THEN IF failed THEN "unpaired" ELSE "loaded"
                             ELSE IF WantsLoad(k) THEN "rejected" ELSE "none",
                 ![c].pair = IF failed THEN "failed"
                             ELSE IF fresh THEN "ready" ELSE "none",
                 ![c].fallback = "none",
                 ![c].pc = IF got /\ failed /\ OldNeedsResamplers(k)
                           THEN "fallback" ELSE "install"]
      BY <1>2, Zenon DEF UpdatePrepare
    <3> DEFINE got    == WantsLoad(k) /\ k.path # NoModel /\ loads
               target == IF got THEN k.path ELSE k.old.model
               fresh  == /\ Resamples(k.format, target)
                         /\ \/ got \/ k.switch \/ FormatBoundary(k)
                            \/ ~ResamplerMatches(proc, k.format, target)
               failed == fresh /\ ~prepared
               load == IF got THEN IF failed THEN "unpaired" ELSE "loaded"
                       ELSE IF WantsLoad(k) THEN "rejected" ELSE "none"
               pair == IF failed THEN "failed"
                       ELSE IF fresh THEN "ready" ELSE "none"
               pc == IF got /\ failed /\ OldNeedsResamplers(k)
                     THEN "fallback" ELSE "install"
    <3>2. client' = [client EXCEPT ![c].load = load, ![c].pair = pair,
                                   ![c].fallback = "none", ![c].pc = pc]
      BY <3>1, Zenon
    <3>3. pc \in {"fallback", "install"}
      BY Zenon
    <3> HIDE DEF load, pair, pc
    <3>4. QED
      BY <3>2, <3>3, Zenon
  <2>2. /\ client'[c].pc = pc
        /\ \A d \in Clients \ {c} : client'[d] = client[d]
    BY <2>1, Zenon DEF ClientType
  <2>3. QED
    BY <2>1, <2>2
<1>3. CASE UpdateFallback(c)
  <2>1. PICK fallback :
          client' = [client EXCEPT ![c].pc = "install", ![c].fallback = fallback]
    BY <1>3 DEF UpdateFallback
  <2>2. /\ client'[c].pc = "install"
        /\ \A d \in Clients \ {c} : client'[d] = client[d]
    BY <2>1, Zenon DEF ClientType
  <2>3. QED
    BY <2>2
<1>4. QED
  BY <1>1, <1>2, <1>3

\* Every step of a call takes the mutex, keeps it, frees it or is outside it.
LEMMA LockMoves ==
    ASSUME TypeOK, NEW c \in Clients, ClientCall(c) \/ ClientStep(c)
    PROVE  /\ Takes(c) \/ Holds(c) \/ Frees(c) \/ Outside(c)
           /\ \A d \in Clients \ {c} : client'[d] = client[d]
           /\ worker' = worker
<1>1. client \in [Clients -> ClientType] /\ Away \in ClientType
  BY AwayType DEF TypeOK
<1>2. ASSUME NEW pc, client' = [client EXCEPT ![c].pc = pc]
      PROVE  /\ client'[c].pc = pc
             /\ \A d \in Clients \ {c} : client'[d] = client[d]
  BY <1>1, <1>2, Zenon DEF ClientType
<1>3. CASE ClientCall(c)
  <2>1. PICK pc \in {"update", "reset", "boundary", "notify"} :
          client' = [client EXCEPT ![c].pc = pc]
    BY <1>3, Zenon DEF ClientCall, CallUpdate, CallReset, CallDisable, CallEnable
  <2>2. client'[c].pc = pc /\ \A d \in Clients \ {c} : client'[d] = client[d]
    BY <1>2, <2>1
  <2>3. client[c].pc = "idle" /\ updateLock' = updateLock /\ worker' = worker
    BY <1>3, Zenon DEF ClientCall, CallUpdate, CallReset, CallDisable, CallEnable
  <2>4. Outside(c)
    BY <2>1, <2>2, <2>3, SMT DEF Outside, Held
  <2>5. QED
    BY <2>2, <2>3, <2>4
<1>4. CASE BeginUpdate(c)
  <2>1. PICK path, switch :
          client' = [client EXCEPT ![c].pc = "read", ![c].format = obs,
                                   ![c].path = path, ![c].switch = switch]
    BY <1>4 DEF BeginUpdate
  <2>2. /\ client'[c].pc = "read"
        /\ \A d \in Clients \ {c} : client'[d] = client[d]
    BY <1>1, <2>1, Zenon DEF ClientType
  <2>3. /\ client[c].pc = "update" /\ updateLock = "free" /\ updateLock' = c
        /\ worker' = worker
    BY <1>4 DEF BeginUpdate
  <2>4. Takes(c)
    BY <2>2, <2>3, SMT DEF Takes, Held
  <2>5. QED
    BY <2>2, <2>3, <2>4
<1>5. CASE UpdateRead(c) \/ UpdatePrepare(c) \/ UpdateFallback(c)
  <2>1. /\ client'[c].pc \in {"prepare", "fallback", "install"}
        /\ \A d \in Clients \ {c} : client'[d] = client[d]
    BY <1>1, <1>5, UpdateForward
  <2>2. /\ client[c].pc \in {"read", "prepare", "fallback"}
        /\ updateLock' = updateLock /\ worker' = worker
    BY <1>5, Zenon DEF UpdateRead, UpdatePrepare, UpdateFallback
  <2>3. Holds(c)
    BY <2>1, <2>2, SMT DEF Holds, Held
  <2>4. QED
    BY <2>1, <2>2, <2>3
<1>6. CASE UpdateInstall(c) \/ ResetInstall(c) \/ BoundaryInstall(c)
  <2>1. PICK k \in {Away, [Away EXCEPT !.pc = "clear"],
                    [Away EXCEPT !.pc = "notify"]} :
          client' = [client EXCEPT ![c] = k]
    BY <1>6, Zenon DEF UpdateInstall, ResetInstall, BoundaryInstall
  <2>2. k.pc \in {"idle", "clear", "notify"}
    BY AwayType DEF TypeOK
  <2>3. /\ client'[c] = k
        /\ \A d \in Clients \ {c} : client'[d] = client[d]
    BY <1>1, <2>1, Zenon
  <2>4. /\ client[c].pc \in {"install", "resetInstall", "boundaryInstall"}
        /\ updateLock' = "free" /\ worker' = worker
    BY <1>6 DEF UpdateInstall, ResetInstall, BoundaryInstall
  <2>5. Frees(c)
    BY <2>2, <2>3, <2>4, SMT DEF Frees, Held
  <2>6. QED
    BY <2>3, <2>4, <2>5
<1>7. CASE ResetRead(c) \/ BoundaryRead(c)
  <2>1. PICK pc \in {"resetInstall", "boundaryInstall"} :
          client' = [client EXCEPT ![c].pc = pc, ![c].old = OldState]
    BY <1>7, Zenon DEF ResetRead, BoundaryRead, ReadForReset
  <2>2. /\ client'[c].pc = pc
        /\ \A d \in Clients \ {c} : client'[d] = client[d]
    BY <1>1, <2>1, Zenon DEF ClientType
  <2>3. /\ client[c].pc \in {"reset", "boundary"} /\ updateLock = "free"
        /\ updateLock' = c /\ worker' = worker
    BY <1>7, Zenon DEF ResetRead, BoundaryRead, ReadForReset
  <2>4. Takes(c)
    BY <2>1, <2>2, <2>3, SMT DEF Takes, Held
  <2>5. QED
    BY <2>2, <2>3, <2>4
<1>8. CASE ResetClear(c) \/ Notify(c)
  <2>1. PICK pc \in {"update", "idle"} : client' = [client EXCEPT ![c].pc = pc]
    BY <1>8, Zenon DEF ResetClear, Notify
  <2>2. client'[c].pc = pc /\ \A d \in Clients \ {c} : client'[d] = client[d]
    BY <1>2, <2>1
  <2>3. /\ client[c].pc \in {"clear", "notify"} /\ updateLock' = updateLock
        /\ worker' = worker
    BY <1>8 DEF ResetClear, Notify
  <2>4. Outside(c)
    BY <2>1, <2>2, <2>3, SMT DEF Outside, Held
  <2>5. QED
    BY <2>2, <2>3, <2>4
<1>9. QED
  BY <1>3, <1>4, <1>5, <1>6, <1>7, <1>8, Zenon DEF ClientStep

\* One holder at a time, and the holder knows.
LEMMA LockStep ==
    ASSUME TypeOK, LockInv, [Next]_vars
    PROVE  LockInv' /\ updateLock' \in Clients \cup {"worker", "free"}
<1> DEFINE Worker == {"install", "snapshot"}
<1>1. "worker" \notin Clients /\ "free" \notin Clients
  BY FilterAssumption
<1>2. updateLock \in Clients \cup {"worker", "free"} /\ worker \in WorkerType
  BY DEF TypeOK
<1>3. ASSUME client' = client, updateLock' = updateLock,
             worker'.pc \in Worker <=> worker.pc \in Worker
      PROVE  LockInv' /\ updateLock' \in Clients \cup {"worker", "free"}
  BY <1>2, <1>3 DEF LockInv
<1>4. CASE \/ vars' = vars \/ AudioStep \/ DeadlinePasses \/ ResetObsAudio
           \/ Destroy
  <2>1. client' = client /\ updateLock' = updateLock /\ worker' = worker
    BY <1>4, Zenon DEF vars, AudioStep, AudioArrives, AudioProcess, AudioPost,
       DeadlinePasses, ResetObsAudio, Destroy
  <2>2. QED
    BY <1>3, <2>1
<1>5. ASSUME updateLock = "free", updateLock' = "worker", client' = client,
             worker'.pc \in Worker
      PROVE  LockInv' /\ updateLock' \in Clients \cup {"worker", "free"}
  BY <1>1, <1>5 DEF LockInv
<1>6. ASSUME worker.pc \in Worker, updateLock' = "free", client' = client,
             worker'.pc \notin Worker
      PROVE  LockInv' /\ updateLock' \in Clients \cup {"worker", "free"}
  BY <1>1, <1>6 DEF LockInv
<1>7. AfterRebuild \notin Worker
  BY DEF AfterRebuild
<1>8. CASE WorkerWake
  <2>1. /\ worker.pc = "waiting" /\ client' = client
        /\ updateLock' = updateLock
    BY <1>8 DEF WorkerWake
  <2>2. worker'.pc \in {"stopped", "rebuild", "retry", "status", "waiting"}
    <3>1. \/ worker' = [NoWork EXCEPT !.pc = "stopped"]
          \/ worker' = [NoWork EXCEPT !.pc = "rebuild", !.retry = Expired]
          \/ worker' = [NoWork EXCEPT !.pc = "retry", !.retry = TRUE]
          \/ worker' = [NoWork EXCEPT !.pc = "status"]
          \/ worker' = [NoWork EXCEPT !.timed = Taken.deadline > 0]
      BY <1>8 DEF WorkerWake, WorkerWaits
    <3>2. /\ [NoWork EXCEPT !.pc = "stopped"].pc = "stopped"
          /\ [NoWork EXCEPT !.pc = "rebuild", !.retry = Expired].pc = "rebuild"
          /\ [NoWork EXCEPT !.pc = "retry", !.retry = TRUE].pc = "retry"
          /\ [NoWork EXCEPT !.pc = "status"].pc = "status"
          /\ [NoWork EXCEPT !.timed = Taken.deadline > 0].pc = "waiting"
      BY DEF NoWork
    <3>3. QED
      BY <3>1, <3>2, Zenon
  <2>3. QED
    BY <1>3, <2>1, <2>2
<1>9. CASE RebuildRead
  <2>1. worker.pc = "rebuild" /\ updateLock = "free" /\ client' = client
    BY <1>9 DEF RebuildRead
  <2>2. CASE Stale(proc)
    <3>1. /\ updateLock' = "worker"
          /\ worker' = [worker EXCEPT !.pc = "install", !.format = proc.format,
                                      !.model = proc.model]
      BY <1>9, <2>2 DEF RebuildRead
    <3>2. worker'.pc = "install"
      BY <1>2, <3>1, Zenon DEF WorkerType
    <3>3. QED
      BY <1>5, <2>1, <3>1, <3>2
  <2>3. CASE ~Stale(proc)
    <3>1. /\ updateLock' = updateLock
          /\ worker' = [worker EXCEPT !.pc = AfterRebuild]
      BY <1>9, <2>3 DEF RebuildRead
    <3>2. worker'.pc = AfterRebuild
      BY <1>2, <3>1, Zenon DEF WorkerType
    <3>3. QED
      BY <1>3, <1>7, <2>1, <3>1, <3>2
  <2>4. QED
    BY <2>2, <2>3
<1>10. CASE RebuildInstall
  <2>1. /\ worker.pc = "install" /\ updateLock' = "free" /\ client' = client
        /\ worker' = [NoWork EXCEPT !.pc = AfterRebuild, !.retry = worker.retry]
    BY <1>10 DEF RebuildInstall
  <2>2. worker'.pc = AfterRebuild
    BY <2>1 DEF NoWork
  <2>3. QED
    BY <1>6, <1>7, <2>1, <2>2
<1>11. CASE WorkerRetry
  <2>1. /\ worker.pc = "retry" /\ updateLock' = updateLock /\ client' = client
        /\ worker' = [worker EXCEPT !.pc = "status", !.retry = FALSE]
    BY <1>11 DEF WorkerRetry
  <2>2. worker'.pc = "status"
    BY <1>2, <2>1, SMT DEF WorkerType
  <2>3. QED
    BY <1>3, <2>1, <2>2
<1>12. CASE StatusRead
  <2>1. /\ updateLock = "free" /\ updateLock' = "worker" /\ client' = client
        /\ worker' = [worker EXCEPT !.pc = "snapshot", !.model = proc.model]
    BY <1>12 DEF StatusRead
  <2>2. worker'.pc = "snapshot"
    BY <1>2, <2>1, Zenon DEF WorkerType
  <2>3. QED
    BY <1>5, <2>1, <2>2
<1>13. CASE StatusShow
  <2>1. /\ worker.pc = "snapshot" /\ updateLock' = "free" /\ client' = client
        /\ worker' = WorkerWaits(request)
    BY <1>13 DEF StatusShow
  <2>2. worker'.pc = "waiting"
    BY <2>1 DEF WorkerWaits, NoWork
  <2>3. QED
    BY <1>6, <2>1, <2>2
<1>14. ASSUME NEW c \in Clients, ClientCall(c) \/ ClientStep(c)
       PROVE  LockInv' /\ updateLock' \in Clients \cup {"worker", "free"}
  <2>1. /\ Takes(c) \/ Holds(c) \/ Frees(c) \/ Outside(c)
        /\ \A d \in Clients \ {c} : client'[d] = client[d]
        /\ worker' = worker
    BY <1>14, LockMoves
  <2>2. CASE Takes(c)
    <3>1. ASSUME NEW d \in Clients
          PROVE  updateLock' = d <=> client'[d].pc \in Held
      BY <2>1, <2>2, <3>1, <1>1 DEF Takes, LockInv
    <3>2. worker'.pc \notin Worker /\ updateLock' # "worker"
      BY <1>1, <2>1, <2>2 DEF Takes, LockInv
    <3>3. updateLock' \in Clients
      BY <2>2 DEF Takes
    <3>4. QED
      BY <3>1, <3>2, <3>3 DEF LockInv
  <2>3. CASE Holds(c)
    BY <1>1, <1>2, <2>1, <2>3, Zenon DEF Holds, LockInv
  <2>4. CASE Frees(c)
    BY <1>1, <2>1, <2>4, Zenon DEF Frees, LockInv
  <2>5. CASE Outside(c)
    BY <1>1, <1>2, <2>1, <2>5, Zenon DEF Outside, LockInv
  <2>6. QED
    BY <2>1, <2>2, <2>3, <2>4, <2>5
<1>15. QED
  BY <1>4, <1>8, <1>9, <1>10, <1>11, <1>12, <1>13, <1>14 DEF Next, WorkerStep

-----------------------------------------------------------------------------
(***************************************************************************)
(* The inductive invariant, and the status line.                           *)
(***************************************************************************)
\* The settings, the rejected models and the error flag stay in type.
LEMMA SettingsStep ==
    ASSUME TypeOK, [Next]_vars
    PROVE  /\ obs' \in Formats /\ rejected' \subseteq Paths
           /\ error' \in BOOLEAN
<1>1. /\ obs \in Formats /\ rejected \subseteq Paths /\ error \in BOOLEAN
  BY DEF TypeOK
<1>2. CASE UNCHANGED <<obs, rejected, error>>
  BY <1>1, <1>2
<1>3. CASE ResetObsAudio
  <2>1. UNCHANGED <<rejected, error>> /\ obs' \in Formats
    BY <1>3 DEF ResetObsAudio
  <2>2. QED
    BY <1>1, <2>1
<1>4. CASE RebuildInstall
  <2>1. UNCHANGED <<obs, rejected>> /\ error' \in BOOLEAN
    BY <1>4, RebuildView DEF RebuildInstall
  <2>2. QED
    BY <1>1, <2>1
<1>5. ASSUME NEW c \in Clients, UpdateInstall(c)
      PROVE  /\ obs' \in Formats /\ rejected' \subseteq Paths
             /\ error' \in BOOLEAN
  <2> DEFINE k == client[c]
  <2>1. k.path \in Paths /\ k.fallback \in Attempts
    BY ClientFields DEF TypeOK
  <2>2. /\ UNCHANGED obs
        /\ rejected' = IF k.load = "loaded" THEN {}
                       ELSE IF k.load # "none" THEN {k.path}
                       ELSE rejected \cap {k.path}
        /\ error' = UpdateError(k)
    BY <1>5 DEF UpdateInstall
  <2> HIDE DEF k
  <2>3. UpdateError(k) \in BOOLEAN
    <3>1. [none |-> error, ready |-> FALSE, failed |-> TRUE][k.fallback]
            \in BOOLEAN
      <4> DEFINE f == [none |-> error, ready |-> FALSE, failed |-> TRUE]
      <4>1. f.none = error /\ f.ready = FALSE /\ f.failed = TRUE
        OBVIOUS
      <4> HIDE DEF f
      <4>2. CASE k.fallback = "none"
        <5>1. f[k.fallback] = error
          BY <4>1, <4>2
        <5>2. QED
          BY <1>1, <5>1 DEF f
      <4>3. CASE k.fallback = "ready"
        <5>1. f[k.fallback] = FALSE
          BY <4>1, <4>3
        <5>2. QED
          BY <5>1, Zenon DEF f
      <4>4. CASE k.fallback = "failed"
        <5>1. f[k.fallback] = TRUE
          BY <4>1, <4>4
        <5>2. QED
          BY <5>1, Zenon DEF f
      <4>5. QED
        BY <2>1, <4>2, <4>3, <4>4 DEF Attempts
    <3> DEFINE after == [none |-> error, ready |-> FALSE,
                         failed |-> TRUE][k.fallback]
    <3>2. UpdateError(k) =
            IF k.load = "loaded" THEN FALSE
            ELSE IF k.load = "unpaired" THEN
                 IF ~OldNeedsResamplers(k) THEN FALSE ELSE after
            ELSE IF k.pair = "failed" THEN TRUE
            ELSE error /\ PairChange(k) = "keep"
      BY DEF UpdateError
    <3> HIDE DEF after
    <3>3. after \in BOOLEAN
      BY <3>1 DEF after
    <3>4. QED
      BY <1>1, <3>2, <3>3
  <2>4. rejected' \subseteq Paths
    BY <1>1, <2>1, <2>2
  <2>5. QED
    BY <1>1, <2>2, <2>3, <2>4
<1>6. ASSUME NEW c \in Clients, ResetInstall(c) \/ BoundaryInstall(c)
      PROVE  /\ obs' \in Formats /\ rejected' \subseteq Paths
             /\ error' \in BOOLEAN
  <2>1. UNCHANGED obs /\ (rejected' = {} \/ UNCHANGED rejected)
    BY <1>6 DEF ResetInstall, BoundaryInstall
  <2>2. error' \in BOOLEAN
    BY <1>6, ResetView, BoundaryView
  <2>3. QED
    BY <1>1, <2>1, <2>2
<1>7. CASE \/ vars' = vars \/ AudioStep \/ DeadlinePasses \/ Destroy
           \/ WorkerWake \/ RebuildRead \/ WorkerRetry \/ StatusRead
           \/ StatusShow
  <2>1. UNCHANGED <<obs, rejected, error>>
    BY <1>7, Zenon DEF vars, AudioStep, AudioArrives, AudioProcess, AudioPost,
       DeadlinePasses, Destroy, WorkerWake, RebuildRead, WorkerRetry,
       StatusRead, StatusShow
  <2>2. QED
    BY <1>2, <2>1
<1>8. ASSUME NEW c \in Clients,
             \/ ClientCall(c) \/ BeginUpdate(c) \/ UpdateRead(c)
             \/ UpdatePrepare(c) \/ UpdateFallback(c) \/ ResetRead(c)
             \/ ResetClear(c) \/ BoundaryRead(c) \/ Notify(c)
      PROVE  UNCHANGED <<obs, rejected, error>>
  BY <1>8, Zenon DEF ClientCall, CallUpdate, CallReset, CallDisable, CallEnable,
     BeginUpdate, UpdateRead, UpdatePrepare, UpdateFallback, ResetRead,
     ResetClear, BoundaryRead, ReadForReset, Notify
<1>9. QED
  BY <1>2, <1>3, <1>4, <1>5, <1>6, <1>7, <1>8 DEF Next, WorkerStep, ClientStep

\* What the filter's threads keep between them.
FilterInv == TypeOK /\ ClientInv /\ PostsInv /\ LockInv

\* The filter starts in order.
LEMMA FilterInit ==
    ASSUME Init
    PROVE  FilterInv
<1>1. obs \in Formats
  BY DEF Init
<1>2. proc \in ViewType
  <2>1. proc = FirstView(obs)
    BY DEF Init
  <2>2. FirstView(obs) \in ViewType
    BY <1>1, ReasonsAre, NoPairType, SMT DEF FirstView, ViewType
  <2>3. QED
    BY <2>1, <2>2
<1>3. request \in RequestType
  BY SMT DEF Init, NoRequest, RequestType, LastDelay
<1>4. guard \in GuardType
  BY NoGuardType DEF Init
<1>5. audio \in AudioType /\ audio.posts = <<>> /\ audio.pc = "idle"
  BY <1>1, SMT DEF Init, NoAudio, AudioType, AnyFormat
<1>6. worker \in WorkerType /\ worker.pc = "waiting"
  BY <1>1, NoWorkType DEF Init
<1>7. /\ client = [c \in Clients |-> Away] /\ updateLock = "free"
      /\ rejected = {} /\ error = FALSE
  BY DEF Init
<1>8. client \in [Clients -> ClientType]
  BY <1>1, <1>7, AwayType
<1>9. Len(audio.posts) <= 2
  BY <1>5
<1>10. TypeOK
  BY <1>1, <1>2, <1>3, <1>4, <1>5, <1>6, <1>7, <1>8, <1>9 DEF TypeOK
<1>11. \A c \in Clients : client[c] = Away /\ Away.pc = "idle"
  BY <1>1, <1>7, AwayType
<1>12. ClientInv
  BY <1>11, NothingWanted DEF ClientInv
<1>13. PostsInv
  BY <1>5 DEF PostsInv
<1>14. LockInv
  <2>1. "free" \notin Clients
    BY FilterAssumption
  <2>2. QED
    BY <1>6, <1>7, <1>11, <2>1 DEF LockInv, Held
<1>15. QED
  BY <1>10, <1>12, <1>13, <1>14 DEF FilterInv

\* And every step leaves it in order.
LEMMA FilterStep ==
    ASSUME FilterInv, [Next]_vars
    PROVE  FilterInv'
<1>1. TypeOK /\ ClientInv /\ PostsInv /\ LockInv
  BY DEF FilterInv
<1>2. proc' \in ViewType /\ guard' \in GuardType
  BY <1>1, ProcStep
<1>3. PostsInv' /\ audio' \in AudioType /\ Len(audio'.posts) <= 2
  BY <1>1, PostsStep
<1>4. request' \in RequestType
  BY <1>1, RequestStep
<1>5. worker' \in WorkerType
  BY <1>1, WorkerStepType
<1>6. ClientOK'
  BY <1>1, ClientTypeStep
<1>7. LockInv' /\ updateLock' \in Clients \cup {"worker", "free"}
  BY <1>1, LockStep
<1>8. /\ obs' \in Formats /\ rejected' \subseteq Paths /\ error' \in BOOLEAN
  BY <1>1, SettingsStep
<1>9. TypeOK'
  BY <1>2, <1>3, <1>4, <1>5, <1>6, <1>7, <1>8 DEF TypeOK, ClientOK
<1>10. QED
  BY <1>3, <1>6, <1>7, <1>9 DEF FilterInv, ClientOK

\* In every behaviour the filter's threads keep FilterInv between them
\* (dpdfnet-filter.cpp, all of the callback, the worker and the settings
\* calls).
THEOREM FilterInvariant == Spec => []FilterInv
<1>1. Init => FilterInv
  BY FilterInit
<1>2. FilterInv /\ [Next]_vars => FilterInv'
  BY FilterStep
<1>3. QED
  BY <1>1, <1>2, PTL DEF Spec

\* Every variable of the filter keeps its type, in particular what is posted,
\* at most two results, and the retry delay.
THEOREM FilterTypes == Spec => []TypeOK
<1>1. FilterInv => TypeOK
  BY DEF FilterInv
<1>2. QED
  BY <1>1, FilterInvariant, PTL

-----------------------------------------------------------------------------
\* While the worker reads a model for the status line it holds update_mutex_,
\* and no call that replaces the model runs without it.
LEMMA AliveStep ==
    ASSUME FilterInv, StatusModelAlive, [Next]_vars
    PROVE  StatusModelAlive'
<1>1. TypeOK /\ ClientInv /\ PostsInv /\ LockInv
  BY DEF FilterInv
<1>2. CASE worker' = worker /\ proc'.model = proc.model
  BY <1>2 DEF StatusModelAlive
<1>3. CASE UNCHANGED <<worker, proc>>
  BY <1>3 DEF StatusModelAlive
<1>4. CASE worker'.pc # "snapshot"
  BY <1>4 DEF StatusModelAlive
<1>5. CASE \/ Elsewhere \/ AudioArrives \/ AudioPost \/ DeadlinePasses
           \/ Destroy
  <2>1. UNCHANGED <<worker, proc>>
    BY <1>5, Zenon DEF Elsewhere, AudioArrives, AudioPost, DeadlinePasses,
                       Destroy
  <2>2. QED
    BY <1>3, <2>1
<1>6. CASE AudioProcess
  <2>1. worker' = worker
    BY <1>6, Zenon DEF AudioProcess
  <2>2. proc'.model = proc.model
    BY <1>1, <1>6, AudioView
  <2>3. QED
    BY <1>2, <2>1, <2>2
<1>7. CASE StatusRead
  <2>1. /\ worker' = [worker EXCEPT !.pc = "snapshot", !.model = proc.model]
        /\ proc' = proc /\ worker \in WorkerType
    BY <1>1, <1>7 DEF StatusRead, TypeOK
  <2>2. worker'.model = proc.model
    BY <2>1, Zenon DEF WorkerType
  <2>3. QED
    BY <2>1, <2>2 DEF StatusModelAlive
<1>8. CASE WorkerWake \/ RebuildRead \/ StatusShow
  <2>1. CASE worker'.pc = "snapshot"
    <3>1. updateLock' = "worker"
      BY <1>1, <2>1, LockStep DEF LockInv
    <3>2. "worker" # "free"
      OBVIOUS
    <3>3. CASE RebuildRead
      <4>1. /\ worker \in WorkerType
            /\ \/ worker' = [worker EXCEPT !.pc = "install",
                                    !.format = proc.format, !.model = proc.model]
               \/ worker' = [worker EXCEPT !.pc = AfterRebuild]
        BY <1>1, <3>3 DEF RebuildRead, TypeOK
      <4>2. worker'.pc = "install" \/ worker'.pc = AfterRebuild
        BY <4>1, Zenon DEF WorkerType
      <4>3. AfterRebuild # "snapshot"
        BY DEF AfterRebuild
      <4>4. QED
        BY <2>1, <4>2, <4>3
    <3>4. CASE WorkerWake
      <4>1. updateLock = "worker" /\ worker.pc = "waiting"
        BY <3>1, <3>4 DEF WorkerWake
      <4>2. QED
        BY <1>1, <4>1 DEF LockInv
    <3>5. CASE StatusShow
      BY <3>1, <3>2, <3>5 DEF StatusShow
    <3>6. QED
      BY <1>8, <3>3, <3>4, <3>5
  <2>2. QED
    BY <1>4, <2>1
<1>9. CASE RebuildInstall \/ WorkerRetry
  <2>1. worker'.pc \in {"retry", "status"}
    <3>1. CASE RebuildInstall
      BY <3>1 DEF RebuildInstall, NoWork, AfterRebuild
    <3>2. CASE WorkerRetry
      <4>1. /\ worker' = [worker EXCEPT !.pc = "status", !.retry = FALSE]
            /\ worker \in WorkerType
        BY <1>1, <3>2 DEF WorkerRetry, TypeOK
      <4>2. QED
        BY <4>1, SMT DEF WorkerType
    <3>3. QED
      BY <1>9, <3>1, <3>2
  <2>2. QED
    BY <1>4, <2>1
<1>10. ASSUME NEW c \in Clients, ByClient(c) PROVE StatusModelAlive'
  <2>1. CASE ResetClear(c) \/ Notify(c)
    <3>1. UNCHANGED <<worker, proc>>
      BY <2>1, Zenon DEF ResetClear, Notify
    <3>2. QED
      BY <1>3, <3>1
  <2>2. CASE UpdateInstall(c) \/ ResetInstall(c) \/ BoundaryInstall(c)
    <3>1. /\ client[c].pc \in Held /\ worker' = worker
      BY <2>2 DEF UpdateInstall, ResetInstall, BoundaryInstall, Held
    <3>2. updateLock = c
      BY <1>1, <3>1 DEF LockInv
    <3>3. updateLock # "worker"
      BY <3>2, FilterAssumption
    <3>4. QED
      BY <1>1, <1>4, <3>1, <3>3 DEF LockInv
  <2>3. QED
    BY <1>10, <2>1, <2>2 DEF ByClient
<1>11. QED
  BY <1>5, <1>6, <1>7, <1>8, <1>9, <1>10, StepKinds DEF ByAudio, ByWorker

\* The worker never writes a status line from a model that an update has
\* replaced since it took update_mutex_ (refresh_status and update, dpdfnet-
\* filter.cpp).
THEOREM StatusReadsALiveModel == Spec => []StatusModelAlive
<1>1. Init => StatusModelAlive
  <2>1. Init => worker.pc = "waiting"
    BY DEF Init, NoWork
  <2>2. QED
    BY <2>1 DEF StatusModelAlive
<1>2. FilterInv /\ StatusModelAlive /\ [Next]_vars => StatusModelAlive'
  BY AliveStep
<1>3. QED
  BY <1>1, <1>2, FilterInvariant, PTL DEF Spec

-----------------------------------------------------------------------------
(***************************************************************************)
(* The retry schedule and the event slots.                                 *)
(***************************************************************************)
\* The retry delays that wait to be posted.
Delays(posts) == {posts[i].delay : i \in DOMAIN posts}

\* The delays of none, one and two results.
LEMMA DelaysOf ==
    /\ Delays(<<>>) = {}
    /\ \A p : Delays(<<p>>) = {p.delay}
    /\ \A p, q : Delays(<<p, q>>) = {p.delay, q.delay}
<1>1. Delays(<<>>) = {}
  BY DEF Delays
<1>2. ASSUME NEW p PROVE Delays(<<p>>) = {p.delay}
  <2>1. DOMAIN <<p>> = {1}
    OBVIOUS
  <2>2. QED
    BY <2>1 DEF Delays
<1>3. ASSUME NEW p, NEW q PROVE Delays(<<p, q>>) = {p.delay, q.delay}
  <2>1. DOMAIN <<p, q>> = {1, 2}
    OBVIOUS
  <2>2. QED
    BY <2>1 DEF Delays
<1>4. QED
  BY <1>1, <1>2, <1>3

\* One result is posted, and the next waits.
LEMMA PostStep ==
    ASSUME TypeOK, PostsInv, AudioPost
    PROVE  \E p \in PostType :
             /\ request'.slots = request.slots \cup ({p.event} \cap Slots)
             /\ request'.deadline = IF p.delay > 0 THEN p.delay
                                    ELSE request.deadline
             /\ \/ audio.posts = <<p>> /\ audio'.posts = <<>>
                \/ \E q \in PostType : /\ p.delay = 0
                                       /\ audio.posts = <<p, q>>
                                       /\ audio'.posts = <<q>>
             /\ UNCHANGED <<proc, guard, worker, client, unlogged>>
<1> DEFINE s == audio.posts
           p == Head(s)
<1>1. /\ audio.pc = "post" /\ audio \in AudioType
      /\ audio' = IF Len(s) = 1 THEN NoAudio ELSE [audio EXCEPT !.posts = Tail(s)]
      /\ UNCHANGED <<proc, guard, worker, client, unlogged>>
  BY DEF AudioPost, TypeOK
<1>2. One(s) \/ Two(s)
  BY <1>1 DEF PostsInv
<1>3. p \in PostType
  BY <1>2 DEF One, Two
<1>4. /\ request'.slots = request.slots \cup ({p.event} \cap Slots)
      /\ request'.deadline = IF p.delay > 0 THEN p.delay ELSE request.deadline
  BY <1>3, PostRequest
<1>5. \/ s = <<p>> /\ audio'.posts = <<>>
      \/ \E q \in PostType : /\ p.delay = 0 /\ s = <<p, q>>
                             /\ audio'.posts = <<q>>
  <2>1. CASE One(s)
    <3>1. PICK x \in PostType : s = <<x>>
      BY <2>1 DEF One
    <3>2. Len(s) = 1 /\ s = <<p>>
      BY <3>1
    <3>3. audio' = NoAudio
      BY <1>1, <3>2
    <3>4. audio'.posts = <<>>
      BY <3>3 DEF NoAudio
    <3>5. QED
      BY <3>2, <3>4
  <2>2. CASE Two(s)
    <3>1. PICK x, q \in PostType : x.delay = 0 /\ s = <<x, q>>
      BY <2>2 DEF Two
    <3>2. Len(s) = 2 /\ Tail(s) = <<q>> /\ x = p
      BY <3>1, SMT
    <3> HIDE DEF s
    <3>3. audio' = [audio EXCEPT !.posts = Tail(s)]
      BY <1>1, <3>2
    <3>4. audio'.posts = Tail(s)
      BY <1>1, <3>3, Zenon DEF AudioType
    <3>5. QED
      BY <3>1, <3>2, <3>4
  <2>3. QED
    BY <1>2, <2>1, <2>2
<1>6. QED
  BY <1>1, <1>3, <1>4, <1>5

\* What the steps outside the audio thread and the worker's wait leave.
LEMMA QuietStep ==
    ASSUME TypeOK, PostsInv, [Next]_vars
    PROVE  \/ AudioProcess \/ AudioPost \/ WorkerWake
           \/ /\ audio'.posts = audio.posts /\ unlogged' = unlogged
              /\ \/ \E c \in Clients : ResetClear(c)
                 \/ /\ request'.slots = request.slots
                    /\ request'.deadline = request.deadline
<1>1. CASE AudioArrives
  <2>1. /\ audio' = [audio EXCEPT !.pc = "lock", !.format = obs]
        /\ audio \in AudioType /\ UNCHANGED <<request, unlogged>>
    BY <1>1 DEF AudioArrives, TypeOK
  <2>2. audio'.posts = audio.posts
    BY <2>1, SMT DEF AudioType
  <2>3. QED
    BY <2>1, <2>2
<1>2. CASE \/ Elsewhere \/ ByWorker \/ DeadlinePasses \/ Destroy
           \/ \E c \in Clients : ByClient(c)
  <2>1. WorkerWake \/ UNCHANGED <<audio, unlogged>>
    BY <1>2, Zenon DEF Elsewhere, ByWorker, RebuildRead, RebuildInstall,
       WorkerRetry, StatusRead, StatusShow, DeadlinePasses, Destroy, ByClient,
       UpdateInstall, ResetInstall, ResetClear, BoundaryInstall, Notify
  <2>2. \/ AudioPost \/ WorkerWake \/ \E c \in Clients : ResetClear(c)
        \/ /\ request'.slots = request.slots
           /\ request'.deadline = request.deadline
    BY RequestStep
  <2>3. QED
    BY <2>1, <2>2
<1>3. QED
  BY <1>1, <1>2, StepKinds DEF ByAudio

\* What the worker's wait takes.
LEMMA WakeStep ==
    ASSUME TypeOK, WorkerWake
    PROVE  /\ audio' = audio /\ proc' = proc /\ guard' = guard
           /\ \/ /\ request' = request /\ unlogged' = unlogged
                 /\ request.stop
              \/ /\ request'.slots = {}
                 /\ request'.deadline = IF Expired THEN 0 ELSE request.deadline
                 /\ unlogged' = unlogged \ request.slots
                 /\ Expired => /\ worker'.pc \in {"rebuild", "retry"}
                               /\ worker'.retry
<1>1. /\ request \in RequestType
  BY DEF TypeOK
<1>2. audio' = audio /\ proc' = proc /\ guard' = guard
  BY Zenon DEF WorkerWake
<1>3. CASE request.stop
  BY <1>2, <1>3 DEF WorkerWake
<1>4. CASE ~request.stop
  <2>1. request' = Taken /\ unlogged' = unlogged \ request.slots
    BY <1>4 DEF WorkerWake
  <2>2. /\ request'.slots = {}
        /\ request'.deadline = IF Expired THEN 0 ELSE request.deadline
    BY <1>1, <2>1, TakenType
  <2>3. ASSUME Expired
        PROVE  worker'.pc \in {"rebuild", "retry"} /\ worker'.retry
    <3>1. \/ worker' = [NoWork EXCEPT !.pc = "rebuild", !.retry = Expired]
          \/ worker' = [NoWork EXCEPT !.pc = "retry", !.retry = TRUE]
      BY <1>4, <2>3 DEF WorkerWake
    <3>2. /\ [NoWork EXCEPT !.pc = "rebuild", !.retry = Expired].pc = "rebuild"
          /\ [NoWork EXCEPT !.pc = "retry", !.retry = TRUE].pc = "retry"
      BY DEF NoWork
    <3>3. /\ [NoWork EXCEPT !.pc = "rebuild", !.retry = Expired].retry = Expired
          /\ [NoWork EXCEPT !.pc = "retry", !.retry = TRUE].retry
      BY Zenon DEF NoWork
    <3>4. QED
      BY <2>3, <3>1, <3>2, <3>3, Zenon
  <2>4. QED
    BY <1>2, <2>1, <2>2, <2>3
<1>5. QED
  BY <1>3, <1>4

\* A callback's section starts with nothing left to post and touches only its
\* own.
LEMMA Locked ==
    ASSUME PostsInv, AudioProcess
    PROVE  audio.posts = <<>> /\ request' = request /\ worker' = worker
           /\ client' = client
<1>1. audio.pc = "lock" /\ request' = request /\ worker' = worker
      /\ client' = client
  BY Zenon DEF AudioProcess
<1>2. QED
  BY <1>1 DEF PostsInv

-----------------------------------------------------------------------------
\* A deadline, a posted delay or a retry in the worker's hands is never there
\* before the attempt it counts.
LEMMA ScheduleStep ==
    ASSUME FilterInv, ScheduleFollowsProbe, [Next]_vars
    PROVE  ScheduleFollowsProbe'
<1>1. TypeOK /\ ClientInv /\ PostsInv /\ guard \in GuardType
  BY DEF FilterInv, TypeOK
<1>2. CASE Settled
  BY <1>2 DEF Settled, ScheduleFollowsProbe, Overloaded
<1>3. CASE Cleared
  BY <1>3, NoGuardType, ReasonsAre DEF Cleared, ScheduleFollowsProbe, Overloaded
<1>4. CASE Retried
  <2>1. guard.attempts > 0
    BY <1>4 DEF Retried, ScheduleFollowsProbe
  <2>2. guard'.attempts = guard.attempts /\ guard'.probe = TRUE
    BY <1>1, <1>4, SMT DEF Retried, GuardType
  <2>3. QED
    BY <2>1, <2>2 DEF ScheduleFollowsProbe
<1>5. CASE AudioProcess
  <2>1. Passed \/ Paused \/ Probed
    BY <1>1, <1>5, AudioView
  <2>2. CASE Passed
    <3>1. guard' = guard /\ (\/ proc'.reason = proc.reason
                             \/ proc'.reason = "RepeatedProcessingFailures")
      BY <2>2 DEF Passed
    <3>2. QED
      BY <3>1, ReasonsAre DEF ScheduleFollowsProbe, Overloaded
  <2>3. CASE Paused
    <3>1. /\ guard'.attempts = NextDelay(guard)
          /\ proc'.reason = "RealtimeOverload"
      BY <1>1, <2>3, NextDelayType DEF Paused
    <3>2. NextDelay(guard) > 0
      BY <1>1, NextDelayType
    <3>3. QED
      BY <3>1, <3>2, ReasonsAre DEF ScheduleFollowsProbe, Overloaded
  <2>4. CASE Probed
    BY <2>4, NoGuardType, ReasonsAre DEF Probed, ScheduleFollowsProbe, Overloaded
  <2>5. QED
    BY <2>1, <2>2, <2>3, <2>4
<1>6. QED
  BY <1>1, <1>2, <1>3, <1>4, <1>5, ProcStep

\* Nothing of the retry schedule is there unless the guard counts an attempt:
\* a probe or a cleared guard is never overtaken by an earlier pause's retry.
THEOREM ScheduleNeverRunsAhead == Spec => []ScheduleFollowsProbe
<1>1. Init => ScheduleFollowsProbe
  <2>1. Init => guard = NoGuard /\ proc.reason = "None"
    BY DEF Init, FirstView
  <2>2. QED
    BY <2>1, NoGuardType, ReasonsAre DEF ScheduleFollowsProbe, Overloaded
<1>2. FilterInv /\ ScheduleFollowsProbe /\ [Next]_vars => ScheduleFollowsProbe'
  BY ScheduleStep
<1>3. QED
  BY <1>1, <1>2, FilterInvariant, PTL DEF Spec

-----------------------------------------------------------------------------
\* The delay that counts is that of the pause's attempt, wherever it is.
DelayInv ==
    Overloaded =>
      /\ Delays(audio.posts) \subseteq {0, guard.attempts}
      /\ request.deadline > 0 /\ Delays(audio.posts) \subseteq {0}
           => request.deadline = guard.attempts

\* The schedule keeps the delay of its attempt.
LEMMA DelayStep ==
    ASSUME FilterInv, DelayInv, [Next]_vars
    PROVE  DelayInv'
<1>1. /\ TypeOK /\ ClientInv /\ PostsInv /\ guard \in GuardType
      /\ request \in RequestType
  BY DEF FilterInv, TypeOK
<1>2. CASE proc'.reason # "RealtimeOverload"
  BY <1>2 DEF DelayInv, Overloaded
<1>3. CASE AudioProcess
  <2>1. audio.posts = <<>> /\ request' = request
    BY <1>1, <1>3, Locked
  <2>2. Delays(audio.posts) = {}
    BY <2>1, DelaysOf
  <2>3. Passed \/ Paused \/ Probed
    BY <1>1, <1>3, AudioView
  <2>4. CASE Passed
    <3>1. Delays(audio'.posts) \subseteq {0}
      BY <2>4, DelaysOf DEF Passed
    <3>2. guard' = guard /\ (Overloaded' => Overloaded)
      BY <2>4, ReasonsAre DEF Passed, Overloaded
    <3>3. QED
      BY <2>1, <2>2, <3>1, <3>2 DEF DelayInv
  <2>5. CASE Paused
    <3>1. guard'.attempts = NextDelay(guard) /\ NextDelay(guard) # 0
      BY <1>1, <2>5, NextDelayType DEF Paused
    <3>2. \/ Delays(audio'.posts) = {NextDelay(guard)}
          \/ Delays(audio'.posts) = {0, NextDelay(guard)}
      <4>1. PICK q \in PostType :
              /\ q.delay = NextDelay(guard)
              /\ \/ audio'.posts = <<q>>
                 \/ \E p \in PostType : p.delay = 0 /\ audio'.posts = <<p, q>>
        BY <2>5 DEF Paused
      <4>2. CASE audio'.posts = <<q>>
        BY <4>1, <4>2, DelaysOf
      <4>3. ASSUME NEW p \in PostType, p.delay = 0, audio'.posts = <<p, q>>
            PROVE  Delays(audio'.posts) = {0, NextDelay(guard)}
        BY <4>1, <4>3, DelaysOf
      <4>4. QED
        BY <4>1, <4>2, <4>3
    <3>3. QED
      BY <3>1, <3>2 DEF DelayInv
  <2>6. CASE Probed
    BY <1>2, <2>6, ReasonsAre DEF Probed
  <2>7. QED
    BY <2>3, <2>4, <2>5, <2>6
<1>4. CASE AudioPost
  <2>1. PICK p \in PostType :
          /\ request'.slots = request.slots \cup ({p.event} \cap Slots)
          /\ request'.deadline = IF p.delay > 0 THEN p.delay
                                 ELSE request.deadline
          /\ \/ audio.posts = <<p>> /\ audio'.posts = <<>>
             \/ \E q \in PostType : /\ p.delay = 0
                                    /\ audio.posts = <<p, q>>
                                    /\ audio'.posts = <<q>>
          /\ UNCHANGED <<proc, guard, worker, client, unlogged>>
    BY <1>1, <1>4, PostStep
  <2>2. p.delay \in 0 .. LastDelay
    BY <2>1, Zenon DEF PostType
  <2>3. p.delay \in Nat
    BY <2>2 DEF LastDelay
  <2>4. CASE audio.posts = <<p>> /\ audio'.posts = <<>>
    <3>1. /\ Delays(audio.posts) = {p.delay}
          /\ Delays(audio'.posts) = {}
      BY <2>4, DelaysOf
    <3>2. CASE p.delay > 0
      BY <2>1, <2>3, <3>1, <3>2 DEF DelayInv, Overloaded
    <3>3. CASE p.delay = 0
      BY <2>1, <2>3, <3>1, <3>3 DEF DelayInv, Overloaded
    <3>4. QED
      BY <2>3, <3>2, <3>3
  <2>5. ASSUME NEW q \in PostType, p.delay = 0, audio.posts = <<p, q>>,
               audio'.posts = <<q>>
        PROVE  DelayInv'
    <3>1. /\ Delays(audio.posts) = {0, q.delay}
          /\ Delays(audio'.posts) = {q.delay}
      BY <2>5, DelaysOf
    <3>2. request'.deadline = request.deadline
      BY <2>1, <2>5
    <3>3. QED
      BY <2>1, <3>1, <3>2 DEF DelayInv, Overloaded
  <2>6. QED
    BY <2>1, <2>4, <2>5
<1>5. CASE WorkerWake
  <2>1. /\ audio' = audio /\ proc' = proc /\ guard' = guard
        /\ request'.deadline \in {0, request.deadline}
    BY <1>1, <1>5, WakeStep
  <2>2. QED
    BY <2>1 DEF DelayInv, Overloaded
<1>6. CASE Settled /\ audio'.posts = audio.posts
           /\ request'.deadline \in {0, request.deadline}
  BY <1>6 DEF Settled, DelayInv, Overloaded
<1>7. ASSUME NEW c \in Clients, ResetClear(c)
      PROVE  request'.deadline = 0
  BY <1>1, <1>7, SMT DEF ResetClear, RequestType
<1>8. CASE Settled
  <2>1. \/ AudioProcess \/ AudioPost \/ WorkerWake
        \/ /\ audio'.posts = audio.posts
           /\ request'.deadline \in {0, request.deadline}
    BY <1>1, <1>7, QuietStep
  <2>2. QED
    BY <1>3, <1>4, <1>5, <1>6, <1>8, <2>1
<1>9. CASE Cleared \/ Retried
  BY <1>2, <1>9, ReasonsAre DEF Cleared, Retried
<1>10. QED
  BY <1>1, <1>3, <1>8, <1>9, ProcStep

\* The delay until a retry is the one its attempt is due (post_pause and
\* NextDelay): attempts that pile up double it, up to the last.
THEOREM DelayAlwaysFits == Spec => []DelayFitsAttempt
<1>1. Init => DelayInv
  <2>1. Init => proc.reason = "None"
    BY DEF Init, FirstView
  <2>2. QED
    BY <2>1, ReasonsAre DEF DelayInv, Overloaded
<1>2. FilterInv /\ DelayInv /\ [Next]_vars => DelayInv'
  BY DelayStep
<1>3. DelayInv => DelayFitsAttempt
  BY DelaysOf DEF DelayInv, DelayFitsAttempt
<1>4. QED
  BY <1>1, <1>2, <1>3, FilterInvariant, PTL DEF Spec

-----------------------------------------------------------------------------
\* What is not logged yet is an event with a slot.
LogInv == unlogged \subseteq Slots /\ NoEventLost

\* An event that is not logged is in a slot of the request or waits to be
\* posted.
LEMMA LogStep ==
    ASSUME FilterInv, LogInv, [Next]_vars
    PROVE  LogInv'
<1>1. TypeOK /\ ClientInv /\ PostsInv
  BY DEF FilterInv
<1>2. unlogged \subseteq Slots /\ unlogged \subseteq request.slots \cup Told(audio.posts)
  BY DEF LogInv, NoEventLost, Told
<1>3. LogInv' <=> /\ unlogged' \subseteq Slots
                  /\ unlogged' \subseteq request'.slots \cup Told(audio'.posts)
  BY DEF LogInv, NoEventLost, Told
<1>4. CASE AudioProcess
  <2>1. audio.posts = <<>> /\ request' = request
    BY <1>1, <1>4, Locked
  <2>2. Told(audio.posts) = {}
    BY <2>1, ToldOf
  <2>3. Passed \/ Paused \/ Probed
    BY <1>1, <1>4, AudioView
  <2>4. unlogged' = unlogged \cup (Told(audio'.posts) \cap Slots)
    <3>1. CASE Passed
      <4>1. CASE audio'.posts = <<>> /\ unlogged' = unlogged
        BY <4>1, ToldOf
      <4>2. CASE \E p \in PostType :
                   /\ audio'.posts = <<p>> /\ p.delay = 0
                   /\ unlogged' = unlogged \cup ({p.event} \cap Slots)
        BY <4>2, ToldOf
      <4>3. QED
        BY <3>1, <4>1, <4>2 DEF Passed
    <3>2. CASE Paused
      BY <3>2, ToldOf DEF Paused
    <3>3. CASE Probed
      BY <3>3, ToldOf DEF Probed
    <3>4. QED
      BY <2>3, <3>1, <3>2, <3>3
  <2>5. QED
    BY <1>2, <1>3, <2>1, <2>2, <2>4
<1>5. CASE AudioPost
  <2>1. PICK p \in PostType :
          /\ request'.slots = request.slots \cup ({p.event} \cap Slots)
          /\ request'.deadline = IF p.delay > 0 THEN p.delay
                                 ELSE request.deadline
          /\ \/ audio.posts = <<p>> /\ audio'.posts = <<>>
             \/ \E q \in PostType : /\ p.delay = 0
                                    /\ audio.posts = <<p, q>>
                                    /\ audio'.posts = <<q>>
          /\ UNCHANGED <<proc, guard, worker, client, unlogged>>
    BY <1>1, <1>5, PostStep
  <2>2. Told(audio.posts) \subseteq {p.event} \cup Told(audio'.posts)
    <3>1. CASE audio.posts = <<p>>
      BY <3>1, ToldOf
    <3>2. ASSUME NEW q \in PostType, audio.posts = <<p, q>>,
                 audio'.posts = <<q>>
          PROVE  Told(audio.posts) \subseteq {p.event} \cup Told(audio'.posts)
      <4>1. Told(audio.posts) = {p.event, q.event}
        BY <3>2, ToldOf
      <4>2. Told(audio'.posts) = {q.event}
        BY <3>2, ToldOf
      <4>3. QED
        BY <4>1, <4>2
    <3>3. QED
      BY <2>1, <3>1, <3>2
  <2>3. QED
    BY <1>2, <1>3, <2>1, <2>2
<1>6. CASE WorkerWake
  <2>1. /\ audio' = audio
        /\ \/ request' = request /\ unlogged' = unlogged
           \/ request'.slots = {} /\ unlogged' = unlogged \ request.slots
    BY <1>1, <1>6, WakeStep
  <2>2. QED
    BY <1>2, <1>3, <2>1
<1>7. CASE /\ audio'.posts = audio.posts /\ unlogged' = unlogged
           /\ request'.slots = request.slots
  BY <1>2, <1>3, <1>7
<1>8. ASSUME NEW c \in Clients, ResetClear(c)
      PROVE  request'.slots = request.slots
  <2>1. /\ request' = [request EXCEPT !.deadline = 0, !.due = FALSE]
        /\ request \in RequestType
    BY <1>1, <1>8 DEF ResetClear, TypeOK
  <2>2. QED
    BY <2>1, SMT DEF RequestType
<1>9. QED
  BY <1>1, <1>4, <1>5, <1>6, <1>7, <1>8, QuietStep

\* No event with a slot is lost between the audio thread that reports it and
\* the worker that logs it, even when the pause displaces it.
THEOREM EventsAreLogged == Spec => []NoEventLost
<1>1. Init => LogInv
  BY DEF Init, LogInv, NoEventLost
<1>2. FilterInv /\ LogInv /\ [Next]_vars => LogInv'
  BY LogStep
<1>3. LogInv => NoEventLost
  BY DEF LogInv
<1>4. QED
  BY <1>1, <1>2, <1>3, FilterInvariant, PTL DEF Spec

-----------------------------------------------------------------------------
\* A retry waits to be posted.
Timed(posts) == \E i \in DOMAIN posts : posts[i].delay > 0

\* Whether none, one or two results hold one.
LEMMA TimedOf ==
    /\ ~Timed(<<>>)
    /\ \A p : Timed(<<p>>) <=> p.delay > 0
    /\ \A p, q : Timed(<<p, q>>) <=> p.delay > 0 \/ q.delay > 0
<1>1. ~Timed(<<>>)
  BY DEF Timed
<1>2. ASSUME NEW p PROVE Timed(<<p>>) <=> p.delay > 0
  <2>1. DOMAIN <<p>> = {1}
    OBVIOUS
  <2>2. QED
    BY <2>1 DEF Timed
<1>3. ASSUME NEW p, NEW q PROVE Timed(<<p, q>>) <=> p.delay > 0 \/ q.delay > 0
  <2>1. DOMAIN <<p, q>> = {1, 2}
    OBVIOUS
  <2>2. QED
    BY <2>1 DEF Timed
<1>4. QED
  BY <1>1, <1>2, <1>3

\* Nobody is about to take the deadline away.
NoResets == \A c \in Clients : client[c].pc \notin {"reset", "resetInstall", "clear"}

\* Where reset() is never called no thread is in it.
LEMMA NoResetsStep ==
    ASSUME TypeOK, NoResets, [Next]_vars, "reset" \notin Calls
    PROVE  NoResets'
<1>1. client \in [Clients -> ClientType]
  BY DEF TypeOK
<1>2. CASE client' = client
  BY <1>2 DEF NoResets
<1>3. CASE \/ vars' = vars \/ AudioStep \/ WorkerStep \/ DeadlinePasses
           \/ ResetObsAudio \/ Destroy
  <2>1. client' = client
    BY <1>3, Zenon DEF vars, AudioStep, AudioArrives, AudioProcess, AudioPost,
       WorkerStep, WorkerWake, RebuildRead, RebuildInstall, WorkerRetry,
       StatusRead, StatusShow, DeadlinePasses, ResetObsAudio, Destroy
  <2>2. QED
    BY <1>2, <2>1
<1>4. ASSUME NEW c \in Clients, ClientCall(c) \/ ClientStep(c)
      PROVE  NoResets'
  <2>1. \A d \in Clients \ {c} : client'[d] = client[d]
    BY <1>4, LockMoves
  <2>2. client'[c].pc \notin {"reset", "resetInstall", "clear"}
    <3>1. client[c].pc \notin {"reset", "resetInstall", "clear"}
      BY DEF NoResets
    <3>2. CASE ClientCall(c)
      <4>1. \/ client' = [client EXCEPT ![c].pc = "update"]
            \/ client' = [client EXCEPT ![c].pc = "boundary"]
            \/ client' = [client EXCEPT ![c].pc = "notify"]
        BY <3>2, Zenon DEF ClientCall, CallUpdate, CallReset, CallDisable, CallEnable
      <4>2. client'[c].pc \in {"update", "boundary", "notify"}
        BY <1>1, <4>1, Zenon DEF ClientType
      <4>3. QED
        BY <4>2
    <3>3. CASE ResetRead(c) \/ ResetInstall(c) \/ ResetClear(c)
      BY <3>1, <3>3 DEF ResetRead, ReadForReset, ResetInstall, ResetClear
    <3>4. CASE UpdateInstall(c) \/ BoundaryInstall(c)
      <4>1. PICK k \in {Away, [Away EXCEPT !.pc = "notify"]} :
              client' = [client EXCEPT ![c] = k]
        BY <3>4, Zenon DEF UpdateInstall, BoundaryInstall
      <4>2. k.pc \in {"idle", "notify"}
        BY AwayType DEF TypeOK
      <4>3. client'[c] = k
        BY <1>1, <4>1, Zenon
      <4>4. QED
        BY <4>2, <4>3
    <3>5. CASE Notify(c)
      <4>1. client' = [client EXCEPT ![c].pc = "idle"]
        BY <3>5 DEF Notify
      <4>2. client'[c].pc = "idle"
        BY <1>1, <4>1, Zenon DEF ClientType
      <4>3. QED
        BY <4>2
    <3>6. CASE BoundaryRead(c) \/ BeginUpdate(c)
      <4>1. CASE BoundaryRead(c)
        <5>1. client' = [client EXCEPT ![c].pc = "boundaryInstall",
                                       ![c].old = OldState]
          BY <4>1 DEF BoundaryRead, ReadForReset
        <5>2. client'[c].pc = "boundaryInstall"
          BY <1>1, <5>1, Zenon DEF ClientType
        <5>3. QED
          BY <5>2
      <4>2. CASE BeginUpdate(c)
        <5>1. PICK path, switch :
                client' = [client EXCEPT ![c].pc = "read", ![c].format = obs,
                                         ![c].path = path, ![c].switch = switch]
          BY <4>2 DEF BeginUpdate
        <5>2. client'[c].pc = "read"
          BY <1>1, <5>1, Zenon DEF ClientType
        <5>3. QED
          BY <5>2
      <4>3. QED
        BY <3>6, <4>1, <4>2
    <3>7. CASE UpdateRead(c) \/ UpdatePrepare(c) \/ UpdateFallback(c)
      <4>1. client[c].pc \in {"read", "prepare", "fallback"}
        BY <3>7 DEF UpdateRead, UpdatePrepare, UpdateFallback
      <4>2. client'[c].pc \in {"prepare", "fallback", "install"}
        BY <1>1, <3>7, UpdateForward
      <4>3. QED
        BY <4>2
    <3>8. QED
      BY <1>4, <3>2, <3>3, <3>4, <3>5, <3>6, <3>7, Zenon DEF ClientStep
  <2>3. QED
    BY <2>1, <2>2 DEF NoResets
<1>5. QED
  BY <1>3, <1>4 DEF Next

\* A pause's retry moves from the callback to the request and on to the
\* worker, and ends with the pause.
LEMMA RetryStep ==
    ASSUME FilterInv, NoResets, PauseHasRetry, [Next]_vars
    PROVE  PauseHasRetry'
<1>1. /\ TypeOK /\ ClientInv /\ PostsInv /\ guard \in GuardType
      /\ request \in RequestType /\ worker \in WorkerType
  BY DEF FilterInv, TypeOK
<1>2. ASSUME Overloaded
      PROVE  request.deadline > 0 \/ Timed(audio.posts) \/ Retrying
  BY <1>2 DEF PauseHasRetry, Timed
<1>3. ASSUME Overloaded' =>
               request'.deadline > 0 \/ Timed(audio'.posts) \/ Retrying'
      PROVE  PauseHasRetry'
  BY <1>3 DEF PauseHasRetry, Timed
<1>4. CASE proc'.reason # "RealtimeOverload"
  BY <1>3, <1>4 DEF Overloaded
<1>5. CASE AudioProcess
  <2>1. /\ audio.posts = <<>> /\ request' = request /\ worker' = worker
    BY <1>1, <1>5, Locked
  <2>2. ~Timed(audio.posts)
    BY <2>1, TimedOf
  <2>3. Passed \/ Paused \/ Probed
    BY <1>1, <1>5, AudioView
  <2>4. CASE Passed
    <3>1. Overloaded' => Overloaded
      BY <2>4, ReasonsAre DEF Passed, Overloaded
    <3>2. QED
      BY <1>2, <1>3, <2>1, <2>2, <3>1 DEF Retrying
  <2>5. CASE Paused
    <3>1. PICK q \in PostType :
            /\ q.delay = NextDelay(guard)
            /\ \/ audio'.posts = <<q>>
               \/ \E p \in PostType : p.delay = 0 /\ audio'.posts = <<p, q>>
      BY <2>5 DEF Paused
    <3>2. q.delay > 0
      BY <1>1, <3>1, NextDelayType
    <3>3. Timed(audio'.posts)
      BY <3>1, <3>2, TimedOf
    <3>4. QED
      BY <1>3, <3>3
  <2>6. CASE Probed
    BY <1>4, <2>6, ReasonsAre DEF Probed
  <2>7. QED
    BY <2>3, <2>4, <2>5, <2>6
<1>6. CASE AudioPost
  <2>1. PICK p \in PostType :
          /\ request'.slots = request.slots \cup ({p.event} \cap Slots)
          /\ request'.deadline = IF p.delay > 0 THEN p.delay
                                 ELSE request.deadline
          /\ \/ audio.posts = <<p>> /\ audio'.posts = <<>>
             \/ \E q \in PostType : /\ p.delay = 0
                                    /\ audio.posts = <<p, q>>
                                    /\ audio'.posts = <<q>>
          /\ UNCHANGED <<proc, guard, worker, client, unlogged>>
    BY <1>1, <1>6, PostStep
  <2>2. /\ Overloaded' = Overloaded /\ Retrying' = Retrying
    BY <2>1 DEF Overloaded, Retrying
  <2>3. CASE audio.posts = <<p>> /\ audio'.posts = <<>>
    <3>1. Timed(audio.posts) <=> p.delay > 0
      BY <2>3, TimedOf
    <3>2. QED
      BY <1>2, <1>3, <2>1, <2>2, <3>1
  <2>4. ASSUME NEW q \in PostType, p.delay = 0, audio.posts = <<p, q>>,
               audio'.posts = <<q>>
        PROVE  PauseHasRetry'
    <3>1. Timed(audio.posts) <=> Timed(audio'.posts)
      BY <2>4, TimedOf
    <3>2. request'.deadline = request.deadline
      BY <2>1, <2>4
    <3>3. QED
      BY <1>2, <1>3, <2>2, <3>1, <3>2
  <2>5. QED
    BY <2>1, <2>3, <2>4
<1>7. CASE WorkerWake
  <2>1. /\ audio' = audio /\ proc' = proc
        /\ \/ request' = request
           \/ /\ request'.deadline = IF Expired THEN 0 ELSE request.deadline
              /\ Expired => /\ worker'.pc \in {"rebuild", "retry"}
                            /\ worker'.retry
    BY <1>1, <1>7, WakeStep
  <2>2. ~Retrying
    BY <1>7 DEF WorkerWake, Retrying
  <2>3. CASE Expired /\ worker'.pc \in {"rebuild", "retry"} /\ worker'.retry
    BY <1>3, <2>3 DEF Retrying
  <2>4. CASE request'.deadline = request.deadline
    BY <1>2, <1>3, <2>1, <2>2, <2>4 DEF Overloaded
  <2>5. QED
    BY <2>1, <2>3, <2>4
<1>8. ~\E c \in Clients : ResetClear(c)
  BY DEF ResetClear, NoResets
<1>9. ASSUME audio'.posts = audio.posts, request'.deadline = request.deadline,
             proc'.reason = proc.reason, Retrying => Retrying'
      PROVE  PauseHasRetry'
  BY <1>2, <1>3, <1>9 DEF Overloaded
<1>10. CASE Settled
  <2>1. \/ AudioProcess \/ AudioPost \/ WorkerWake
        \/ /\ audio'.posts = audio.posts
           /\ request'.deadline = request.deadline
    BY <1>1, <1>8, QuietStep
  <2>2. CASE worker' = worker
    BY <1>5, <1>6, <1>7, <1>9, <1>10, <2>1, <2>2 DEF Settled, Retrying
  <2>3. CASE RebuildRead
    <3>1. \/ worker' = [worker EXCEPT !.pc = "install", !.format = proc.format,
                                      !.model = proc.model]
          \/ worker' = [worker EXCEPT !.pc = AfterRebuild]
      BY <2>3 DEF RebuildRead
    <3>2. /\ worker'.pc = "install" \/ worker'.pc = AfterRebuild
          /\ worker'.retry = worker.retry
      BY <1>1, <3>1, Zenon DEF WorkerType
    <3>3. worker.retry => AfterRebuild = "retry"
      BY DEF AfterRebuild
    <3>4. Retrying => Retrying'
      BY <3>2, <3>3 DEF Retrying
    <3>5. QED
      BY <1>5, <1>6, <1>7, <1>9, <1>10, <2>1, <3>4 DEF Settled
  <2>4. CASE RebuildInstall
    <3>1. worker' = [NoWork EXCEPT !.pc = AfterRebuild, !.retry = worker.retry]
      BY <2>4 DEF RebuildInstall
    <3>2. worker'.pc = AfterRebuild /\ worker'.retry = worker.retry
      BY <3>1, Zenon DEF NoWork
    <3>3. worker.retry => AfterRebuild = "retry"
      BY DEF AfterRebuild
    <3>4. Retrying => Retrying'
      BY <3>2, <3>3 DEF Retrying
    <3>5. QED
      BY <1>5, <1>6, <1>7, <1>9, <1>10, <2>1, <3>4 DEF Settled
  <2>5. CASE WorkerRetry
    <3>1. \/ ~Overloaded /\ proc' = proc
          \/ proc'.reason = "None"
      BY <1>1, <2>5, RetryView
    <3>2. QED
      BY <1>3, <1>4, <3>1, ReasonsAre DEF Overloaded
  <2>6. CASE StatusRead \/ StatusShow
    <3>1. ~Retrying
      BY <2>6 DEF StatusRead, StatusShow, Retrying
    <3>2. QED
      BY <1>5, <1>6, <1>7, <1>9, <1>10, <2>1, <3>1 DEF Settled
  <2>7. CASE \/ Elsewhere \/ ByAudio \/ DeadlinePasses \/ Destroy
             \/ \E c \in Clients : ByClient(c)
    <3>1. worker' = worker
      BY <2>7, Zenon DEF Elsewhere, ByAudio, AudioArrives, AudioProcess,
         AudioPost, DeadlinePasses, Destroy, ByClient, UpdateInstall,
         ResetInstall, ResetClear, BoundaryInstall, Notify
    <3>2. QED
      BY <2>2, <3>1
  <2>8. QED
    BY <1>7, <2>3, <2>4, <2>5, <2>6, <2>7, StepKinds DEF ByWorker
<1>11. CASE Cleared \/ Retried
  BY <1>4, <1>11, ReasonsAre DEF Cleared, Retried
<1>12. QED
  BY <1>1, <1>5, <1>10, <1>11, ProcStep

\* Where reset() is not called, a pause always has its retry: posted,
\* scheduled or in the worker's hands. (With reset() it need not: the run
\* reset_race shows the pause a reset() that clears the deadline leaves
\* without one.)
THEOREM PausesKeepTheirRetry ==
    ASSUME "reset" \notin Calls
    PROVE  Spec => []PauseHasRetry
<1> DEFINE Inv == NoResets /\ PauseHasRetry
<1>1. Init => Inv
  <2>1. Init => proc.reason = "None"
    BY DEF Init, FirstView
  <2>2. ASSUME Init PROVE NoResets
    <3>1. obs \in Formats /\ client = [c \in Clients |-> Away]
      BY <2>2 DEF Init
    <3>2. QED
      BY <3>1, AwayType DEF NoResets
  <2>3. QED
    BY <2>1, <2>2, ReasonsAre DEF PauseHasRetry, Overloaded
<1>2. FilterInv /\ Inv /\ [Next]_vars => Inv'
  <2>1. SUFFICES ASSUME FilterInv, Inv, [Next]_vars PROVE Inv'
    OBVIOUS
  <2>2. NoResets'
    BY <2>1, NoResetsStep DEF FilterInv
  <2>3. PauseHasRetry'
    BY <2>1, RetryStep
  <2>4. QED
    BY <2>2, <2>3
<1>3. Inv => PauseHasRetry
  OBVIOUS
<1>4. QED
  BY <1>1, <1>2, <1>3, FilterInvariant, PTL DEF Spec

-----------------------------------------------------------------------------
(***************************************************************************)
(* The resampler pair: what each method of the processor makes of it.      *)
(***************************************************************************)
\* The pair and what it has taken in.
SamePair(w, v) == /\ w.pair = v.pair /\ w.valid = v.valid /\ w.fed = v.fed

\* A format that changes keeps the pair, starts the lanes over, and lets the
\* pair go stale when a model is loaded that it, or the new rate, concerns.
LEMMA SetFormatPair ==
    ASSUME NEW v \in ViewType, NEW f \in Formats
    PROVE  LET w == SetFormat(v, f)
           IN /\ w.pair = v.pair /\ w.fed = v.fed
              /\ f = v.format => w = v
              /\ f # v.format =>
                   /\ ~w.used
                   /\ w.valid = (v.valid /\ ~(/\ Loaded(v)
                                              /\ \/ Resamples(f, v.model)
                                                 \/ v.pair # NoPair))
<1> DEFINE valid == v.valid /\ ~(/\ Loaded(v)
                                 /\ \/ Resamples(f, v.model)
                                    \/ v.pair # NoPair)
           w == [v EXCEPT !.format = f, !.used = FALSE, !.valid = valid]
<1>1. SetFormat(v, f) = IF f = v.format THEN v ELSE w
  BY DEF SetFormat
<1> HIDE DEF valid
<1>2. w.pair = v.pair /\ w.fed = v.fed /\ ~w.used /\ w.valid = valid
  BY Zenon DEF ViewType
<1> HIDE DEF w
<1>3. QED
  BY <1>1, <1>2 DEF valid

\* What replaces a pair is installed, valid and unused.
LEMMA ReplacedPair ==
    ASSUME NEW v \in ViewType, NEW p \in Pairs
    PROVE  LET w == ReplaceResamplers(v, p)
           IN w.pair = p /\ w.valid /\ (p # NoPair => ~w.fed)
<1> DEFINE u == [v EXCEPT !.valid = TRUE]
           w == [v EXCEPT !.pair = p, !.valid = TRUE, !.used = FALSE,
                          !.fed = FALSE]
<1>1. ReplaceResamplers(v, p) = IF v.pair = NoPair /\ p = NoPair THEN u ELSE w
  BY DEF ReplaceResamplers
<1>2. u.pair = v.pair /\ u.valid
  BY Zenon DEF ViewType
<1>3. w.pair = p /\ w.valid /\ ~w.fed
  BY Zenon DEF ViewType
<1> HIDE DEF u, w
<1>4. QED
  BY <1>1, <1>2, <1>3

\* What is released is nobody's any more.
LEMMA ReleasedPair ==
    ASSUME NEW v \in ViewType
    PROVE  LET w == ReleaseInvalidResamplers(v)
           IN IF v.valid \/ Resamples(v.format, v.model) THEN w = v
              ELSE w.pair = NoPair /\ w.valid
<1> DEFINE w == [v EXCEPT !.pair = NoPair, !.valid = TRUE, !.fed = FALSE]
<1>1. w.pair = NoPair /\ w.valid
  BY Zenon DEF ViewType
<1> HIDE DEF w
<1>2. QED
  BY <1>1 DEF ReleaseInvalidResamplers, w

\* The resets, the pause, its end and a new model leave the pair.
LEMMA LeavesPair ==
    ASSUME NEW v \in ViewType
    PROVE  /\ SamePair(ResetState(v), v) /\ SamePair(ResetStream(v), v)
           /\ SamePair(DisableForRealtimeOverload(v), v)
           /\ DisableForRealtimeOverload(v).used = v.used
           /\ SamePair(ResumeAfterOverload(v), v)
           /\ ResumeAfterOverload(v).used = v.used
           /\ \A m : SamePair(ReplaceModel(v, m), v)
<1>1. SamePair(ResetState(v), v)
  BY Zenon DEF ResetState, SamePair, ViewType
<1>2. SamePair(ResetStream(v), v)
  BY Zenon DEF ResetStream, SamePair, ViewType
<1>3. /\ SamePair(DisableForRealtimeOverload(v), v)
      /\ DisableForRealtimeOverload(v).used = v.used
  BY Zenon DEF DisableForRealtimeOverload, SamePair, ViewType
<1>4. /\ SamePair(ResumeAfterOverload(v), v)
      /\ ResumeAfterOverload(v).used = v.used
  BY Zenon DEF ResumeAfterOverload, SamePair, ViewType
<1>5. \A m : SamePair(ReplaceModel(v, m), v)
  BY Zenon DEF ReplaceModel, SamePair, ViewType
<1>6. QED
  BY <1>1, <1>2, <1>3, <1>4, <1>5

\* A pair in use is one.
LEMMA PathHasPair ==
    ASSUME NEW v \in ViewType
    PROVE  /\ Path(v) => v.pair # NoPair
           /\ Mismatch(v) \in BOOLEAN /\ Path(v) \in BOOLEAN
           /\ Stale(v) \in BOOLEAN /\ v.valid \in BOOLEAN
<1>1. v.format \in Formats /\ v.model \in Paths /\ v.valid \in BOOLEAN
  BY ViewFields
<1>2. Path(v) => v.pair # NoPair
  BY <1>1, NoPairAssumption DEF Path, Loaded, ResamplerMatches, Paths
<1>3. Path(v) \in BOOLEAN /\ Mismatch(v) \in BOOLEAN /\ Stale(v) \in BOOLEAN
  BY DEF Path, ResamplerMatches, Mismatch, Stale
<1>4. QED
  BY <1>1, <1>2, <1>3

\* A pair that was prepared for a stream that needs it is one, between two
\* different rates.
Fits(v) == v.pair # NoPair => v.pair.native # v.pair.model

LEMMA PreparedFits ==
    ASSUME NEW f \in Formats, NEW m \in Paths, Resamples(f, m)
    PROVE  /\ PairFor(f, m) # NoPair
           /\ PairFor(f, m).native # PairFor(f, m).model
BY NoPairAssumption DEF PairFor, Resamples, Paths

\* A pair that fits serves only streams that need one.
LEMMA PathResamples ==
    ASSUME NEW v \in ViewType, Fits(v), Path(v)
    PROVE  Resamples(v.format, v.model)
<1>1. v.pair # NoPair /\ v.pair = PairFor(v.format, v.model) /\ Loaded(v)
  BY PathHasPair DEF Path, ResamplerMatches
<1>2. QED
  BY <1>1 DEF Fits, PairFor, Loaded, Resamples

\* The failure circuit is open: nothing is processed until a call closes it.
Broken(v) == v.reason = "RepeatedProcessingFailures"

\* What process() makes of the pair: it may give the pair up, which it asks
\* to have mended unless the circuit opened, and what it starts on through a
\* pair is what it was given.
Wears(w, v) ==
    /\ w.pair = v.pair
    /\ w.valid => v.valid
    /\ Path(w) /\ ~w.used => Path(v) /\ ~v.used /\ w.fed = v.fed

Used(o, v) ==
    /\ Wears(o.view, v)
    /\ v.valid /\ ~o.view.valid => o.refresh \/ Broken(o.view)
    /\ o.hops => o.view.valid = v.valid

\* Nothing done to the pair, or audio taken in through it.
LEMMA SteadyPair ==
    ASSUME NEW v \in ViewType, NEW w \in ViewType, SameRun(w, v),
           w.pair = v.pair, w.valid = v.valid,
           w.used \/ (w.used = v.used /\ w.fed = v.fed)
    PROVE  Wears(w, v)
BY Zenon DEF Wears, Path, Loaded, ResamplerMatches, SameRun

\* A pair that is given up is not used again.
LEMMA GivenUpPair ==
    ASSUME NEW v \in ViewType, NEW w \in ViewType, SameRun(w, v),
           w.pair = v.pair, w.valid = (v.valid /\ ~Path(v))
    PROVE  /\ Wears(w, v)
           /\ v.valid /\ ~w.valid => Path(v)
<1>1. ~Path(w)
  <2>1. SUFFICES ASSUME Path(w) PROVE FALSE
    OBVIOUS
  <2>2. w.valid /\ w.pair = PairFor(w.format, w.model) /\ Loaded(w)
    BY <2>1 DEF Path, ResamplerMatches
  <2>3. Path(v)
    BY <2>2 DEF Path, ResamplerMatches, Loaded, SameRun
  <2>4. QED
    BY <2>2, <2>3
<1>2. v.valid \in BOOLEAN
  BY ViewFields
<1>3. QED
  BY <1>1, <1>2 DEF Wears

\* The fields the outcomes of process() change.
LEMMA OutcomePairs ==
    ASSUME NEW v \in ViewType
    PROVE  LET g == GivenUp(v)
               t == TakenIn(v)
           IN /\ g.pair = v.pair /\ g.valid = (v.valid /\ ~Path(v))
              /\ \A x : /\ [g EXCEPT !.failing = x].pair = g.pair
                        /\ [g EXCEPT !.failing = x].valid = g.valid
                        /\ [g EXCEPT !.reason = x].pair = g.pair
                        /\ [g EXCEPT !.reason = x].valid = g.valid
                        /\ [g EXCEPT !.reason = x].reason = x
                        /\ SameRun([g EXCEPT !.reason = x], g)
              /\ t.pair = v.pair /\ t.valid = v.valid /\ t.used
              /\ \A x : /\ [t EXCEPT !.failing = x].pair = t.pair
                        /\ [t EXCEPT !.failing = x].valid = t.valid
                        /\ [t EXCEPT !.failing = x].used = t.used
<1> DEFINE valid == v.valid /\ ~Path(v)
           fed == v.fed \/ Path(v)
           g == GivenUp(v)
           t == TakenIn(v)
<1>1. g = [v EXCEPT !.valid = valid, !.used = FALSE]
  BY DEF GivenUp
<1>2. t = [v EXCEPT !.used = TRUE, !.fed = fed]
  BY DEF TakenIn
<1>3. g \in ViewType /\ t \in ViewType
  BY GivenUpView, TakenInView DEF Steady
<1> HIDE DEF valid, fed, g, t
<1>4. g.pair = v.pair /\ g.valid = valid
  BY <1>1, Zenon DEF ViewType
<1>5. t.pair = v.pair /\ t.valid = v.valid /\ t.used
  BY <1>2, Zenon DEF ViewType
<1>6. \A x : /\ [g EXCEPT !.failing = x].pair = g.pair
             /\ [g EXCEPT !.failing = x].valid = g.valid
             /\ [g EXCEPT !.reason = x].pair = g.pair
             /\ [g EXCEPT !.reason = x].valid = g.valid
             /\ [g EXCEPT !.reason = x].reason = x
             /\ SameRun([g EXCEPT !.reason = x], g)
  BY <1>3, Zenon DEF ViewType, SameRun
<1>7. \A x : /\ [t EXCEPT !.failing = x].pair = t.pair
             /\ [t EXCEPT !.failing = x].valid = t.valid
             /\ [t EXCEPT !.failing = x].used = t.used
  BY <1>3, Zenon DEF ViewType
<1>8. QED
  BY <1>4, <1>5, <1>6, <1>7 DEF valid, g, t

\* Whatever process() does, a pair it gives up is asked for, unless it gave
\* up with the pair.
LEMMA ResultsPair ==
    ASSUME NEW v \in ViewType, NEW o \in Results(v)
    PROVE  Used(o, v)
<1> DEFINE g == GivenUp(v)
           t == TakenIn(v)
<1>1. /\ g \in ViewType /\ SameRun(g, v)
      /\ [g EXCEPT !.failing = TRUE] \in ViewType
      /\ SameRun([g EXCEPT !.failing = TRUE], v)
  BY GivenUpView DEF Steady
<1>2. /\ t \in ViewType /\ SameRun(t, v)
      /\ [t EXCEPT !.failing = FALSE] \in ViewType
      /\ SameRun([t EXCEPT !.failing = FALSE], v)
  BY TakenInView DEF Steady
<1>3. /\ g.pair = v.pair /\ g.valid = (v.valid /\ ~Path(v))
      /\ \A x : /\ [g EXCEPT !.failing = x].pair = g.pair
                /\ [g EXCEPT !.failing = x].valid = g.valid
                /\ [g EXCEPT !.reason = x].pair = g.pair
                /\ [g EXCEPT !.reason = x].valid = g.valid
                /\ [g EXCEPT !.reason = x].reason = x
                /\ SameRun([g EXCEPT !.reason = x], g)
      /\ t.pair = v.pair /\ t.valid = v.valid /\ t.used
      /\ \A x : /\ [t EXCEPT !.failing = x].pair = t.pair
                /\ [t EXCEPT !.failing = x].valid = t.valid
                /\ [t EXCEPT !.failing = x].used = t.used
  BY OutcomePairs
<1>4. Path(v) \in BOOLEAN /\ v.valid \in BOOLEAN
  BY PathHasPair
<1> HIDE DEF g, t
<1>5. CASE o \in PassedThrough(v)
  <2>1. o.view = v
    <3>1. PICK event \in BOOLEAN : o = Outcome(v, event, FALSE, FALSE)
      BY <1>5, Zenon DEF PassedThrough
    <3>2. QED
      BY <3>1, Zenon DEF Outcome
  <2>2. Wears(v, v)
    BY SteadyPair DEF SameRun
  <2>3. QED
    BY <2>1, <2>2 DEF Used
<1>6. CASE o \in TurnedAway(v)
  <2> DEFINE Back(event, w) == Outcome(w, event, w.valid # v.valid, FALSE)
  <2>1. TurnedAway(v) =
           {Back(event, w) : event \in BOOLEAN,
                             w \in {g} \cup {u \in {v} : ~u.used}}
    BY DEF TurnedAway, g
  <2> HIDE DEF Back
  <2>2. \E event \in BOOLEAN, w \in {g} \cup {u \in {v} : ~u.used} :
          o = Back(event, w)
    BY <1>6, <2>1
  <2>3. PICK event \in BOOLEAN, w \in {g} \cup {u \in {v} : ~u.used} :
          o = Back(event, w)
    BY <2>2
  <2>4. /\ o.view = w /\ o.refresh = (w.valid # v.valid) /\ o.hops = FALSE
    BY <2>3, Zenon DEF Back, Outcome
  <2>5. w = g \/ w = v
    BY <2>3
  <2>6. Wears(w, v)
    BY <1>1, <1>3, <2>5, SteadyPair, GivenUpPair DEF SameRun
  <2>7. QED
    BY <2>4, <2>6 DEF Used
<1>7. CASE o \in Jumped(v)
  <2>1. o.view = g /\ o.refresh = TRUE /\ o.hops = FALSE
    <3>1. o = Outcome(g, TRUE, TRUE, FALSE)
      BY <1>7, Zenon DEF Jumped, g
    <3>2. QED
      BY <3>1, Zenon DEF Outcome
  <2>2. Wears(g, v)
    BY <1>1, <1>3, GivenUpPair
  <2>3. QED
    BY <2>1, <2>2 DEF Used
<1>8. CASE o \in Failed(v)
  <2> DEFINE w == [g EXCEPT !.failing = TRUE]
  <2>1. o.view = w /\ o.refresh = Path(v) /\ o.hops = FALSE
    <3>1. PICK event \in IF v.failing THEN BOOLEAN ELSE {TRUE} :
            o = Outcome(w, event, Path(v), FALSE)
      BY <1>8, Zenon DEF Failed, g
    <3>2. QED
      BY <3>1, Zenon DEF Outcome
  <2>2. /\ w \in ViewType /\ SameRun(w, v) /\ w.pair = v.pair
        /\ w.valid = (v.valid /\ ~Path(v))
    BY <1>1, <1>3
  <2> HIDE DEF w
  <2>3. Wears(w, v) /\ (v.valid /\ ~w.valid => Path(v))
    BY <2>2, GivenUpPair
  <2>4. QED
    BY <2>1, <2>3 DEF Used
<1>9. CASE o \in Opened(v)
  <2> DEFINE w == [g EXCEPT !.reason = "RepeatedProcessingFailures"]
  <2>1. o.view = w /\ o.hops = FALSE
    <3>1. o = Outcome(w, TRUE, FALSE, FALSE)
      BY <1>9, Zenon DEF Opened, g
    <3>2. QED
      BY <3>1, Zenon DEF Outcome
  <2>2. /\ w \in ViewType /\ SameRun(w, v) /\ w.pair = v.pair
        /\ w.valid = (v.valid /\ ~Path(v))
        /\ w.reason = "RepeatedProcessingFailures"
    BY <1>1, <1>3, ReasonsAre, ViewSetters DEF SameRun
  <2> HIDE DEF w
  <2>3. Wears(w, v)
    BY <2>2, GivenUpPair
  <2>4. QED
    BY <2>1, <2>2, <2>3 DEF Used, Broken
<1>10. CASE o \in Succeeded(v)
  <2> DEFINE u == [t EXCEPT !.failing = FALSE]
  <2>1. o.view = t \/ o.view = u
    <3>1. \/ \E event \in BOOLEAN : o = Outcome(t, event, FALSE, FALSE)
          \/ \E event \in BOOLEAN : o = Outcome(u, event, FALSE, TRUE)
      BY <1>10, Zenon DEF Succeeded, t
    <3> HIDE DEF u
    <3>2. o.view = t \/ o.view = u
      BY <3>1, SMT DEF Outcome
    <3>3. QED
      BY <3>2 DEF u
  <2>2. /\ u \in ViewType /\ SameRun(u, v) /\ u.pair = v.pair
        /\ u.valid = v.valid /\ u.used
    BY <1>2, <1>3
  <2> HIDE DEF u
  <2>3. Wears(t, v) /\ Wears(u, v)
    BY <1>2, <1>3, <2>2, SteadyPair
  <2>4. o.view.valid = v.valid /\ Wears(o.view, v)
    BY <1>3, <2>1, <2>2, <2>3
  <2>5. QED
    BY <2>4 DEF Used
<1>11. \/ o \in PassedThrough(v) \/ o \in Succeeded(v) \/ o \in TurnedAway(v)
       \/ o \in Jumped(v) \/ o \in Failed(v) \/ o \in Opened(v)
  BY DEF Results, Ordinary, Setbacks
<1>12. QED
  BY <1>5, <1>6, <1>7, <1>8, <1>9, <1>10, <1>11

\* What any step but an install makes of the pair: a format that changes
\* leaves a pair that is invalid or none, and a pair that goes stale is asked
\* for, unless the circuit opened.
Played(w, v, asked) ==
    /\ w.model = v.model /\ Wears(w, v)
    /\ w.format # v.format /\ Loaded(v) =>
         ~w.valid \/ (w.pair = NoPair /\ ~Resamples(w.format, w.model))
    /\ Stale(w) => \/ w.format = v.format /\ Stale(v)
                   \/ asked \/ Broken(w)
    /\ w.format # v.format /\ Stale(v) => asked
    /\ Broken(v) => Broken(w)

\* A format that changes leaves no pair in use.
LEMMA FormatWears ==
    ASSUME NEW v \in ViewType, NEW f \in Formats
    PROVE  Wears(SetFormat(v, f), v)
<1> DEFINE u == SetFormat(v, f)
<1>1. /\ u \in ViewType /\ u.model = v.model
      /\ u.pair = v.pair /\ u.fed = v.fed
      /\ f = v.format => u = v
      /\ f # v.format =>
           /\ ~u.used
           /\ u.valid = (v.valid /\ ~(/\ Loaded(v)
                                      /\ \/ Resamples(f, v.model)
                                         \/ v.pair # NoPair))
  BY SetFormatView, SetFormatPair
<1> HIDE DEF u
<1>2. CASE f = v.format
  BY <1>1, <1>2 DEF Wears, u
<1>3. CASE f # v.format
  <2>1. ~Path(u)
    <3>1. SUFFICES ASSUME Path(u) PROVE FALSE
      OBVIOUS
    <3>2. u.valid /\ Loaded(v) /\ u.pair # NoPair
      BY <1>1, <3>1, PathHasPair DEF Path, Loaded, ResamplerMatches
    <3>3. QED
      BY <1>1, <1>3, <3>2
  <2>2. QED
    BY <1>1, <1>3, <2>1 DEF Wears, u
<1>4. QED
  BY <1>2, <1>3

\* A callback does no more than that.
LEMMA PlayedBy ==
    ASSUME NEW v \in ViewType, NEW f \in Formats,
           NEW o \in Results(SetFormat(v, f)),
           NEW w \in ViewType, SameRun(w, o.view), SamePair(w, o.view),
           w.used = o.view.used, w = o.view \/ o.hops,
           NEW asked,
           o.refresh \/ (f # v.format /\ Stale(SetFormat(v, f))) => asked,
           Broken(v) => Broken(w)
    PROVE  Played(w, v, asked)
<1> DEFINE u == SetFormat(v, f)
           x == o.view
<1>1. /\ u \in ViewType /\ u.model = v.model /\ u.format = f
      /\ u.pair = v.pair /\ u.fed = v.fed
      /\ f = v.format => u = v
      /\ f # v.format =>
           /\ ~u.used
           /\ u.valid = (v.valid /\ ~(/\ Loaded(v)
                                      /\ \/ Resamples(f, v.model)
                                         \/ v.pair # NoPair))
  BY SetFormatView, SetFormatPair
<1>2. x \in ViewType /\ SameRun(x, u)
  BY <1>1, ResultsView DEF Returns, Outcomes
<1>3. Used(o, u)
  BY <1>1, ResultsPair
<1> HIDE DEF u, x
<1>4. /\ Wears(x, u) /\ (u.valid /\ ~x.valid => o.refresh \/ Broken(x))
      /\ o.hops => x.valid = u.valid
  BY <1>3 DEF Used, x
<1>5. /\ w.format = f /\ w.model = v.model /\ w.pair = x.pair
      /\ w.valid = x.valid /\ w.fed = x.fed /\ w.used = x.used
  BY <1>1, <1>2 DEF SameRun, SamePair, x
<1>6. Path(w) <=> Path(x)
  BY <1>1, <1>2, <1>5 DEF Path, Loaded, ResamplerMatches, SameRun
<1>7. Wears(w, u)
  BY <1>4, <1>5, <1>6 DEF Wears
<1>8. Wears(u, v)
  BY FormatWears DEF u
<1>9. Wears(w, v)
  BY <1>7, <1>8 DEF Wears
<1>10. f # v.format /\ Loaded(v) =>
         ~w.valid \/ (w.pair = NoPair /\ ~Resamples(w.format, w.model))
  <2>1. SUFFICES ASSUME f # v.format, Loaded(v), w.valid
                 PROVE  w.pair = NoPair /\ ~Resamples(w.format, w.model)
    OBVIOUS
  <2>2. u.valid
    BY <1>7, <2>1 DEF Wears
  <2>3. QED
    BY <1>1, <1>5, <1>9, <2>1, <2>2 DEF Wears
<1>11. Loaded(w) <=> Loaded(v)
  BY <1>5 DEF Loaded
<1>12. ~u.valid /\ Loaded(v) /\ f # v.format => asked
  BY <1>1 DEF Stale, Loaded, u
<1>13. ASSUME Stale(w)
       PROVE  (f = v.format /\ Stale(v)) \/ asked \/ Broken(w)
  <2>1. ~w.valid /\ Loaded(v)
    BY <1>11, <1>13 DEF Stale
  <2>2. CASE u.valid
    <3>1. ~o.hops /\ ~x.valid
      BY <1>4, <1>5, <2>1, <2>2
    <3>2. w = x
      BY <3>1 DEF x
    <3>3. QED
      BY <1>4, <2>2, <3>1, <3>2
  <2>3. CASE ~u.valid
    BY <1>1, <1>12, <2>1, <2>3 DEF Stale
  <2>4. QED
    BY <2>2, <2>3
<1>14. ASSUME f # v.format, Stale(v) PROVE asked
  BY <1>1, <1>12, <1>14 DEF Stale
<1>15. QED
  BY <1>5, <1>9, <1>10, <1>13, <1>14 DEF Played

\* A pair is asked for in what waits to be posted.
Asked(posts) == \E i \in DOMAIN posts : posts[i].refresh

\* Whether none, one or two results ask for one.
LEMMA AskedOf ==
    /\ ~Asked(<<>>)
    /\ \A p : Asked(<<p>>) <=> p.refresh
    /\ \A p, q : Asked(<<p, q>>) <=> p.refresh \/ q.refresh
<1>1. ~Asked(<<>>)
  BY DEF Asked
<1>2. ASSUME NEW p PROVE Asked(<<p>>) <=> p.refresh
  <2>1. DOMAIN <<p>> = {1}
    OBVIOUS
  <2>2. QED
    BY <2>1 DEF Asked
<1>3. ASSUME NEW p, NEW q PROVE Asked(<<p, q>>) <=> p.refresh \/ q.refresh
  <2>1. DOMAIN <<p, q>> = {1, 2}
    OBVIOUS
  <2>2. QED
    BY <2>1 DEF Asked
<1>4. QED
  BY <1>1, <1>2, <1>3

\* The audio callback's section: what it asks for is in what it posts.
LEMMA AudioPair ==
    ASSUME TypeOK, AudioProcess
    PROVE  Played(proc', proc, Asked(audio'.posts))
<1> DEFINE v        == SetFormat(proc, audio.format)
           changed  == audio.format # proc.format
           eligible == /\ Loaded(v) /\ v.reason = "None"
                       /\ ~Resamples(v.format, v.model) \/ Path(v)
<1>1. audio.format \in Formats /\ proc \in ViewType /\ guard \in GuardType
  BY DEF TypeOK, AudioType
<1>2. v \in ViewType
  BY <1>1, SetFormatView
<1>3. PICK o \in Results(v) :
        LET says    == proc.failing /\ ~o.view.failing
            refresh == o.refresh \/ (changed /\ Stale(v))
        IN \E r \in Verdicts(o, eligible, says, refresh) :
             /\ proc' = r.view
             /\ guard' = r.guard
             /\ audio' = IF r.posts = <<>> THEN NoAudio
                         ELSE [NoAudio EXCEPT !.pc = "post",
                                              !.posts = r.posts]
             /\ unlogged' = unlogged \cup ({EventOf(o), r.event} \cap Slots)
  BY Zenon DEF AudioProcess
<1> HIDE DEF eligible
<1> DEFINE says    == proc.failing /\ ~o.view.failing
           refresh == o.refresh \/ (changed /\ Stale(v))
<1>4. PICK r \in Verdicts(o, eligible, says, refresh) :
        /\ proc' = r.view
        /\ audio' = IF r.posts = <<>> THEN NoAudio
                    ELSE [NoAudio EXCEPT !.pc = "post", !.posts = r.posts]
  BY <1>3, Zenon
<1>5. audio'.posts = r.posts
  BY <1>4, Zenon DEF NoAudio
<1>6. o \in Outcomes /\ o.view \in ViewType /\ o.refresh \in BOOLEAN
  BY <1>2, ResultsView DEF Returns, Outcomes
<1>7. Broken(proc) => Broken(proc')
  <2>1. Passed \/ Paused \/ Probed
    BY AudioView
  <2>2. QED
    BY <2>1, ReasonsAre DEF Passed, Paused, Probed, Broken
<1>8. proc' \in ViewType
  BY AudioView
<1>9. says \in BOOLEAN /\ refresh \in BOOLEAN
  BY <1>6, Zenon DEF Stale
<1> HIDE DEF says
<1> DEFINE event == EventOf(o)
<1>10. event \in Events \cup {"none"}
  BY EventOfType
<1> HIDE DEF event
<1>11. CASE r = Untouched(o, says, refresh)
  <2>1. r.view = o.view /\ r.posts = PostIf(refresh, says, event)
    BY <1>11 DEF Untouched, event
  <2>2. refresh => Asked(r.posts)
    <3>1. ASSUME refresh PROVE Asked(PostIf(refresh, says, event))
      <4>1. PostIf(refresh, says, event) = <<Post(refresh, event, 0)>>
        BY <3>1 DEF PostIf
      <4>2. Post(refresh, event, 0).refresh = refresh
        BY PostFields
      <4>3. QED
        BY <3>1, <4>1, <4>2, AskedOf
    <3>2. QED
      BY <2>1, <3>1
  <2>3. SameRun(proc', o.view) /\ SamePair(proc', o.view)
    BY <1>4, <2>1 DEF SameRun, SamePair
  <2>4. QED
    BY <1>1, <1>4, <1>5, <1>7, <1>8, <2>1, <2>2, <2>3, PlayedBy
<1>12. CASE o.hops /\ r = Tripped(o, refresh)
  <2> DEFINE before == PostIf(FALSE, FALSE, event)
             q      == Post(refresh, "paused", NextDelay(guard))
  <2>1. /\ r.view = DisableForRealtimeOverload(o.view)
        /\ r.posts = before \o <<q>>
    BY <1>12 DEF Tripped, Pause, event
  <2>2. q \in PostType /\ q.refresh = refresh
    BY <1>1, <1>9, EventsAre, NextDelayType, PostFields
  <2>3. before = <<>> \/ \E p \in PostType : before = <<p>>
    <3> DEFINE no == FALSE
    <3>1. no \in BOOLEAN
      OBVIOUS
    <3> HIDE DEF no
    <3>2. \/ PostIf(no, no, event) = <<>>
          \/ \E p \in PostType : PostIf(no, no, event) = <<p>>
      BY <1>10, <3>1, PostIfShape
    <3>3. QED
      BY <3>2 DEF no
  <2> HIDE DEF before, q
  <2>4. refresh => Asked(r.posts)
    <3> HIDE DEF refresh
    <3>1. CASE before = <<>>
      <4>1. r.posts = <<q>>
        BY <2>1, <3>1
      <4>2. QED
        BY <2>2, <4>1, AskedOf
    <3>2. ASSUME NEW p \in PostType, before = <<p>>
          PROVE  refresh => Asked(r.posts)
      <4>1. r.posts = <<p, q>>
        BY <2>1, <2>2, <3>2, TwoInARow
      <4>2. QED
        BY <2>2, <4>1, AskedOf
    <3>3. QED
      BY <2>3, <3>1, <3>2
  <2>5. /\ SameRun(proc', o.view) /\ SamePair(proc', o.view)
        /\ proc'.used = o.view.used
    BY <1>4, <1>6, <2>1, LeavesPair, ResetsView
  <2>6. QED
    BY <1>1, <1>4, <1>5, <1>7, <1>8, <1>12, <2>4, <2>5, PlayedBy
<1>13. CASE r = ProbeOver(o, refresh)
  <2> DEFINE p == Post(refresh, "recovered", 0)
  <2>1. r.view = o.view /\ r.posts = <<p>>
    BY <1>13 DEF ProbeOver
  <2>2. p.refresh = refresh
    BY PostFields
  <2> HIDE DEF p
  <2>3. refresh => Asked(r.posts)
    BY <2>1, <2>2, AskedOf
  <2>4. SameRun(proc', o.view) /\ SamePair(proc', o.view)
    BY <1>4, <2>1 DEF SameRun, SamePair
  <2>5. QED
    BY <1>1, <1>4, <1>5, <1>7, <1>8, <2>1, <2>3, <2>4, PlayedBy
<1>14. QED
  <2>1. \/ r = Untouched(o, says, refresh)
        \/ o.hops /\ r = Tripped(o, refresh)
        \/ r = ProbeOver(o, refresh)
    BY Zenon DEF Verdicts
  <2>2. QED
    BY <1>11, <1>12, <1>13, <2>1

\* The sections of the calls that put something in the processor.
Installs(c) == UpdateInstall(c) \/ ResetInstall(c) \/ BoundaryInstall(c)

\* A step that leaves the pair and the stream plays no more than a callback.
LEMMA RestsPair ==
    ASSUME NEW v \in ViewType, NEW w \in ViewType, SameRun(w, v),
           SamePair(w, v), w.used = v.used, Broken(v) => Broken(w), NEW asked
    PROVE  Played(w, v, asked)
<1>1. Wears(w, v)
  BY SteadyPair DEF SamePair
<1>2. w.model = v.model /\ w.format = v.format /\ (Stale(w) => Stale(v))
  BY DEF SameRun, SamePair, Stale, Loaded
<1>3. QED
  BY <1>1, <1>2 DEF Played

\* Only the worker's install and the calls' do more.
LEMMA PlayStep ==
    ASSUME FilterInv, [Next]_vars
    PROVE  \/ RebuildInstall \/ \E c \in Clients : Installs(c)
           \/ Played(proc', proc, Asked(audio'.posts)) /\ error' = error
<1>1. TypeOK /\ ClientInv /\ proc \in ViewType
  BY DEF FilterInv, TypeOK
<1>2. proc' \in ViewType
  BY <1>1, ProcStep
<1> DEFINE asked == Asked(audio'.posts)
<1> HIDE DEF asked
<1>3. ASSUME proc' = proc PROVE Played(proc', proc, asked)
  BY <1>1, <1>3, RestsPair DEF SameRun, SamePair
<1>4. CASE AudioProcess
  <2>1. error' = error
    BY <1>4, Zenon DEF AudioProcess
  <2>2. QED
    BY <1>1, <1>4, <2>1, AudioPair
<1>5. CASE WorkerRetry
  <2>1. error' = error
    BY <1>5 DEF WorkerRetry
  <2>2. CASE Overloaded
    <3>1. proc' = ResumeAfterOverload(proc)
      BY <1>5, <2>2 DEF WorkerRetry
    <3>2. ~Broken(proc)
      BY <2>2, ReasonsAre DEF Overloaded, Broken
    <3>3. Played(proc', proc, asked)
      BY <1>1, <1>2, <3>1, <3>2, LeavesPair, ResetsView, RestsPair
    <3>4. QED
      BY <2>1, <3>3 DEF asked
  <2>3. CASE ~Overloaded
    <3>1. proc' = proc
      BY <1>5, <2>3 DEF WorkerRetry
    <3>2. QED
      BY <1>3, <2>1, <3>1 DEF asked
  <2>4. QED
    BY <2>2, <2>3
<1>6. CASE \/ Elsewhere \/ AudioArrives \/ AudioPost \/ WorkerWake
           \/ RebuildRead \/ StatusRead \/ StatusShow \/ DeadlinePasses
           \/ Destroy \/ \E c \in Clients : ResetClear(c) \/ Notify(c)
  <2>1. proc' = proc /\ error' = error
    BY <1>6, Zenon DEF Elsewhere, AudioArrives, AudioPost, WorkerWake,
       RebuildRead, StatusRead, StatusShow, DeadlinePasses, Destroy,
       ResetClear, Notify
  <2>2. QED
    BY <1>3, <2>1 DEF asked
<1>7. QED
  BY <1>4, <1>5, <1>6, StepKinds, Zenon
     DEF ByAudio, ByWorker, ByClient, Installs

-----------------------------------------------------------------------------
\* A pair is asked for, or the worker is about to look.
Wanted  == request.refresh \/ Asked(audio.posts)
Pending == Wanted \/ worker.pc = "rebuild"

\* The worker changes in its own steps.
LEMMA WorkerMoves ==
    ASSUME [Next]_vars
    PROVE  worker' = worker \/ ByWorker
<1>1. CASE \/ Elsewhere \/ ByAudio \/ DeadlinePasses \/ Destroy
           \/ \E c \in Clients : ByClient(c)
  BY <1>1, Zenon DEF Elsewhere, ByAudio, AudioArrives, AudioProcess,
     AudioPost, DeadlinePasses, Destroy, ByClient, UpdateInstall,
     ResetInstall, ResetClear, BoundaryInstall, Notify
<1>2. QED
  BY <1>1, StepKinds

\* What was asked for stays asked for until the worker wakes for it.
LEMMA WantedStep ==
    ASSUME TypeOK, PostsInv, [Next]_vars
    PROVE  WorkerWake \/ (Wanted => Wanted')
<1>1. request \in RequestType /\ request.refresh \in BOOLEAN
  BY RequestFields DEF TypeOK
<1>2. ASSUME audio'.posts = audio.posts, request'.refresh = request.refresh
      PROVE  Wanted => Wanted'
  BY <1>2 DEF Wanted
<1>3. CASE AudioPost
  <2> DEFINE h == Head(audio.posts)
  <2>1. PICK p \in PostType :
          \/ audio.posts = <<p>> /\ audio'.posts = <<>>
          \/ \E q \in PostType : /\ audio.posts = <<p, q>>
                                 /\ audio'.posts = <<q>>
    BY <1>3, PostStep
  <2>2. h = p
    BY <2>1
  <2> HIDE DEF h
  <2>3. request'.refresh = (request.refresh \/ p.refresh)
    <3>1. request' = [request EXCEPT
             !.refresh  = @ \/ h.refresh,
             !.news     = @ \/ h.event \notin Slots,
             !.slots    = @ \cup ({h.event} \cap Slots),
             !.deadline = IF h.delay > 0 THEN h.delay ELSE @,
             !.due      = @ /\ h.delay = 0]
      BY <1>3 DEF AudioPost, h
    <3>2. request'.refresh = (request.refresh \/ h.refresh)
      BY <1>1, <3>1, Zenon DEF RequestType
    <3>3. QED
      BY <2>2, <3>2
  <2>4. CASE audio.posts = <<p>>
    <3>1. Asked(audio.posts) <=> p.refresh
      BY <2>4, AskedOf
    <3>2. QED
      BY <2>3, <3>1 DEF Wanted
  <2>5. ASSUME NEW q \in PostType, audio.posts = <<p, q>>, audio'.posts = <<q>>
        PROVE  Wanted => Wanted'
    <3>1. /\ Asked(audio.posts) <=> p.refresh \/ q.refresh
          /\ Asked(audio'.posts) <=> q.refresh
      BY <2>5, AskedOf
    <3>2. QED
      BY <2>3, <3>1 DEF Wanted
  <2>6. QED
    BY <2>1, <2>4, <2>5
<1>4. CASE AudioProcess
  <2>1. audio.posts = <<>> /\ request' = request
    BY <1>4, Locked
  <2>2. ~Asked(audio.posts)
    BY <2>1, AskedOf
  <2>3. QED
    BY <2>1, <2>2 DEF Wanted
<1>5. CASE AudioArrives
  <2>1. /\ audio' = [audio EXCEPT !.pc = "lock", !.format = obs]
        /\ audio \in AudioType /\ request' = request
    BY <1>5 DEF AudioArrives, TypeOK
  <2>2. audio'.posts = audio.posts
    BY <2>1, SMT DEF AudioType
  <2>3. QED
    BY <1>2, <2>1, <2>2
<1>6. CASE DeadlinePasses
  <2>1. request' = [request EXCEPT !.due = TRUE] /\ audio' = audio
    BY <1>6 DEF DeadlinePasses
  <2>2. request'.refresh = request.refresh
    BY <1>1, <2>1, Zenon DEF RequestType
  <2>3. QED
    BY <1>2, <2>1, <2>2
<1>7. CASE Destroy
  <2>1. request' = [request EXCEPT !.stop = TRUE] /\ audio' = audio
    BY <1>7 DEF Destroy
  <2>2. request'.refresh = request.refresh
    BY <1>1, <2>1, Zenon DEF RequestType
  <2>3. QED
    BY <1>2, <2>1, <2>2
<1>8. ASSUME NEW c \in Clients, Notify(c) PROVE Wanted => Wanted'
  <2>1. request' = [request EXCEPT !.news = TRUE] /\ audio' = audio
    BY <1>8 DEF Notify
  <2>2. request'.refresh = request.refresh
    BY <1>1, <2>1, Zenon DEF RequestType
  <2>3. QED
    BY <1>2, <2>1, <2>2
<1>9. ASSUME NEW c \in Clients, ResetClear(c) PROVE Wanted => Wanted'
  <2>1. /\ request' = [request EXCEPT !.deadline = 0, !.due = FALSE]
        /\ audio' = audio
    BY <1>9 DEF ResetClear
  <2>2. request'.refresh = request.refresh
    BY <1>1, <2>1, Zenon DEF RequestType
  <2>3. QED
    BY <1>2, <2>1, <2>2
<1>10. CASE \/ Elsewhere \/ RebuildRead \/ RebuildInstall \/ WorkerRetry
            \/ StatusRead \/ StatusShow \/ \E c \in Clients : Installs(c)
  <2>1. request' = request /\ audio' = audio
    BY <1>10, Zenon DEF Elsewhere, RebuildRead, RebuildInstall, WorkerRetry,
       StatusRead, StatusShow, Installs, UpdateInstall, ResetInstall,
       BoundaryInstall
  <2>2. QED
    BY <1>2, <2>1
<1>11. QED
  BY <1>3, <1>4, <1>5, <1>6, <1>7, <1>8, <1>9, <1>10, StepKinds, Zenon
     DEF ByAudio, ByWorker, ByClient, Installs

\* What is pending stays pending until the worker looks.
LEMMA PendingStep ==
    ASSUME TypeOK, PostsInv, [Next]_vars
    PROVE  RebuildRead \/ (Pending => Pending')
<1>1. CASE WorkerWake
  <2>1. worker.pc = "waiting" /\ audio' = audio
    BY <1>1 DEF WorkerWake
  <2>2. CASE request.stop
    <3>1. request' = request
      BY <1>1, <2>2 DEF WorkerWake
    <3>2. QED
      BY <2>1, <3>1 DEF Pending, Wanted
  <2>3. CASE ~request.stop /\ request.refresh
    <3>1. worker' = [NoWork EXCEPT !.pc = "rebuild", !.retry = Expired]
      BY <1>1, <2>3 DEF WorkerWake
    <3>2. worker'.pc = "rebuild"
      BY <3>1 DEF NoWork
    <3>3. QED
      BY <3>2 DEF Pending
  <2>4. CASE ~request.refresh
    BY <2>1, <2>4 DEF Pending, Wanted
  <2>5. QED
    BY <2>2, <2>3, <2>4
<1>2. CASE ~WorkerWake
  <2>1. Wanted => Wanted'
    BY <1>2, WantedStep
  <2>2. worker.pc = "rebuild" => worker' = worker \/ RebuildRead
    BY <1>2, WorkerMoves DEF ByWorker, RebuildInstall, WorkerRetry,
       StatusRead, StatusShow
  <2>3. QED
    BY <2>1, <2>2 DEF Pending
<1>3. QED
  BY <1>1, <1>2

-----------------------------------------------------------------------------
(***************************************************************************)
(* What a call has read, and what that still says when it installs.        *)
(***************************************************************************)
HasRead == {"prepare", "fallback", "install", "resetInstall",
            "boundaryInstall"}

\* No model was replaced since; where the format has changed the pair is
\* invalid or none.
InHand(k, v) ==
    k.pc \in HasRead =>
      /\ v.model = k.old.model
      /\ Loaded(v) /\ v.format # k.old.format => ~v.valid \/ v.pair = NoPair

\* A pair that has gone stale since is pending.
SinceRead(k, v, pending) ==
    k.pc \in HasRead /\ Stale(v) /\ ~Broken(v) => k.old.stale \/ pending

\* Only a model that is new can be loaded without the pair it needs, and only
\* when preparing one failed; with the model that runs, a channel that is
\* switched has a pair prepared for it.
Considered(k) ==
    /\ k.pc = "fallback" => k.load = "unpaired"
    /\ k.pc \in {"fallback", "install"} =>
         /\ k.load = "unpaired" => /\ "prepare" \in Failures
                                   /\ k.path # k.old.model /\ k.path # NoModel
         /\ k.load = "loaded" /\ k.pair # "ready"
              => ~Resamples(k.format, k.path)
         /\ k.load \notin {"loaded", "unpaired"} /\ k.pair = "none"
            /\ Resamples(k.format, k.old.model)
              => ~k.switch

\* A pair that is kept for the model that runs serves it, or went stale since
\* and is pending.
Serves(k, v, pending) ==
    \/ ResamplerMatches(v, k.format, k.old.model)
    \/ ~v.valid /\ (pending \/ Broken(v))

Kept(k, v, pending) ==
    k.pc = "install" /\ PairChange(k) = "keep" =>
      /\ k.old.format = k.format
      /\ IF Resamples(k.format, k.old.model) THEN Serves(k, v, pending)
         ELSE ~k.old.stale

Hand(k, v, pending) == /\ InHand(k, v) /\ SinceRead(k, v, pending)
                       /\ Considered(k) /\ Kept(k, v, pending)

\* A thread that has read nothing yet has nothing in hand.
LEMMA NothingInHand ==
    ASSUME NEW k, k.pc \notin HasRead, NEW v, NEW pending
    PROVE  Hand(k, v, pending)
BY DEF Hand, InHand, SinceRead, Considered, Kept, HasRead

\* A thread that has just read has what there is.
LEMMA JustRead ==
    ASSUME NEW k, k.pc \in {"prepare", "resetInstall", "boundaryInstall"},
           NEW v, v.model = k.old.model, v.format = k.old.format,
           k.old.stale = Stale(v), NEW pending
    PROVE  Hand(k, v, pending)
<1>1. InHand(k, v)
  BY DEF InHand
<1>2. SinceRead(k, v, pending)
  BY DEF SinceRead
<1>3. Considered(k) /\ Kept(k, v, pending)
  BY DEF Considered, Kept
<1>4. QED
  BY <1>1, <1>2, <1>3 DEF Hand

\* What a callback does to the pair leaves what a thread has in hand, since
\* what it gives up is pending.
LEMMA HandPlays ==
    ASSUME NEW v \in ViewType, NEW w \in ViewType, NEW asked,
           Played(w, v, asked), NEW pending, NEW still,
           pending => still, asked => still,
           NEW k, k.old.model \in Paths, Hand(k, v, pending)
    PROVE  Hand(k, w, still)
<1>1. /\ w.model = v.model /\ w.pair = v.pair /\ (w.valid => v.valid)
      /\ Loaded(w) = Loaded(v)
      /\ Broken(v) => Broken(w)
  BY DEF Played, Wears, Loaded
<1>2. /\ v.valid \in BOOLEAN /\ w.valid \in BOOLEAN
  BY ViewFields
<1>3. InHand(k, w)
  <2>1. SUFFICES ASSUME k.pc \in HasRead
                 PROVE  /\ w.model = k.old.model
                        /\ Loaded(w) /\ w.format # k.old.format
                             => ~w.valid \/ w.pair = NoPair
    BY DEF InHand
  <2>2. /\ v.model = k.old.model
        /\ Loaded(v) /\ v.format # k.old.format
             => ~v.valid \/ v.pair = NoPair
    BY <2>1 DEF Hand, InHand
  <2>3. CASE w.format = v.format
    BY <1>1, <2>2, <2>3
  <2>4. CASE w.format # v.format
    BY <1>1, <2>2, <2>4 DEF Played
  <2>5. QED
    BY <2>3, <2>4
<1>4. SinceRead(k, w, still)
  <2>1. SUFFICES ASSUME k.pc \in HasRead, Stale(w), ~Broken(w)
                 PROVE  k.old.stale \/ still
    BY DEF SinceRead
  <2>2. Stale(v) \/ asked
    BY <2>1 DEF Played
  <2>3. Stale(v) => k.old.stale \/ pending
    BY <1>1, <2>1 DEF Hand, SinceRead
  <2>4. QED
    BY <2>2, <2>3
<1>5. Kept(k, w, still)
  <2>1. SUFFICES ASSUME k.pc = "install", PairChange(k) = "keep"
                 PROVE  /\ k.old.format = k.format
                        /\ IF Resamples(k.format, k.old.model)
                           THEN Serves(k, w, still) ELSE ~k.old.stale
    BY DEF Kept
  <2>2. /\ k.old.format = k.format
        /\ IF Resamples(k.format, k.old.model)
           THEN Serves(k, v, pending) ELSE ~k.old.stale
    BY <2>1 DEF Hand, Kept
  <2>3. ASSUME Resamples(k.format, k.old.model) PROVE Serves(k, w, still)
    <3>1. CASE ~v.valid /\ (pending \/ Broken(v))
      BY <1>1, <3>1 DEF Serves
    <3>2. CASE ResamplerMatches(v, k.format, k.old.model)
      <4>1. CASE w.valid
        BY <1>1, <3>2, <4>1 DEF Serves, ResamplerMatches
      <4>2. CASE ~w.valid
        <5>1. v.model = k.old.model
          BY <2>1 DEF Hand, InHand, HasRead
        <5>2. Loaded(w) /\ v.valid
          BY <1>1, <2>3, <3>2, <5>1
             DEF Resamples, Loaded, ResamplerMatches
        <5>3. Stale(w) /\ ~Stale(v)
          BY <4>2, <5>2 DEF Stale
        <5>4. asked \/ Broken(w)
          BY <5>3 DEF Played
        <5>5. QED
          BY <4>2, <5>4 DEF Serves
      <4>3. QED
        BY <4>1, <4>2
    <3>3. QED
      BY <2>2, <2>3, <3>1, <3>2 DEF Serves
  <2>4. QED
    BY <2>2, <2>3
<1>6. QED
  BY <1>3, <1>4, <1>5 DEF Hand

\* An update that has prepared has considered what it needs to.
LEMMA PrepareHand ==
    ASSUME TypeOK, NEW c \in Clients, UpdatePrepare(c), NEW pending,
           Hand(client[c], proc, pending)
    PROVE  Hand(client'[c], proc, pending)
<1> DEFINE k == client[c]
<1>1. PICK loads \in MaySucceed("load"), prepared \in MaySucceed("prepare") :
         LET got    == WantsLoad(k) /\ k.path # NoModel /\ loads
             target == IF got THEN k.path ELSE k.old.model
             fresh  == /\ Resamples(k.format, target)
                       /\ \/ got \/ k.switch \/ FormatBoundary(k)
                          \/ ~ResamplerMatches(proc, k.format, target)
             failed == fresh /\ ~prepared
         IN client' = [client EXCEPT
              ![c].load = IF got THEN IF failed THEN "unpaired" ELSE "loaded"
                          ELSE IF WantsLoad(k) THEN "rejected" ELSE "none",
              ![c].pair = IF failed THEN "failed"
                          ELSE IF fresh THEN "ready" ELSE "none",
              ![c].fallback = "none",
              ![c].pc = IF got /\ failed /\ OldNeedsResamplers(k)
                        THEN "fallback" ELSE "install"]
  BY Zenon DEF UpdatePrepare
<1> DEFINE got    == WantsLoad(k) /\ k.path # NoModel /\ loads
           target == IF got THEN k.path ELSE k.old.model
           fresh  == /\ Resamples(k.format, target)
                     /\ \/ got \/ k.switch \/ FormatBoundary(k)
                        \/ ~ResamplerMatches(proc, k.format, target)
           failed == fresh /\ ~prepared
           load == IF got THEN IF failed THEN "unpaired" ELSE "loaded"
                   ELSE IF WantsLoad(k) THEN "rejected" ELSE "none"
           pair == IF failed THEN "failed"
                   ELSE IF fresh THEN "ready" ELSE "none"
           pc == IF got /\ failed /\ OldNeedsResamplers(k)
                 THEN "fallback" ELSE "install"
           e == [k EXCEPT !.load = load, !.pair = pair, !.fallback = "none",
                          !.pc = pc]
<1>2. client' = [client EXCEPT ![c].load = load, ![c].pair = pair,
                               ![c].fallback = "none", ![c].pc = pc]
  BY <1>1, Zenon
<1>3. /\ k \in ClientType /\ k.pc = "prepare"
      /\ client \in [Clients -> ClientType]
  BY DEF TypeOK, UpdatePrepare
<1>4. failed => "prepare" \in Failures
  BY <1>1 DEF MaySucceed
<1>5. got => k.path # k.old.model /\ k.path # NoModel
  BY DEF WantsLoad
<1>6. /\ load \in {"loaded", "unpaired", "rejected", "none"}
      /\ pair \in {"ready", "failed", "none"} /\ pc \in {"fallback", "install"}
      /\ pc = "fallback" => load = "unpaired" /\ OldNeedsResamplers(k)
      /\ load \in {"loaded", "unpaired"} <=> got
      /\ load = "unpaired" => failed
      /\ load = "unpaired" /\ pc = "install" => ~OldNeedsResamplers(k)
      /\ load = "loaded" /\ pair # "ready" => ~Resamples(k.format, k.path)
      /\ ~got /\ pair = "none" => ~fresh
      /\ failed => pair = "failed"
  OBVIOUS
<1>7. ~got /\ ~fresh /\ Resamples(k.format, k.old.model) =>
        /\ ~k.switch /\ ~FormatBoundary(k)
        /\ ResamplerMatches(proc, k.format, k.old.model)
  OBVIOUS
<1> HIDE DEF k, got, target, fresh, failed, load, pair, pc
<1>8. client'[c] = e
  BY <1>2, <1>3, Zenon DEF k
<1>9. /\ e.load = load /\ e.pair = pair /\ e.fallback = "none" /\ e.pc = pc
      /\ e.format = k.format /\ e.path = k.path /\ e.old = k.old
      /\ e.switch = k.switch
  BY <1>3, SMT DEF ClientType
<1> HIDE DEF e
<1>10. InHand(e, proc) /\ SinceRead(e, proc, pending)
  <2>1. InHand(k, proc) /\ SinceRead(k, proc, pending)
    BY DEF Hand, k
  <2>2. QED
    BY <1>3, <1>6, <1>9, <2>1 DEF InHand, SinceRead, HasRead
<1>11. Considered(e)
  <2>1. e.pc = "fallback" => e.load = "unpaired"
    BY <1>6, <1>9
  <2>2. e.load = "unpaired" => /\ "prepare" \in Failures
                               /\ e.path # e.old.model /\ e.path # NoModel
    BY <1>4, <1>5, <1>6, <1>9
  <2>3. e.load = "loaded" /\ e.pair # "ready" => ~Resamples(e.format, e.path)
    BY <1>6, <1>9
  <2>4. e.load \notin {"loaded", "unpaired"} /\ e.pair = "none"
        /\ Resamples(e.format, e.old.model)
          => ~e.switch
    BY <1>6, <1>7, <1>9
  <2>5. QED
    BY <2>1, <2>2, <2>3, <2>4, Zenon DEF Considered
<1>12. Kept(e, proc, pending)
  <2>1. SUFFICES ASSUME e.pc = "install", PairChange(e) = "keep"
                 PROVE  /\ e.old.format = e.format
                        /\ IF Resamples(e.format, e.old.model)
                           THEN Serves(e, proc, pending) ELSE ~e.old.stale
    BY DEF Kept
  <2>2. /\ OldNeedsResamplers(e) = Resamples(k.format, k.old.model)
        /\ OldNeedsResamplers(k) = Resamples(k.format, k.old.model)
    BY <1>9 DEF OldNeedsResamplers
  <2>3. e.load # "loaded"
    BY <2>1 DEF PairChange
  <2>4. CASE e.load = "unpaired"
    <3>1. ~OldNeedsResamplers(e)
      BY <1>6, <1>9, <2>1, <2>2, <2>4
    <3>2. ~DropsOld(e)
      BY <2>1, <2>4, <3>1 DEF PairChange
    <3>3. QED
      BY <2>2, <3>1, <3>2, <1>9 DEF DropsOld, FormatBoundary
  <2>5. CASE e.load # "unpaired"
    <3>1. ~got /\ TargetModel(e) = k.old.model
      BY <1>6, <1>9, <2>3, <2>5 DEF TargetModel
    <3>2. e.pair = "none"
      BY <1>6, <1>9, <2>1, <2>3, <2>5 DEF PairChange
    <3>3. CASE Resamples(k.format, k.old.model)
      <4>1. ~FormatBoundary(k) /\ ResamplerMatches(proc, k.format, k.old.model)
        BY <1>6, <1>7, <1>9, <3>1, <3>2, <3>3
      <4>2. QED
        BY <1>9, <3>3, <4>1 DEF Serves, FormatBoundary
    <3>4. CASE ~Resamples(k.format, k.old.model)
      <4>1. ~DropsOld(e)
        BY <1>9, <2>1, <2>3, <2>5, <3>1, <3>2, <3>4 DEF PairChange
      <4>2. QED
        BY <1>9, <3>4, <4>1 DEF DropsOld, FormatBoundary
    <3>5. QED
      BY <3>3, <3>4
  <2>6. QED
    BY <2>4, <2>5
<1>13. QED
  BY <1>8, <1>10, <1>11, <1>12 DEF Hand

\* So has one that has looked at a fallback.
LEMMA FallbackHand ==
    ASSUME TypeOK, NEW c \in Clients, UpdateFallback(c), NEW pending,
           PairWanted(client[c]), Hand(client[c], proc, pending)
    PROVE  Hand(client'[c], proc, pending)
<1> DEFINE k == client[c]
<1>1. PICK prepared \in MaySucceed("prepare") :
         LET needed == \/ FormatBoundary(k)
                       \/ ~ResamplerMatches(proc, k.format, k.old.model)
         IN client' = [client EXCEPT
              ![c].pc = "install",
              ![c].fallback = IF ~needed THEN "none"
                              ELSE IF prepared THEN "ready" ELSE "failed"]
  BY Zenon DEF UpdateFallback
<1> DEFINE needed == \/ FormatBoundary(k)
                     \/ ~ResamplerMatches(proc, k.format, k.old.model)
           fallback == IF ~needed THEN "none"
                       ELSE IF prepared THEN "ready" ELSE "failed"
           e == [k EXCEPT !.pc = "install", !.fallback = fallback]
<1>2. client' = [client EXCEPT ![c].pc = "install", ![c].fallback = fallback]
  BY <1>1, Zenon
<1>3. /\ k \in ClientType /\ k.pc = "fallback" /\ OldNeedsResamplers(k)
      /\ client \in [Clients -> ClientType] /\ k.load = "unpaired"
  BY DEF TypeOK, UpdateFallback, PairWanted, Hand, Considered
<1>4. /\ fallback \in {"none", "ready", "failed"}
      /\ fallback = "none" =>
           /\ ~FormatBoundary(k)
           /\ ResamplerMatches(proc, k.format, k.old.model)
  OBVIOUS
<1> HIDE DEF fallback, k
<1>5. client'[c] = e
  BY <1>2, <1>3, Zenon DEF k
<1>6. /\ e.pc = "install" /\ e.load = k.load /\ e.pair = k.pair
      /\ e.format = k.format /\ e.path = k.path /\ e.old = k.old
      /\ e.switch = k.switch /\ e.fallback = fallback
  BY <1>3, SMT DEF ClientType
<1> HIDE DEF e
<1>7. InHand(e, proc) /\ SinceRead(e, proc, pending) /\ Considered(e)
  <2>1. InHand(k, proc) /\ SinceRead(k, proc, pending) /\ Considered(k)
    BY DEF Hand, k
  <2>2. QED
    BY <1>3, <1>6, <2>1 DEF InHand, SinceRead, HasRead, Considered
<1>8. Kept(e, proc, pending)
  <2>1. SUFFICES ASSUME PairChange(e) = "keep"
                 PROVE  /\ e.old.format = e.format
                        /\ IF Resamples(e.format, e.old.model)
                           THEN Serves(e, proc, pending) ELSE ~e.old.stale
    BY DEF Kept
  <2>2. OldNeedsResamplers(e) /\ Resamples(e.format, e.old.model)
    BY <1>3, <1>6 DEF OldNeedsResamplers
  <2>3. fallback = "none"
    BY <1>3, <1>4, <1>6, <2>1, <2>2 DEF PairChange
  <2>4. QED
    BY <1>4, <1>6, <2>2, <2>3 DEF Serves, FormatBoundary
<1>9. QED
  BY <1>5, <1>7, <1>8 DEF Hand

\* Every call has in hand what it read.
HandInv == \A c \in Clients : Hand(client[c], proc, Pending)

\* The calls are changed by their own steps.
LEMMA ClientMovesOn ==
    ASSUME [Next]_vars
    PROVE  \/ client' = client
           \/ \E c \in Clients : ClientCall(c) \/ ClientStep(c)
<1>1. CASE \/ vars' = vars \/ AudioStep \/ WorkerStep \/ DeadlinePasses
           \/ ResetObsAudio \/ Destroy
  BY <1>1, Zenon DEF vars, AudioStep, AudioArrives, AudioProcess, AudioPost,
     WorkerStep, WorkerWake, RebuildRead, RebuildInstall, WorkerRetry,
     StatusRead, StatusShow, DeadlinePasses, ResetObsAudio, Destroy
<1>2. QED
  BY <1>1 DEF Next

\* A call moves to where it has read nothing, reads, or goes on with what it
\* has read.
LEMMA OwnMoves ==
    ASSUME TypeOK, NEW c \in Clients, ClientCall(c) \/ ClientStep(c)
    PROVE  \/ client'[c].pc \notin HasRead
           \/ /\ client'[c].pc \in {"prepare", "resetInstall", "boundaryInstall"}
              /\ client'[c].old = OldState /\ proc' = proc
           \/ UpdatePrepare(c) \/ UpdateFallback(c)
<1>1. client \in [Clients -> ClientType] /\ Away \in ClientType
  BY AwayType DEF TypeOK
<1>2. CASE ClientCall(c) \/ ResetClear(c) \/ Notify(c)
  <2>1. PICK pc \in {"update", "reset", "boundary", "notify", "idle"} :
          client' = [client EXCEPT ![c].pc = pc]
    BY <1>2, Zenon DEF ClientCall, CallUpdate, CallReset, CallDisable,
       CallEnable, ResetClear, Notify
  <2>2. client'[c].pc = pc
    BY <1>1, <2>1, Zenon DEF ClientType
  <2>3. QED
    BY <2>1, <2>2 DEF HasRead
<1>3. CASE BeginUpdate(c)
  <2>1. PICK path, switch :
          client' = [client EXCEPT ![c].pc = "read", ![c].format = obs,
                                   ![c].path = path, ![c].switch = switch]
    BY <1>3 DEF BeginUpdate
  <2>2. client'[c].pc = "read"
    BY <1>1, <2>1, Zenon DEF ClientType
  <2>3. QED
    BY <2>2 DEF HasRead
<1>4. CASE UpdateInstall(c) \/ ResetInstall(c) \/ BoundaryInstall(c)
  <2>1. PICK k \in {Away, [Away EXCEPT !.pc = "clear"],
                    [Away EXCEPT !.pc = "notify"]} :
          client' = [client EXCEPT ![c] = k]
    BY <1>4, Zenon DEF UpdateInstall, ResetInstall, BoundaryInstall
  <2>2. k.pc \in {"idle", "clear", "notify"}
    BY AwayType DEF TypeOK
  <2>3. client'[c] = k
    BY <1>1, <2>1, Zenon
  <2>4. QED
    BY <2>2, <2>3 DEF HasRead
<1>5. CASE UpdateRead(c) \/ ResetRead(c) \/ BoundaryRead(c)
  <2>1. PICK pc \in {"prepare", "resetInstall", "boundaryInstall"} :
          /\ client' = [client EXCEPT ![c].pc = pc, ![c].old = OldState]
          /\ proc' = proc
    BY <1>5, Zenon DEF UpdateRead, ResetRead, BoundaryRead, ReadForReset
  <2> DEFINE old == OldState
  <2>2. client' = [client EXCEPT ![c].pc = pc, ![c].old = old]
    BY <2>1
  <2> HIDE DEF old
  <2>3. client'[c].pc = pc /\ client'[c].old = old
    BY <1>1, <2>2, Zenon DEF ClientType
  <2>4. QED
    BY <2>1, <2>3 DEF old
<1>6. QED
  BY <1>2, <1>3, <1>4, <1>5, Zenon DEF ClientStep

\* What a call has in hand stays good: only the holder of update_mutex_
\* changes more than a callback does.
LEMMA HandStep ==
    ASSUME FilterInv, HandInv, [Next]_vars
    PROVE  HandInv'
<1>1. /\ TypeOK /\ ClientInv /\ PostsInv /\ LockInv /\ proc \in ViewType
      /\ client \in [Clients -> ClientType]
  BY DEF FilterInv, TypeOK
<1>2. LockInv' /\ TypeOK' /\ proc' \in ViewType
  BY FilterStep DEF FilterInv, TypeOK
<1>3. "free" \notin Clients
  BY FilterAssumption
<1>4. SUFFICES ASSUME NEW d \in Clients
               PROVE  Hand(client'[d], proc', Pending')
  BY DEF HandInv
<1>5. Hand(client[d], proc, Pending)
  BY DEF HandInv
<1>6. CASE client'[d].pc \notin HasRead
  BY <1>6, NothingInHand
<1>7. CASE client'[d] = client[d] /\ client'[d].pc \in HasRead
  <2>1. updateLock = d /\ updateLock' = d
    BY <1>1, <1>2, <1>7 DEF LockInv, Held, HasRead
  <2>2. ~RebuildInstall /\ ~RebuildRead /\ ~\E c \in Clients : Installs(c)
    BY <1>3, <2>1, Zenon DEF RebuildInstall, RebuildRead, Installs,
       UpdateInstall, ResetInstall, BoundaryInstall
  <2>3. Played(proc', proc, Asked(audio'.posts))
    BY <2>2, PlayStep
  <2>4. Pending => Pending'
    BY <1>1, <2>2, PendingStep
  <2>5. Asked(audio'.posts) => Pending'
    BY DEF Pending, Wanted
  <2>6. client[d].old.model \in Paths
    BY <1>1, ClientFields
  <2>7. Hand(client[d], proc', Pending')
    BY <1>1, <1>2, <1>5, <2>3, <2>4, <2>5, <2>6, HandPlays
  <2>8. QED
    BY <1>7, <2>7
<1>8. ASSUME NEW c \in Clients, ClientCall(c) \/ ClientStep(c)
      PROVE  Hand(client'[d], proc', Pending')
  <2>1. CASE d # c
    <3>1. client'[d] = client[d]
      BY <1>1, <1>8, <2>1, LockMoves
    <3>2. QED
      BY <1>6, <1>7, <3>1
  <2>2. CASE d = c
    <3>1. CASE /\ client'[c].pc \in {"prepare", "resetInstall",
                                     "boundaryInstall"}
               /\ client'[c].old = OldState /\ proc' = proc
      <4>1. /\ client'[c].old.model = proc'.model
            /\ client'[c].old.format = proc'.format
            /\ client'[c].old.stale = Stale(proc')
        <5>1. /\ OldState.model = proc.model /\ OldState.format = proc.format
              /\ OldState.stale = Stale(proc)
          BY Zenon DEF OldState
        <5>2. QED
          BY <3>1, <5>1
      <4>2. QED
        BY <2>2, <3>1, <4>1, JustRead
    <3>2. CASE UpdatePrepare(c)
      <4>1. UNCHANGED <<proc, request, audio, worker>>
        BY <3>2, Zenon DEF UpdatePrepare
      <4>2. Hand(client'[c], proc, Pending)
        BY <1>1, <1>5, <2>2, <3>2, PrepareHand
      <4>3. QED
        BY <2>2, <4>1, <4>2 DEF Pending, Wanted
    <3>3. CASE UpdateFallback(c)
      <4>1. UNCHANGED <<proc, request, audio, worker>>
        BY <3>3, Zenon DEF UpdateFallback
      <4>2. PairWanted(client[c])
        BY <1>1 DEF ClientInv
      <4>3. Hand(client'[c], proc, Pending)
        BY <1>1, <1>5, <2>2, <3>3, <4>2, FallbackHand
      <4>4. QED
        BY <2>2, <4>1, <4>3 DEF Pending, Wanted
    <3>4. QED
      BY <1>1, <1>6, <1>8, <2>2, <3>1, <3>2, <3>3, OwnMoves
  <2>3. QED
    BY <2>1, <2>2
<1>9. QED
  BY <1>6, <1>7, <1>8, ClientMovesOn

-----------------------------------------------------------------------------
(***************************************************************************)
(* What the installs put in.                                               *)
(***************************************************************************)
\* A pair that is put in is one that was prepared, valid and unused, or none.
PutIn(w, f, m) ==
    /\ w.valid
    /\ \/ w.pair = NoPair
       \/ w.pair = PairFor(f, m) /\ Resamples(f, m) /\ ~w.fed

\* It fits, and nothing has gone through it.
LEMMA PutInFits ==
    ASSUME NEW w, NEW f \in Formats, NEW m \in Paths, PutIn(w, f, m)
    PROVE  Fits(w) /\ (w.pair # NoPair => ~w.fed)
BY PreparedFits DEF PutIn, Fits

\* What an update puts in, for which model, and when.
LEMMA ChangeCases ==
    ASSUME NEW k \in ClientType, k.pc = "install", PairWanted(k)
    PROVE  /\ k.load = "loaded" => PairChange(k) \in {"fresh", "drop"}
           /\ PairChange(k) = "fresh" =>
                k.load # "unpaired" /\ Resamples(k.format, TargetModel(k))
           /\ PairChange(k) = "fallback" =>
                k.load = "unpaired" /\ Resamples(k.format, k.old.model)
           /\ PairChange(k) \in {"fresh", "fallback", "drop", "keep"}
<1>1. /\ k.load \in Loads /\ k.pair \in Attempts /\ k.fallback \in Attempts
  BY ClientFields
<1>2. /\ k.load = "loaded" => PairChange(k) \in {"fresh", "drop"}
      /\ PairChange(k) = "fresh" => k.load # "unpaired" /\ k.pair = "ready"
      /\ PairChange(k) = "fallback" =>
           k.load = "unpaired" /\ k.fallback = "ready"
      /\ PairChange(k) \in {"fresh", "fallback", "drop", "keep"}
  BY <1>1, SMT DEF PairChange, Attempts, Loads
<1>3. QED
  BY <1>2 DEF PairWanted, OldNeedsResamplers

\* What an update leaves.
LEMMA UpdatePair ==
    ASSUME TypeOK, ClientInv, NEW c \in Clients, UpdateInstall(c)
    PROVE  LET k == client[c]
               v == SetFormat(proc, k.format)
           IN /\ proc'.format = k.format
              /\ proc'.model = IF k.load = "loaded" THEN k.path ELSE proc.model
              /\ k.load # "loaded" => proc'.reason = proc.reason
              /\ PairChange(k) = "keep" =>
                   /\ SamePair(proc', v)
                   /\ ~k.switch => proc' = v
              /\ PairChange(k) # "keep" =>
                   /\ proc'.valid
                   /\ proc'.pair =
                        IF PairChange(k) = "fresh"
                        THEN PairFor(k.format, TargetModel(k))
                        ELSE IF PairChange(k) = "fallback"
                        THEN PairFor(k.format, k.old.model)
                        ELSE NoPair
                   /\ proc'.pair # NoPair => ~proc'.fed
<1> DEFINE k       == client[c]
           settled == SetFormat(proc, k.format)
           modeled == IF k.load = "loaded" THEN ReplaceModel(settled, k.path)
                      ELSE settled
           paired  == WithPairChange(k, modeled)
           change  == PairChange(k)
           p == IF change = "fresh" THEN PairFor(k.format, TargetModel(k))
                ELSE IF change = "fallback"
                THEN PairFor(k.format, k.old.model)
                ELSE NoPair
<1>1. k \in ClientType /\ k.pc = "install" /\ PairWanted(k)
  BY DEF TypeOK, UpdateInstall, ClientInv
<1>2. proc' = IF k.switch THEN ResetStream(paired) ELSE paired
  BY DEF UpdateInstall
<1> HIDE DEF k
<1>3. /\ k.format \in Formats /\ k.path \in Paths
      /\ k.old.model \in Paths /\ TargetModel(k) \in Paths
  BY <1>1, ClientFields
<1>4. /\ settled \in ViewType /\ settled.reason = proc.reason
      /\ settled.format = k.format /\ settled.model = proc.model
  BY <1>3, SetFormatView DEF TypeOK
<1> HIDE DEF settled
<1>5. /\ modeled \in ViewType /\ SamePair(modeled, settled)
      /\ modeled.format = k.format
      /\ modeled.model = IF k.load = "loaded" THEN k.path ELSE proc.model
      /\ k.load # "loaded" => modeled = settled
  BY <1>3, <1>4, ReplaceModelView, LeavesPair DEF SamePair
<1>6. /\ k.load = "loaded" => change # "keep"
      /\ change = "fresh" => Resamples(k.format, TargetModel(k))
      /\ change = "fallback" => Resamples(k.format, k.old.model)
  BY <1>1, ChangeCases
<1>7. p \in Pairs
  BY <1>3, <1>6, NeededPair, NoPairType
<1>8. IF change = "keep" THEN paired = modeled
      ELSE paired = ReplaceResamplers(modeled, p)
  BY DEF WithPairChange
<1> HIDE DEF modeled, p
<1>9. /\ paired \in ViewType /\ SameRun(paired, modeled)
      /\ paired.reason = modeled.reason
  BY <1>1, <1>5, PairChangeView
<1>10. change # "keep" =>
         paired.valid /\ paired.pair = p /\ (p # NoPair => ~paired.fed)
  BY <1>5, <1>7, <1>8, ReplacedPair
<1> HIDE DEF paired
<1>11. /\ SamePair(proc', paired) /\ SameRun(proc', paired)
       /\ proc'.reason = paired.reason
       /\ ~k.switch => proc' = paired
  BY <1>2, <1>9, LeavesPair, ResetsView DEF SamePair, SameRun
<1>12. /\ proc'.format = k.format
       /\ proc'.model = IF k.load = "loaded" THEN k.path ELSE proc.model
       /\ k.load # "loaded" => proc'.reason = proc.reason
  BY <1>4, <1>5, <1>9, <1>11 DEF SameRun
<1>13. change = "keep" => /\ SamePair(proc', settled)
                          /\ ~k.switch => proc' = settled
  BY <1>5, <1>6, <1>8, <1>11 DEF SamePair
<1>14. change # "keep" => /\ proc'.valid /\ proc'.pair = p
                          /\ proc'.pair # NoPair => ~proc'.fed
  BY <1>10, <1>11 DEF SamePair
<1>15. QED
  BY <1>12, <1>13, <1>14 DEF k, settled, p

\* What a reset or a stream boundary installs: a new pair, or what was there.
LEMMA FreshPair ==
    ASSUME NEW old \in OldType, NEW prepared \in BOOLEAN, proc \in ViewType
    PROVE  LET w == FreshInstalled(old, prepared)
           IN /\ Resamples(old.format, old.model)
                   => PutIn(w, old.format, old.model)
              /\ ~Resamples(old.format, old.model)
                   => w = proc \/ w.pair = NoPair
<1>1. old.format \in Formats /\ old.model \in Paths
  BY DEF OldType
<1> DEFINE p == IF prepared THEN PairFor(old.format, old.model) ELSE NoPair
           w == FreshInstalled(old, prepared)
<1>2. CASE Resamples(old.format, old.model)
  <2>1. p \in Pairs
    BY <1>1, <1>2, NeededPair, NoPairType
  <2>2. w = ReplaceResamplers(proc, p)
    BY <1>2 DEF FreshInstalled
  <2>3. p = PairFor(old.format, old.model) \/ p = NoPair
    OBVIOUS
  <2> HIDE DEF p, w
  <2>4. w.pair = p /\ w.valid /\ (p # NoPair => ~w.fed)
    BY <2>1, <2>2, ReplacedPair
  <2>5. PutIn(w, old.format, old.model)
    BY <1>2, <2>3, <2>4 DEF PutIn
  <2>6. QED
    BY <1>2, <2>5 DEF w
<1>3. CASE ~Resamples(old.format, old.model)
  <2>1. w = proc \/ w = ReleaseInvalidResamplers(proc)
    BY <1>3 DEF FreshInstalled
  <2>2. w = proc \/ w.pair = NoPair
    BY <2>1, ReleasedPair
  <2>3. QED
    BY <1>3, <2>2
<1>4. QED
  BY <1>2, <1>3

\* And what they leave.
LEMMA ResetPair ==
    ASSUME TypeOK, NEW c \in Clients, ResetInstall(c) \/ BoundaryInstall(c)
    PROVE  LET old == client[c].old
           IN /\ SameRun(proc', proc)
              /\ Resamples(old.format, old.model)
                   => PutIn(proc', old.format, old.model)
              /\ ~Resamples(old.format, old.model)
                   => SamePair(proc', proc) \/ proc'.pair = NoPair
<1> DEFINE old == client[c].old
<1>1. PICK prepared \in BOOLEAN :
        \/ proc' = ResetState(FreshInstalled(old, prepared))
        \/ proc' = ResetStream(FreshInstalled(old, prepared))
  BY DEF ResetInstall, BoundaryInstall, MaySucceed
<1>2. old \in OldType /\ proc \in ViewType
  BY ClientFields DEF TypeOK, OldType
<1> DEFINE w == FreshInstalled(old, prepared)
<1> HIDE DEF old
<1>3. w \in ViewType /\ SameRun(w, proc)
  BY <1>2, FreshView DEF OldType
<1>4. /\ Resamples(old.format, old.model) => PutIn(w, old.format, old.model)
      /\ ~Resamples(old.format, old.model) => w = proc \/ w.pair = NoPair
  BY <1>2, FreshPair
<1> HIDE DEF w
<1>5. SamePair(proc', w) /\ SameRun(proc', w)
  BY <1>1, <1>3, LeavesPair, ResetsView DEF w
<1>6. QED
  BY <1>3, <1>4, <1>5 DEF old, SamePair, SameRun, PutIn

\* What the worker leaves when it installs.
LEMMA RebuildPair ==
    ASSUME TypeOK, RebuildInstall
    PROVE  /\ SameRun(proc', proc)
           /\ \/ SamePair(proc', proc) /\ proc'.used = proc.used
              \/ PutIn(proc', worker.format, worker.model)
<1> DEFINE needed == Resamples(worker.format, worker.model)
           pair   == PairFor(worker.format, worker.model)
<1>1. proc \in ViewType /\ worker.format \in Formats /\ worker.model \in Paths
  BY DEF TypeOK, WorkerType
<1>2. \/ proc' = proc
      \/ needed /\ proc' = ReplaceResamplers(proc, pair)
      \/ proc' = ReleaseInvalidResamplers(proc)
  BY DEF RebuildInstall
<1>3. CASE proc' = proc
  BY <1>3 DEF SameRun, SamePair
<1>4. CASE needed /\ proc' = ReplaceResamplers(proc, pair)
  <2>1. pair \in Pairs /\ pair # NoPair
    BY <1>1, <1>4, NeededPair, PreparedFits
  <2> HIDE DEF pair
  <2>2. /\ proc'.pair = pair /\ proc'.valid /\ ~proc'.fed
        /\ SameRun(proc', proc)
    BY <1>1, <1>4, <2>1, ReplacedPair, ReplaceResamplersView
  <2>3. QED
    BY <1>4, <2>2 DEF PutIn, pair
<1>5. CASE proc' = ReleaseInvalidResamplers(proc)
  <2>1. \/ proc' = proc
        \/ proc'.pair = NoPair /\ proc'.valid
    BY <1>1, <1>5, ReleasedPair
  <2>2. SameRun(proc', proc)
    BY <1>1, <1>5, ReleaseView
  <2>3. QED
    BY <2>1, <2>2 DEF SamePair, PutIn
<1>6. QED
  BY <1>2, <1>3, <1>4, <1>5

\* No step leaves the processor a pair between two equal rates.
LEMMA FitsStep ==
    ASSUME FilterInv, Fits(proc), [Next]_vars
    PROVE  Fits(proc')
<1>1. /\ TypeOK /\ ClientInv /\ proc \in ViewType
      /\ worker.format \in Formats /\ worker.model \in Paths
  BY DEF FilterInv, TypeOK, WorkerType
<1>2. ASSUME proc'.pair = proc.pair PROVE Fits(proc')
  BY <1>2 DEF Fits
<1>3. CASE RebuildInstall
  BY <1>1, <1>2, <1>3, RebuildPair, PutInFits DEF SamePair
<1>4. ASSUME NEW c \in Clients, UpdateInstall(c) PROVE Fits(proc')
  <2> DEFINE k == client[c]
  <2>1. k \in ClientType /\ k.pc = "install" /\ PairWanted(k)
    BY <1>1, <1>4 DEF TypeOK, UpdateInstall, ClientInv
  <2>2. k.format \in Formats /\ k.old.model \in Paths /\ TargetModel(k) \in Paths
    BY <2>1, ClientFields
  <2>3. CASE PairChange(k) = "keep"
    <3>1. proc'.pair = SetFormat(proc, k.format).pair
      BY <1>1, <1>4, <2>3, UpdatePair DEF SamePair
    <3>2. QED
      BY <1>1, <1>2, <2>2, <3>1, SetFormatPair
  <2>4. CASE PairChange(k) # "keep"
    <3>1. proc'.pair = IF PairChange(k) = "fresh"
                       THEN PairFor(k.format, TargetModel(k))
                       ELSE IF PairChange(k) = "fallback"
                       THEN PairFor(k.format, k.old.model)
                       ELSE NoPair
      BY <1>1, <1>4, <2>4, UpdatePair
    <3>2. /\ PairChange(k) = "fresh" => Resamples(k.format, TargetModel(k))
          /\ PairChange(k) = "fallback" => Resamples(k.format, k.old.model)
      BY <2>1, ChangeCases
    <3> HIDE DEF k
    <3>3. QED
      BY <2>2, <3>1, <3>2, PreparedFits DEF Fits
  <2>5. QED
    BY <2>3, <2>4
<1>5. ASSUME NEW c \in Clients, ResetInstall(c) \/ BoundaryInstall(c)
      PROVE  Fits(proc')
  <2>1. client[c].old.format \in Formats /\ client[c].old.model \in Paths
    BY <1>1, ClientFields DEF TypeOK
  <2>2. \/ PutIn(proc', client[c].old.format, client[c].old.model)
        \/ SamePair(proc', proc) \/ proc'.pair = NoPair
    BY <1>1, <1>5, ResetPair
  <2>3. QED
    BY <1>2, <2>1, <2>2, PutInFits DEF Fits, SamePair
<1>6. CASE Played(proc', proc, Asked(audio'.posts))
  BY <1>2, <1>6 DEF Played, Wears
<1>7. QED
  BY <1>3, <1>4, <1>5, <1>6, PlayStep DEF Installs

\* What the calls have in hand stays good, and the pair between two rates.
LEMMA HandsInvariant == Spec => [](HandInv /\ Fits(proc))
<1>1. Init => HandInv /\ Fits(proc)
  <2>1. SUFFICES ASSUME Init PROVE HandInv /\ Fits(proc)
    OBVIOUS
  <2>2. obs \in Formats /\ client = [c \in Clients |-> Away]
        /\ proc = FirstView(obs)
    BY <2>1 DEF Init
  <2>3. \A c \in Clients : client[c].pc \notin HasRead
    BY <2>2, AwayType DEF HasRead
  <2>4. HandInv
    BY <2>3, NothingInHand DEF HandInv
  <2>5. Fits(proc)
    BY <2>2 DEF FirstView, Fits
  <2>6. QED
    BY <2>4, <2>5
<1>2. FilterInv /\ (HandInv /\ Fits(proc)) /\ [Next]_vars
        => (HandInv /\ Fits(proc))'
  BY HandStep, FitsStep
<1>3. QED
  BY <1>1, <1>2, FilterInvariant, PTL DEF Spec

\* A stream never starts through a pair that still holds something: a pair
\* that is kept over a switched channel would, and only an update whose new
\* model gets no pair keeps one there.
LEMMA PrefillStep ==
    ASSUME FilterInv, HandInv, Fits(proc), PairMatchesPrefill, [Next]_vars,
           "prepare" \notin Failures \/ \A m, n \in Models : m = n
    PROVE  PairMatchesPrefill'
<1>1. /\ TypeOK /\ ClientInv /\ proc \in ViewType
      /\ worker.format \in Formats /\ worker.model \in Paths
  BY DEF FilterInv, TypeOK, WorkerType
<1>2. proc' \in ViewType /\ Fits(proc')
  BY FilterStep, FitsStep DEF FilterInv, TypeOK
<1>3. ASSUME Wears(proc', proc) PROVE PairMatchesPrefill'
  BY <1>3 DEF Wears, PairMatchesPrefill
<1>4. ASSUME proc'.pair # NoPair => ~proc'.fed PROVE PairMatchesPrefill'
  BY <1>2, <1>4, PathHasPair DEF PairMatchesPrefill
<1>5. CASE Played(proc', proc, Asked(audio'.posts))
  BY <1>3, <1>5 DEF Played
<1>6. CASE RebuildInstall
  <2>1. CASE PutIn(proc', worker.format, worker.model)
    BY <1>1, <1>4, <2>1, PutInFits
  <2>2. CASE SamePair(proc', proc) /\ proc'.used = proc.used
             /\ SameRun(proc', proc)
    BY <1>1, <1>2, <1>3, <2>2, SteadyPair DEF SamePair
  <2>3. QED
    BY <1>1, <1>6, <2>1, <2>2, RebuildPair
<1>7. ASSUME NEW c \in Clients, ResetInstall(c) \/ BoundaryInstall(c)
      PROVE  PairMatchesPrefill'
  <2> DEFINE old == client[c].old
  <2>1. old.format \in Formats /\ old.model \in Paths
    BY <1>1, ClientFields DEF TypeOK
  <2>2. /\ SameRun(proc', proc)
        /\ Resamples(old.format, old.model)
             => PutIn(proc', old.format, old.model)
        /\ ~Resamples(old.format, old.model)
             => SamePair(proc', proc) \/ proc'.pair = NoPair
    BY <1>1, <1>7, ResetPair
  <2>3. CASE Resamples(old.format, old.model)
    BY <1>4, <2>1, <2>2, <2>3, PutInFits
  <2>4. CASE ~Resamples(old.format, old.model) /\ SamePair(proc', proc)
    <3>1. InHand(client[c], proc) /\ client[c].pc \in HasRead
      BY <1>7 DEF HandInv, Hand, ResetInstall, BoundaryInstall, HasRead
    <3>2. /\ proc.model = old.model
          /\ Loaded(proc) /\ proc.format # old.format
               => ~proc.valid \/ proc.pair = NoPair
      BY <3>1 DEF InHand
    <3>3. ~Path(proc)
      <4>1. SUFFICES ASSUME Path(proc) PROVE FALSE
        OBVIOUS
      <4>2. Resamples(proc.format, proc.model) /\ proc.pair # NoPair
        BY <1>1, <4>1, PathResamples, PathHasPair
      <4>3. Loaded(proc) /\ proc.valid
        BY <4>1 DEF Path, ResamplerMatches
      <4>4. QED
        BY <2>4, <3>2, <4>2, <4>3
    <3>4. ~Path(proc')
      BY <2>2, <2>4, <3>3 DEF Path, Loaded, ResamplerMatches, SameRun, SamePair
    <3>5. QED
      BY <3>4 DEF PairMatchesPrefill
  <2>5. CASE proc'.pair = NoPair
    BY <1>4, <2>5
  <2>6. QED
    BY <2>2, <2>3, <2>4, <2>5
<1>8. ASSUME NEW c \in Clients, UpdateInstall(c) PROVE PairMatchesPrefill'
  <2> DEFINE k == client[c]
             v == SetFormat(proc, k.format)
  <2>1. k \in ClientType /\ k.pc = "install" /\ PairWanted(k)
    BY <1>1, <1>8 DEF TypeOK, UpdateInstall, ClientInv
  <2>2. /\ k.format \in Formats /\ k.old.model \in Paths /\ k.path \in Paths
        /\ k.load \in Loads /\ k.pair \in Attempts /\ k.switch \in BOOLEAN
    BY <2>1, ClientFields
  <2>3. /\ proc'.format = k.format
        /\ proc'.model = IF k.load = "loaded" THEN k.path ELSE proc.model
        /\ PairChange(k) = "keep" /\ ~k.switch => proc' = v
        /\ PairChange(k) # "keep" => (proc'.pair # NoPair => ~proc'.fed)
    BY <1>1, <1>8, UpdatePair
  <2>4. InHand(k, proc) /\ Considered(k)
    BY DEF HandInv, Hand
  <2>5. k.load = "loaded" => PairChange(k) \in {"fresh", "drop"}
    BY <2>1, ChangeCases
  <2> HIDE DEF k
  <2>6. CASE PairChange(k) # "keep"
    BY <1>4, <2>3, <2>6
  <2>7. CASE PairChange(k) = "keep" /\ ~k.switch
    BY <1>1, <1>3, <2>2, <2>3, <2>7, FormatWears
  <2>8. CASE PairChange(k) = "keep" /\ k.switch
    <3>1. SUFFICES ASSUME Path(proc') PROVE FALSE
      BY DEF PairMatchesPrefill
    <3>2. k.load # "loaded" /\ proc'.model = k.old.model
      BY <2>1, <2>3, <2>4, <2>5, <2>8 DEF InHand, HasRead
    <3>3. Resamples(k.format, k.old.model)
      BY <1>2, <2>3, <3>1, <3>2, PathResamples
    <3>4. CASE k.load = "unpaired"
      <4>1. /\ "prepare" \in Failures
            /\ k.path # k.old.model /\ k.path # NoModel
        BY <2>1, <2>4, <3>4 DEF Considered
      <4>2. k.path \in Models /\ k.old.model \in Models
        BY <2>2, <3>3, <4>1 DEF Paths, Resamples
      <4>3. QED
        BY <4>1, <4>2
    <3>5. CASE k.load # "unpaired"
      <4>1. k.pair = "none"
        BY <2>2, <2>8, <3>2, <3>5, SMT DEF PairChange, Attempts
      <4>2. QED
        BY <2>1, <2>4, <2>8, <3>2, <3>3, <3>5, <4>1 DEF Considered
    <3>6. QED
      BY <3>4, <3>5
  <2>9. QED
    BY <2>2, <2>6, <2>7, <2>8
<1>9. QED
  BY <1>5, <1>6, <1>7, <1>8, PlayStep DEF Installs

\* A stream that starts through a pair starts with a pair that holds nothing
\* (dpdfnet-processor.cpp, replace_resamplers; dpdfnet-filter.cpp, update and
\* reset), where preparing a pair cannot fail, or there is one model only, so
\* that no new one can fail to get its pair. (Elsewhere the pair of the model
\* that stays may be kept over a switched channel: the run kept_pair shows it.)
THEOREM PairsMatchPrefill ==
    ASSUME "prepare" \notin Failures \/ \A m, n \in Models : m = n
    PROVE  Spec => []PairMatchesPrefill
<1>1. Init => PairMatchesPrefill
  BY DEF Init, FirstView, PairMatchesPrefill, Path, Loaded
<1>2. FilterInv /\ (HandInv /\ Fits(proc)) /\ PairMatchesPrefill /\ [Next]_vars
        => PairMatchesPrefill'
  BY PrefillStep
<1>3. QED
  BY <1>1, <1>2, FilterInvariant, HandsInvariant, PTL DEF Spec

-----------------------------------------------------------------------------
(***************************************************************************)
(* The pair that is lacking is on its way.                                 *)
(***************************************************************************)
\* A call that will read what the stream needs, or has.
Calling == {"clear", "update", "read", "prepare", "fallback", "install"}
Chased  == \E c \in Clients : client[c].pc \in Calling

\* A stale pair is pending, in the worker's hands, or a call's.
StaleInv ==
    Stale(proc) /\ ~Broken(proc)
      => error \/ Pending \/ worker.pc = "install" \/ Chased

\* A pair that is missing and has not gone stale failed to be prepared.
MatchInv == Mismatch(proc) /\ proc.valid => error \/ Chased

\* What the worker is about to install is for the stream as it is, or one
\* for the format that came since is asked for.
RebuildInv ==
    worker.pc = "install" =>
      /\ worker.model = proc.model /\ Stale(proc)
      /\ worker.format = proc.format \/ Wanted

ComingInv == StaleInv /\ MatchInv /\ RebuildInv

\* No enable signal is on its way.
NoBoundaries ==
    \A c \in Clients : client[c].pc \notin {"boundary", "boundaryInstall"}

\* Where they are not called there are none.
LEMMA NoBoundariesStep ==
    ASSUME TypeOK, NoBoundaries, [Next]_vars, "boundary" \notin Calls
    PROVE  NoBoundaries'
<1> DEFINE bad == {"boundary", "boundaryInstall"}
<1>1. client \in [Clients -> ClientType] /\ Away \in ClientType
  BY AwayType DEF TypeOK
<1>2. CASE client' = client
  BY <1>2 DEF NoBoundaries
<1>3. ASSUME NEW c \in Clients, ClientCall(c) \/ ClientStep(c)
      PROVE  NoBoundaries'
  <2>1. \A d \in Clients \ {c} : client'[d] = client[d]
    BY <1>3, LockMoves
  <2>2. client[c].pc \notin bad
    BY DEF NoBoundaries
  <2>3. client'[c].pc \notin bad
    <3>1. CASE ClientCall(c) \/ ResetClear(c) \/ Notify(c)
      <4>1. PICK pc \in {"update", "reset", "notify", "idle"} :
              client' = [client EXCEPT ![c].pc = pc]
        BY <3>1, Zenon DEF ClientCall, CallUpdate, CallReset, CallDisable,
           CallEnable, ResetClear, Notify
      <4>2. client'[c].pc = pc
        BY <1>1, <4>1, Zenon DEF ClientType
      <4>3. QED
        BY <4>1, <4>2
    <3>2. CASE BeginUpdate(c)
      <4>1. PICK path, switch :
              client' = [client EXCEPT ![c].pc = "read", ![c].format = obs,
                                       ![c].path = path, ![c].switch = switch]
        BY <3>2 DEF BeginUpdate
      <4>2. client'[c].pc = "read"
        BY <1>1, <4>1, Zenon DEF ClientType
      <4>3. QED
        BY <4>2
    <3>3. CASE UpdateRead(c) \/ UpdatePrepare(c) \/ UpdateFallback(c)
      BY <1>1, <3>3, UpdateForward
    <3>4. CASE UpdateInstall(c) \/ ResetInstall(c)
      <4>1. PICK k \in {Away, [Away EXCEPT !.pc = "clear"]} :
              client' = [client EXCEPT ![c] = k]
        BY <3>4, Zenon DEF UpdateInstall, ResetInstall
      <4>2. k.pc \in {"idle", "clear"}
        BY AwayType DEF TypeOK
      <4>3. client'[c] = k
        BY <1>1, <4>1, Zenon
      <4>4. QED
        BY <4>2, <4>3
    <3>5. CASE ResetRead(c)
      <4>1. client' = [client EXCEPT ![c].pc = "resetInstall",
                                     ![c].old = OldState]
        BY <3>5 DEF ResetRead, ReadForReset
      <4>2. client'[c].pc = "resetInstall"
        BY <1>1, <4>1, Zenon DEF ClientType
      <4>3. QED
        BY <4>2
    <3>6. ~BoundaryRead(c) /\ ~BoundaryInstall(c)
      BY <2>2 DEF BoundaryRead, ReadForReset, BoundaryInstall
    <3>7. QED
      BY <1>3, <3>1, <3>2, <3>3, <3>4, <3>5, <3>6, Zenon DEF ClientStep
  <2>4. QED
    BY <2>1, <2>3 DEF NoBoundaries
<1>4. QED
  BY <1>2, <1>3, ClientMovesOn

\* Where a call's reset ends its update begins.
LEMMA ResetChases ==
    ASSUME TypeOK, NEW c \in Clients, ResetInstall(c)
    PROVE  Chased'
<1>1. client \in [Clients -> ClientType]
  BY DEF TypeOK
<1> DEFINE k == [Away EXCEPT !.pc = "clear"]
<1>2. client' = [client EXCEPT ![c] = k]
  BY DEF ResetInstall
<1>3. k.pc = "clear"
  BY AwayType DEF TypeOK
<1> HIDE DEF k
<1>4. client'[c] = k
  BY <1>1, <1>2, Zenon
<1>5. QED
  BY <1>3, <1>4 DEF Chased, Calling

\* A call that is on to the pair is on to it until it installs.
LEMMA ChasedStep ==
    ASSUME TypeOK, [Next]_vars, Chased, ~\E c \in Clients : UpdateInstall(c)
    PROVE  Chased'
<1>1. client \in [Clients -> ClientType]
  BY DEF TypeOK
<1>2. PICK d \in Clients : client[d].pc \in Calling
  BY DEF Chased
<1>3. ASSUME client'[d].pc \in Calling PROVE Chased'
  BY <1>3 DEF Chased
<1>4. CASE client' = client
  BY <1>2, <1>3, <1>4
<1>5. ASSUME NEW c \in Clients, ClientCall(c) \/ ClientStep(c)
      PROVE  client'[d].pc \in Calling
  <2>1. CASE d # c
    <3>1. client'[d] = client[d]
      BY <1>5, <2>1, LockMoves
    <3>2. QED
      BY <1>2, <3>1
  <2>2. CASE d = c
    <3>1. CASE ResetClear(c)
      <4>1. client' = [client EXCEPT ![c].pc = "update"]
        BY <3>1 DEF ResetClear
      <4>2. client'[c].pc = "update"
        BY <1>1, <4>1, Zenon DEF ClientType
      <4>3. QED
        BY <2>2, <4>2 DEF Calling
    <3>2. CASE BeginUpdate(c)
      <4>1. PICK path, switch :
              client' = [client EXCEPT ![c].pc = "read", ![c].format = obs,
                                       ![c].path = path, ![c].switch = switch]
        BY <3>2 DEF BeginUpdate
      <4>2. client'[c].pc = "read"
        BY <1>1, <4>1, Zenon DEF ClientType
      <4>3. QED
        BY <2>2, <4>2 DEF Calling
    <3>3. CASE UpdateRead(c) \/ UpdatePrepare(c) \/ UpdateFallback(c)
      BY <1>1, <2>2, <3>3, UpdateForward DEF Calling
    <3>4. ~ClientCall(c)
      BY <1>2, <2>2 DEF Calling, ClientCall, CallUpdate, CallReset,
         CallDisable, CallEnable
    <3>5. /\ ~ResetRead(c) /\ ~ResetInstall(c) /\ ~BoundaryRead(c)
          /\ ~BoundaryInstall(c) /\ ~Notify(c)
      BY <1>2, <2>2 DEF Calling, ResetRead, ResetInstall, BoundaryRead,
         ReadForReset, BoundaryInstall, Notify
    <3>6. QED
      BY <1>5, <3>1, <3>2, <3>3, <3>4, <3>5, Zenon DEF ClientStep
  <2>3. QED
    BY <2>1, <2>2
<1>6. QED
  BY <1>3, <1>4, <1>5, ClientMovesOn

\* What an update leaves unmended is pending or shown.
LEMMA UpdateMends ==
    ASSUME TypeOK, ClientInv, HandInv, NEW c \in Clients, UpdateInstall(c)
    PROVE  /\ Stale(proc') /\ ~Broken(proc') => Pending'
           /\ Mismatch(proc') /\ proc'.valid => error'
<1> DEFINE k == client[c]
           v == SetFormat(proc, k.format)
<1>1. /\ k \in ClientType /\ k.pc = "install" /\ PairWanted(k)
      /\ proc \in ViewType
  BY DEF TypeOK, UpdateInstall, ClientInv
<1>2. /\ k.format \in Formats /\ k.path \in Paths /\ k.old.model \in Paths
      /\ k.load \in Loads /\ k.pair \in Attempts /\ k.fallback \in Attempts
  BY <1>1, ClientFields
<1>3. /\ proc'.format = k.format
      /\ proc'.model = IF k.load = "loaded" THEN k.path ELSE proc.model
      /\ k.load # "loaded" => proc'.reason = proc.reason
      /\ PairChange(k) = "keep" => SamePair(proc', v)
      /\ PairChange(k) # "keep" =>
           /\ proc'.valid
           /\ proc'.pair =
                IF PairChange(k) = "fresh"
                THEN PairFor(k.format, TargetModel(k))
                ELSE IF PairChange(k) = "fallback"
                THEN PairFor(k.format, k.old.model)
                ELSE NoPair
  BY UpdatePair
<1>4. /\ InHand(k, proc) /\ SinceRead(k, proc, Pending)
      /\ Considered(k) /\ Kept(k, proc, Pending)
  BY DEF HandInv, Hand
<1>5. /\ error' = UpdateError(k)
      /\ UNCHANGED <<request, audio, worker>>
  BY Zenon DEF UpdateInstall
<1>6. Pending => Pending'
  BY <1>5 DEF Pending, Wanted
<1>7. /\ k.load = "loaded" => PairChange(k) \in {"fresh", "drop"}
      /\ PairChange(k) = "fresh" => k.load # "unpaired"
      /\ PairChange(k) = "fallback" => k.load = "unpaired"
      /\ PairChange(k) \in {"fresh", "fallback", "drop", "keep"}
  BY <1>1, ChangeCases
<1>8. proc.model = k.old.model
  BY <1>1, <1>4 DEF InHand, HasRead
<1>9. /\ v.pair = proc.pair
      /\ k.format = proc.format => v = proc
      /\ k.format # proc.format =>
           v.valid = (proc.valid /\ ~(/\ Loaded(proc)
                                      /\ \/ Resamples(k.format, proc.model)
                                         \/ proc.pair # NoPair))
  BY <1>1, <1>2, SetFormatPair
<1> HIDE DEF k, v
<1>10. CASE PairChange(k) \in {"fresh", "fallback"}
  <2>1. proc'.pair = PairFor(proc'.format, proc'.model) /\ proc'.valid
    BY <1>3, <1>7, <1>8, <1>10 DEF TargetModel
  <2>2. ~Mismatch(proc')
    BY <2>1 DEF Mismatch, Resamples, Path, Loaded, ResamplerMatches
  <2>3. QED
    BY <2>1, <2>2 DEF Stale
<1>11. CASE PairChange(k) = "drop"
  <2>1. proc'.valid
    BY <1>3, <1>11
  <2>2. ASSUME Resamples(k.format, proc'.model) PROVE error'
    <3>1. CASE k.load = "loaded"
      <4>1. k.pair # "ready"
        BY <1>11, <3>1 DEF PairChange
      <4>2. QED
        BY <1>1, <1>3, <1>4, <2>2, <3>1, <4>1 DEF Considered
    <3>2. CASE k.load = "unpaired"
      <4>1. OldNeedsResamplers(k)
        BY <1>3, <1>8, <2>2, <3>2 DEF OldNeedsResamplers
      <4>2. k.fallback = "failed"
        BY <1>2, <1>11, <3>2, <4>1, SMT DEF PairChange, Attempts
      <4>3. QED
        BY <1>5, <3>2, <4>1, <4>2, SMT DEF UpdateError
    <3>3. CASE k.load \notin {"loaded", "unpaired"}
      <4>1. TargetModel(k) = proc'.model
        BY <1>3, <1>8, <3>3 DEF TargetModel
      <4>2. k.pair = "failed"
        BY <1>11, <2>2, <3>3, <4>1 DEF PairChange
      <4>3. QED
        BY <1>5, <3>3, <4>2 DEF UpdateError
    <3>4. QED
      BY <3>1, <3>2, <3>3
  <2>3. QED
    BY <1>3, <2>1, <2>2 DEF Stale, Mismatch
<1>12. CASE PairChange(k) = "keep"
  <2>1. /\ k.load # "loaded" /\ proc'.model = proc.model
        /\ proc'.reason = proc.reason /\ SamePair(proc', v)
    BY <1>3, <1>7, <1>12
  <2>2. /\ k.old.format = k.format
        /\ IF Resamples(k.format, k.old.model)
           THEN Serves(k, proc, Pending) ELSE ~k.old.stale
    BY <1>1, <1>4, <1>12 DEF Kept
  <2>3. Loaded(proc) /\ proc.format # k.format
          => ~proc.valid \/ proc.pair = NoPair
    BY <1>1, <1>4, <2>2 DEF InHand, HasRead
  <2>4. CASE /\ Resamples(k.format, k.old.model)
             /\ ResamplerMatches(proc, k.format, k.old.model)
    <3>1. Loaded(proc) /\ proc.valid /\ proc.pair # NoPair
      BY <1>2, <1>8, <2>4, PreparedFits
         DEF Resamples, Loaded, ResamplerMatches
    <3>2. v = proc
      BY <1>9, <2>3, <3>1
    <3>3. Path(proc') /\ proc'.valid
      BY <1>3, <1>8, <2>1, <2>4, <3>1, <3>2
         DEF Path, Loaded, ResamplerMatches, SamePair
    <3>4. QED
      BY <3>3 DEF Mismatch, Stale
  <2>5. CASE ~proc.valid /\ (Pending \/ Broken(proc))
    <3>1. ~proc'.valid
      BY <1>9, <2>1, <2>5 DEF SamePair
    <3>2. Broken(proc) => Broken(proc')
      BY <2>1 DEF Broken
    <3>3. QED
      BY <1>6, <2>5, <3>1, <3>2
  <2>6. CASE ~Resamples(k.format, k.old.model)
    <3>1. ~Mismatch(proc')
      BY <1>3, <1>8, <2>1, <2>6 DEF Mismatch
    <3>2. ASSUME Stale(proc'), ~Broken(proc') PROVE Pending'
      <4>1. ~Broken(proc) /\ ~k.old.stale
        BY <2>1, <2>2, <2>6, <3>2 DEF Broken
      <4>2. CASE Stale(proc)
        BY <1>1, <1>4, <1>6, <4>1, <4>2 DEF SinceRead, HasRead
      <4>3. CASE ~Stale(proc)
        <5>1. Loaded(proc) /\ proc.valid /\ ~v.valid
          BY <2>1, <3>2, <4>3 DEF Stale, Loaded, SamePair
        <5>2. k.format # proc.format /\ proc.pair # NoPair
          BY <1>8, <1>9, <2>6, <5>1
        <5>3. QED
          BY <2>3, <5>1, <5>2
      <4>4. QED
        BY <4>2, <4>3
    <3>3. QED
      BY <3>1, <3>2
  <2>7. QED
    BY <2>2, <2>4, <2>5, <2>6 DEF Serves
<1>13. QED
  BY <1>7, <1>10, <1>11, <1>12

\* So is what the worker leaves unmended.
LEMMA RebuildMends ==
    ASSUME TypeOK, RebuildInv, RebuildInstall
    PROVE  /\ Stale(proc') => error' \/ Pending'
           /\ Mismatch(proc') /\ proc'.valid => error'
<1> DEFINE needed == Resamples(worker.format, worker.model)
           pair   == PairFor(worker.format, worker.model)
<1>1. PICK prepared \in MaySucceed("prepare") :
        IF ~StillCurrent THEN UNCHANGED <<proc, error>>
        ELSE IF needed /\ ~prepared
        THEN error' = TRUE /\ UNCHANGED proc
        ELSE /\ proc' = IF needed THEN ReplaceResamplers(proc, pair)
                        ELSE ReleaseInvalidResamplers(proc)
             /\ error' = FALSE
  BY Zenon DEF RebuildInstall
<1>2. /\ proc \in ViewType /\ worker.format \in Formats
      /\ worker.model \in Paths
  BY DEF TypeOK, WorkerType
<1>3. /\ worker.model = proc.model /\ Stale(proc)
      /\ worker.format = proc.format \/ Wanted
  BY DEF RebuildInv, RebuildInstall
<1>4. Loaded(proc) /\ ~proc.valid
  BY <1>3 DEF Stale
<1>5. CASE ~StillCurrent
  <2>1. proc' = proc
    BY <1>1, <1>5
  <2>2. Wanted
    BY <1>3, <1>5 DEF StillCurrent
  <2>3. UNCHANGED <<request, audio>>
    BY DEF RebuildInstall
  <2>4. Pending'
    BY <2>2, <2>3 DEF Pending, Wanted
  <2>5. QED
    BY <1>4, <2>1, <2>4
<1>6. CASE StillCurrent /\ needed /\ ~prepared
  BY <1>1, <1>6
<1>7. CASE StillCurrent /\ needed /\ prepared
  <2>1. pair \in Pairs
    BY <1>2, <1>7, NeededPair
  <2>2. pair = PairFor(proc.format, proc.model)
    BY <1>7 DEF StillCurrent, PairFor
  <2>3. proc' = ReplaceResamplers(proc, pair)
    BY <1>1, <1>7
  <2> HIDE DEF pair
  <2>4. /\ proc'.pair = pair /\ proc'.valid
        /\ proc'.format = proc.format /\ proc'.model = proc.model
    BY <1>2, <2>1, <2>3, ReplacedPair, ReplaceResamplersView DEF SameRun
  <2>5. Path(proc')
    BY <1>4, <2>2, <2>4 DEF Path, Loaded, ResamplerMatches
  <2>6. QED
    BY <2>4, <2>5 DEF Mismatch, Stale
<1>8. CASE StillCurrent /\ ~needed
  <2>1. ~Resamples(proc.format, proc.model)
    BY <1>3, <1>8 DEF StillCurrent, Resamples
  <2>2. proc' = ReleaseInvalidResamplers(proc)
    BY <1>1, <1>8
  <2>3. /\ proc'.valid
        /\ proc'.format = proc.format /\ proc'.model = proc.model
    BY <1>2, <1>4, <2>1, <2>2, ReleasedPair, ReleaseView DEF SameRun
  <2>4. QED
    BY <2>1, <2>3 DEF Mismatch, Stale
<1>9. QED
  BY <1>5, <1>6, <1>7, <1>8

\* All audio has one sample rate: only the channels may change.
OneRate == \A f, g \in Formats : RateOf[f] = RateOf[g]

\* What the enable signal leaves unmended is pending or shown, where the rate
\* it has read is the rate there is.
LEMMA BoundaryMends ==
    ASSUME TypeOK, HandInv, OneRate, NEW c \in Clients, BoundaryInstall(c)
    PROVE  /\ Stale(proc') /\ ~Broken(proc') => Pending'
           /\ Mismatch(proc') /\ proc'.valid => error'
<1> DEFINE k   == client[c]
           old == k.old
<1>1. PICK prepared \in MaySucceed("prepare") :
        /\ proc' = ResetStream(FreshInstalled(old, prepared))
        /\ error' = FreshError(old, prepared)
  BY DEF BoundaryInstall
<1> DEFINE w == FreshInstalled(old, prepared)
           p == IF prepared THEN PairFor(old.format, old.model) ELSE NoPair
<1>2. /\ old \in OldType /\ old.format \in Formats /\ old.model \in Paths
      /\ proc \in ViewType /\ proc.format \in Formats
      /\ prepared \in BOOLEAN
  BY ClientFields, ViewFields DEF TypeOK, OldType, MaySucceed
<1>3. k.pc \in HasRead /\ InHand(k, proc) /\ SinceRead(k, proc, Pending)
  BY DEF HandInv, Hand, BoundaryInstall, HasRead
<1>4. Pending => Pending'
  BY DEF BoundaryInstall, Pending, Wanted
<1> HIDE DEF k, old
<1>5. proc.model = old.model /\ RateOf[proc.format] = RateOf[old.format]
  BY <1>2, <1>3 DEF InHand, OneRate, old
<1>6. w \in ViewType /\ SameRun(w, proc) /\ w.reason = proc.reason
  BY <1>2, FreshView DEF OldType
<1>7. /\ SamePair(proc', w) /\ SameRun(proc', w)
      /\ proc'.reason = w.reason
  BY <1>1, <1>6, LeavesPair, ResetsView
<1>8. /\ proc'.format = proc.format /\ proc'.model = proc.model
      /\ proc'.reason = proc.reason
      /\ proc'.pair = w.pair /\ proc'.valid = w.valid
  BY <1>6, <1>7 DEF SameRun, SamePair
<1>9. Resamples(proc.format, proc.model) <=> Resamples(old.format, old.model)
  BY <1>5 DEF Resamples
<1>10. CASE Resamples(old.format, old.model)
  <2>1. p \in Pairs
    BY <1>2, <1>10, NeededPair, NoPairType
  <2>2. w = ReplaceResamplers(proc, p)
    BY <1>10 DEF FreshInstalled
  <2>3. p = IF prepared THEN PairFor(proc.format, proc.model) ELSE NoPair
    BY <1>5 DEF PairFor
  <2> HIDE DEF p, w
  <2>4. proc'.pair = p /\ proc'.valid
    BY <1>2, <1>8, <2>1, <2>2, ReplacedPair
  <2>5. CASE prepared
    <3>1. Path(proc')
      BY <1>5, <1>8, <1>10, <2>3, <2>4, <2>5
         DEF Path, Loaded, ResamplerMatches, Resamples
    <3>2. QED
      BY <2>4, <3>1 DEF Mismatch, Stale
  <2>6. CASE ~prepared
    <3>1. error'
      BY <1>1, <1>10, <2>6 DEF FreshError
    <3>2. QED
      BY <2>4, <3>1 DEF Stale
  <2>7. QED
    BY <2>5, <2>6
<1>11. CASE ~Resamples(old.format, old.model)
  <2>1. ~Mismatch(proc')
    BY <1>8, <1>9, <1>11 DEF Mismatch
  <2>2. CASE old.stale
    <3>1. w = ReleaseInvalidResamplers(proc)
      BY <1>11, <2>2 DEF FreshInstalled
    <3> HIDE DEF w
    <3>2. w.valid
      BY <1>2, <1>9, <1>11, <3>1, ReleasedPair
    <3>3. QED
      BY <1>8, <2>1, <3>2 DEF Stale
  <2>3. CASE ~old.stale
    <3>1. w = proc
      BY <1>11, <2>3 DEF FreshInstalled
    <3> HIDE DEF w
    <3>2. Stale(proc') /\ ~Broken(proc') => Stale(proc) /\ ~Broken(proc)
      BY <1>8, <3>1 DEF Stale, Loaded, Broken
    <3>3. Stale(proc) /\ ~Broken(proc) => Pending
      BY <1>3, <2>3 DEF SinceRead, old
    <3>4. QED
      BY <1>4, <2>1, <3>2, <3>3
  <2>4. QED
    BY <2>2, <2>3
<1>12. QED
  BY <1>10, <1>11

\* The worker comes to install what it has just read.
LEMMA InstallMoves ==
    ASSUME TypeOK, [Next]_vars
    PROVE  /\ worker'.pc = "install" =>
                \/ worker' = worker
                \/ /\ RebuildRead /\ Stale(proc)
                   /\ worker'.format = proc.format
                   /\ worker'.model = proc.model
           /\ worker.pc = "install" => worker' = worker \/ RebuildInstall
<1>1. worker \in WorkerType /\ NoWork \in WorkerType
  BY NoWorkType DEF TypeOK
<1>2. ASSUME NEW pc, NEW retry, worker' = [NoWork EXCEPT !.pc = pc, !.retry = retry]
      PROVE  worker'.pc = pc
  BY <1>1, <1>2, Zenon DEF WorkerType
<1>3. CASE WorkerWake
  <2>1. worker.pc = "waiting"
    BY <1>3 DEF WorkerWake
  <2>2. \/ worker' = [NoWork EXCEPT !.pc = "stopped"]
        \/ worker' = [NoWork EXCEPT !.pc = "rebuild", !.retry = Expired]
        \/ worker' = [NoWork EXCEPT !.pc = "retry", !.retry = TRUE]
        \/ worker' = [NoWork EXCEPT !.pc = "status"]
        \/ worker' = WorkerWaits(Taken)
    BY <1>3, Zenon DEF WorkerWake
  <2>3. worker'.pc \in {"stopped", "rebuild", "retry", "status", "waiting"}
    BY <2>2, Zenon DEF NoWork, WorkerWaits
  <2>4. QED
    BY <2>1, <2>3
<1>4. CASE RebuildRead
  <2>1. worker.pc = "rebuild"
    BY <1>4 DEF RebuildRead
  <2>2. CASE Stale(proc)
    <3>1. worker' = [worker EXCEPT !.pc = "install", !.format = proc.format,
                                   !.model = proc.model]
      BY <1>4, <2>2, Zenon DEF RebuildRead
    <3>2. worker'.format = proc.format /\ worker'.model = proc.model
      BY <1>1, <3>1, Zenon DEF WorkerType
    <3>3. QED
      BY <1>4, <2>1, <2>2, <3>2
  <2>3. CASE ~Stale(proc)
    <3>1. worker' = [worker EXCEPT !.pc = AfterRebuild]
      BY <1>4, <2>3, Zenon DEF RebuildRead
    <3>2. worker'.pc = AfterRebuild
      BY <1>1, <3>1, Zenon DEF WorkerType
    <3>3. QED
      BY <2>1, <3>2 DEF AfterRebuild
  <2>4. QED
    BY <2>2, <2>3
<1>5. CASE RebuildInstall
  <2>1. worker' = [NoWork EXCEPT !.pc = AfterRebuild, !.retry = worker.retry]
    BY <1>5 DEF RebuildInstall
  <2>2. worker'.pc = AfterRebuild
    BY <1>1, <2>1, Zenon DEF WorkerType
  <2>3. QED
    BY <1>5, <2>2 DEF AfterRebuild
<1>6. CASE WorkerRetry
  <2>1. /\ worker.pc = "retry"
        /\ worker' = [worker EXCEPT !.pc = "status", !.retry = FALSE]
    BY <1>6 DEF WorkerRetry
  <2>2. worker'.pc = "status"
    BY <1>1, <2>1, Zenon DEF WorkerType
  <2>3. QED
    BY <2>1, <2>2
<1>7. CASE StatusRead
  <2>1. /\ worker.pc = "status"
        /\ worker' = [worker EXCEPT !.pc = "snapshot", !.model = proc.model]
    BY <1>7 DEF StatusRead
  <2>2. worker'.pc = "snapshot"
    BY <1>1, <2>1, Zenon DEF WorkerType
  <2>3. QED
    BY <2>1, <2>2
<1>8. CASE StatusShow
  <2>1. worker.pc = "snapshot" /\ worker' = WorkerWaits(request)
    BY <1>8 DEF StatusShow
  <2>2. worker'.pc = "waiting"
    BY <2>1, Zenon DEF NoWork, WorkerWaits
  <2>3. QED
    BY <2>1, <2>2
<1>9. QED
  BY <1>3, <1>4, <1>5, <1>6, <1>7, <1>8, WorkerMoves DEF ByWorker

\* A section of a call leaves no install to the worker.
LEMMA NoInstallMeanwhile ==
    ASSUME TypeOK, LockInv, [Next]_vars, NEW c \in Clients,
           UpdateInstall(c) \/ ResetInstall(c) \/ BoundaryInstall(c)
    PROVE  worker.pc # "install" /\ worker' = worker
<1>1. client[c].pc \in Held /\ worker' = worker
  BY Zenon DEF UpdateInstall, ResetInstall, BoundaryInstall, Held
<1>2. updateLock = c
  BY <1>1 DEF LockInv
<1>3. QED
  BY <1>1, <1>2, FilterAssumption DEF LockInv

\* No step loses sight of a pair that is lacking.
LEMMA ComingStep ==
    ASSUME FilterInv, HandInv, ComingInv, NoBoundaries \/ OneRate,
           [Next]_vars
    PROVE  ComingInv'
<1>1. /\ TypeOK /\ ClientInv /\ PostsInv /\ LockInv /\ proc \in ViewType
  BY DEF FilterInv, TypeOK
<1>2. StaleInv /\ MatchInv /\ RebuildInv
  BY DEF ComingInv
<1>3. CASE RebuildInstall
  <2>1. worker.pc = "install" /\ worker'.pc # "install"
    <3>1. worker.pc = "install"
      BY <1>3 DEF RebuildInstall
    <3>2. worker' = [NoWork EXCEPT !.pc = AfterRebuild, !.retry = worker.retry]
      BY <1>3 DEF RebuildInstall
    <3>3. worker'.pc = AfterRebuild
      BY <3>2, Zenon DEF NoWork
    <3>4. QED
      BY <3>1, <3>3 DEF AfterRebuild
  <2>2. /\ Stale(proc') => error' \/ Pending'
        /\ Mismatch(proc') /\ proc'.valid => error'
    BY <1>1, <1>2, <1>3, RebuildMends
  <2>3. QED
    BY <2>1, <2>2 DEF ComingInv, StaleInv, MatchInv, RebuildInv
<1>4. ASSUME NEW c \in Clients, UpdateInstall(c) PROVE ComingInv'
  <2>1. worker.pc # "install" /\ worker' = worker
    BY <1>1, <1>4, NoInstallMeanwhile
  <2>2. /\ Stale(proc') /\ ~Broken(proc') => Pending'
        /\ Mismatch(proc') /\ proc'.valid => error'
    BY <1>1, <1>4, UpdateMends
  <2>3. QED
    BY <2>1, <2>2 DEF ComingInv, StaleInv, MatchInv, RebuildInv
<1>5. ASSUME NEW c \in Clients, ResetInstall(c) PROVE ComingInv'
  <2>1. worker.pc # "install" /\ worker' = worker
    BY <1>1, <1>5, NoInstallMeanwhile
  <2>2. Chased'
    BY <1>1, <1>5, ResetChases
  <2>3. QED
    BY <2>1, <2>2 DEF ComingInv, StaleInv, MatchInv, RebuildInv
<1>6. ASSUME NEW c \in Clients, BoundaryInstall(c) PROVE ComingInv'
  <2>1. worker.pc # "install" /\ worker' = worker
    BY <1>1, <1>6, NoInstallMeanwhile
  <2>2. OneRate
    BY <1>6 DEF NoBoundaries, BoundaryInstall
  <2>3. /\ Stale(proc') /\ ~Broken(proc') => Pending'
        /\ Mismatch(proc') /\ proc'.valid => error'
    BY <1>1, <1>6, <2>2, BoundaryMends
  <2>4. QED
    BY <2>1, <2>3 DEF ComingInv, StaleInv, MatchInv, RebuildInv
<1>7. CASE ~RebuildInstall /\ ~\E c \in Clients : Installs(c)
  <2>1. Played(proc', proc, Asked(audio'.posts)) /\ error' = error
    BY <1>7, PlayStep
  <2>2. Chased => Chased'
    BY <1>1, <1>7, ChasedStep DEF Installs
  <2>3. Asked(audio'.posts) => Wanted' /\ Pending'
    BY DEF Pending, Wanted
  <2>4. /\ proc'.model = proc.model /\ proc'.pair = proc.pair
        /\ proc'.valid => proc.valid
        /\ Broken(proc) => Broken(proc')
    BY <2>1 DEF Played, Wears
  <2>5. MatchInv'
    <3>1. SUFFICES ASSUME Mismatch(proc'), proc'.valid
                   PROVE  error' \/ Chased'
      BY DEF MatchInv
    <3>2. Loaded(proc) /\ proc.valid
      BY <2>4, <3>1 DEF Mismatch, Resamples, Loaded
    <3>3. proc'.format = proc.format
      BY <2>1, <3>1, <3>2 DEF Played, Mismatch
    <3>4. Mismatch(proc)
      BY <2>4, <3>1, <3>2, <3>3 DEF Mismatch, Path, Loaded, ResamplerMatches
    <3>5. QED
      BY <1>2, <2>1, <2>2, <3>2, <3>4 DEF MatchInv
  <2>6. StaleInv'
    <3>1. SUFFICES ASSUME Stale(proc'), ~Broken(proc')
                   PROVE  \/ error' \/ Pending' \/ worker'.pc = "install"
                          \/ Chased'
      BY DEF StaleInv
    <3>2. CASE Asked(audio'.posts)
      BY <2>3, <3>2
    <3>3. CASE Stale(proc)
      <4>1. error \/ Pending \/ worker.pc = "install" \/ Chased
        BY <1>2, <2>4, <3>1, <3>3 DEF StaleInv
      <4>2. CASE error \/ Chased
        BY <2>1, <2>2, <4>2
      <4>3. CASE worker.pc = "install"
        BY <1>1, <1>7, <4>3, InstallMoves
      <4>4. CASE Pending /\ RebuildRead
        <5>1. worker' = [worker EXCEPT !.pc = "install",
                                       !.format = proc.format,
                                       !.model = proc.model]
          BY <3>3, <4>4, Zenon DEF RebuildRead
        <5>2. worker \in WorkerType
          BY <1>1 DEF TypeOK
        <5>3. worker'.pc = "install"
          BY <5>1, <5>2, Zenon DEF WorkerType
        <5>4. QED
          BY <5>3
      <4>5. CASE Pending /\ ~RebuildRead
        BY <1>1, <4>5, PendingStep
      <4>6. QED
        BY <4>1, <4>2, <4>3, <4>4, <4>5
    <3>4. QED
      BY <2>1, <3>1, <3>2, <3>3 DEF Played
  <2>7. RebuildInv'
    <3>1. SUFFICES ASSUME worker'.pc = "install"
                   PROVE  /\ worker'.model = proc'.model /\ Stale(proc')
                          /\ worker'.format = proc'.format \/ Wanted'
      BY DEF RebuildInv
    <3>2. CASE /\ RebuildRead /\ Stale(proc)
               /\ worker'.format = proc.format /\ worker'.model = proc.model
      <4>1. proc' = proc
        BY <3>2 DEF RebuildRead
      <4>2. QED
        BY <3>2, <4>1
    <3>3. CASE worker' = worker
      <4>1. /\ worker.model = proc.model /\ Stale(proc)
            /\ worker.format = proc.format \/ Wanted
        BY <1>2, <3>1, <3>3 DEF RebuildInv
      <4>2. worker'.model = proc'.model /\ Stale(proc')
        <5>1. proc'.valid \in BOOLEAN
          BY <1>1, ProcStep, ViewFields
        <5>2. QED
          BY <2>4, <3>3, <4>1, <5>1 DEF Stale, Loaded
      <4>3. ~WorkerWake
        BY <3>1, <3>3 DEF WorkerWake
      <4>4. Wanted => Wanted'
        BY <1>1, <4>3, WantedStep
      <4>5. proc'.format # proc.format => Wanted'
        BY <2>1, <2>3, <4>1 DEF Played
      <4>6. QED
        BY <3>3, <4>1, <4>2, <4>4, <4>5
    <3>4. QED
      BY <1>1, <3>1, <3>2, <3>3, InstallMoves
  <2>8. QED
    BY <2>5, <2>6, <2>7 DEF ComingInv
<1>8. QED
  BY <1>3, <1>4, <1>5, <1>6, <1>7 DEF Installs

\* Whenever the stream lacks the pair it needs, one is asked for, being
\* prepared or waited for in a call, or the failure to prepare it is shown
\* (dpdfnet-filter.cpp, rebuild_resamplers_after_discontinuity and update),
\* where no enable signal is handled meanwhile, or the sample rate stays. (One
\* that is handled while the rate changes may install a pair for the rate that
\* was: the run boundary_race shows it.)
THEOREM PairsAlwaysComing ==
    ASSUME "boundary" \notin Calls \/ OneRate
    PROVE  Spec => []PairIsComing
<1> DEFINE Inv == ComingInv /\ (NoBoundaries \/ OneRate)
<1>1. Init => Inv
  <2>1. SUFFICES ASSUME Init PROVE Inv
    OBVIOUS
  <2>2. /\ obs \in Formats /\ client = [c \in Clients |-> Away]
        /\ proc = FirstView(obs) /\ worker = NoWork
    BY <2>1 DEF Init
  <2>3. NoBoundaries
    BY <2>2, AwayType DEF NoBoundaries
  <2>4. ~Loaded(proc) /\ ~Resamples(proc.format, proc.model)
    BY <2>2 DEF FirstView, Loaded, Resamples
  <2>5. worker.pc # "install"
    BY <2>2, NoWorkType
  <2>6. QED
    BY <2>3, <2>4, <2>5
       DEF ComingInv, StaleInv, MatchInv, RebuildInv, Stale, Mismatch
<1>2. FilterInv /\ (HandInv /\ Fits(proc)) /\ Inv /\ [Next]_vars => Inv'
  <2>1. SUFFICES ASSUME FilterInv, HandInv, Inv, [Next]_vars PROVE Inv'
    OBVIOUS
  <2>2. ComingInv'
    BY <2>1, ComingStep
  <2>3. OneRate => OneRate'
    BY DEF OneRate
  <2>4. "boundary" \notin Calls /\ NoBoundaries => NoBoundaries'
    BY <2>1, NoBoundariesStep DEF FilterInv
  <2>5. QED
    BY <2>1, <2>2, <2>3, <2>4
<1>3. Inv => PairIsComing
  <2>1. SUFFICES ASSUME Inv, Stale(proc) \/ Mismatch(proc), ~Broken(proc)
                 PROVE  \/ error \/ Pending \/ worker.pc = "install"
                        \/ Chased
    BY DEF PairIsComing, Pending, Wanted, Asked, Chased, Calling, Broken
  <2>2. CASE Stale(proc)
    BY <2>1, <2>2 DEF ComingInv, StaleInv
  <2>3. CASE Mismatch(proc) /\ ~Stale(proc)
    BY <2>1, <2>3
       DEF ComingInv, MatchInv, Mismatch, Resamples, Stale, Loaded
  <2>4. QED
    BY <2>1, <2>2, <2>3
<1>4. QED
  BY <1>1, <1>2, <1>3, FilterInvariant, HandsInvariant, PTL DEF Spec
=============================================================================
