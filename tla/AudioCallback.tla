--------------------------- MODULE AudioCallback ---------------------------
(***************************************************************************)
(* What filter_audio measures and stamps (src/src/dpdfnet-filter.cpp): the *)
(* realtime guard, the probe after a pause and the timestamp floor, with   *)
(* the other sections under mutex_ that reset them.  The processor is any  *)
(* that comes back with audio, a delay, a failure or nothing.              *)
(***************************************************************************)
EXTENDS RealtimeGuard, TimestampFloor, Integers, Sequences

LOCAL INSTANCE FiniteSetsExt

CONSTANTS Rates,       \* OBS sample rates
          Stamps,      \* timestamps of packets
          Frames,      \* frames of a packet
          Hops,        \* hops a callback processes
          Costs,       \* time a callback takes
          HopSize,     \* of the model
          ModelRate,
          ProbeAudio,  \* OVERLOAD_PROBE_AUDIO_NS
          MaxCalls     \* bound: callbacks measured since the guard was reset

ASSUME CallbackAssumption ==
    /\ Rates \subseteq Nat \ {0} /\ Stamps \subseteq 0 .. LastStamp
    /\ Frames \subseteq Nat \ {0} /\ Hops \subseteq Nat /\ Costs \subseteq Ns
    /\ HopSize \in Nat \ {0} /\ ModelRate \in Nat \ {0}
    /\ ProbeAudio \in Ns /\ MaxCalls \in Nat

\* A packet has less than 2^32 frames, so the audio of one callback more does
\* not carry the probe's sum past the end of uint64_t.
ASSUME ProbeAssumption ==
    \A hops \in Hops :
        ProbeAudio + AudioBudget(hops, HopSize, ModelRate) <= MaxNs

VARIABLES rate,        \* the sample rate of processor_
          reason,      \* why processing is off
          guard,       \* realtime_guard_
          attempts,    \* overload_retries_
          probeAudio,  \* probe_audio_ns_
          floor,       \* timestamp_floor_
          \* History, for the properties only.
          measured,    \* running totals of the callbacks since the guard
                       \* was reset
          calm,        \* audio measured without an event since the last retry
          sent         \* the last output, and the end of the one before

history == <<measured, calm, sent>>
vars    == <<rate, reason, guard, attempts, probeAudio, floor, history>>

Reasons == {"None", "RepeatedProcessingFailures", "RealtimeOverload"}

\* By how much the first n callbacks were late, and the audio they processed.
Total(calls, n) == IF n = 0 THEN [late |-> 0, audio |-> 0] ELSE calls[n]

WithCall(calls, ns, budget) ==
    LET before == Total(calls, Len(calls))
    IN  Append(calls, [late  |-> before.late + ns - budget,
                       audio |-> before.audio + budget])

\* ends: when the output before it ended, which no integer bounds.
NotSent == [ends |-> 0, own |-> 0, at |-> 0, frames |-> 0, rate |-> 1]

Init ==
    /\ rate \in Rates /\ reason = "None"
    /\ guard = NewGuard /\ attempts = 0 /\ probeAudio = 0
    /\ floor = NoFloor
    /\ measured = <<>> /\ calm = 0 /\ sent = NotSent

(***************************************************************************)
(* The guard's part of a callback.  g is the guard after a format change.  *)
(***************************************************************************)
\* A callback with an event on it does not count.
CountsForProbe(event) == guard.probe /\ ~event

ProbeEnds(budget, event) ==
    /\ CountsForProbe(event)
    /\ probeAudio + budget >= ProbeAudio

\* The callback is late for the last time: processing is paused.
Pauses ==
    /\ reason' = "RealtimeOverload"
    /\ attempts' = NextAttempt(attempts)
    /\ UNCHANGED probeAudio

Counts(budget, event) ==
    /\ IF ProbeEnds(budget, event) THEN attempts' = 0
       ELSE UNCHANGED attempts
    /\ probeAudio' = IF CountsForProbe(event) THEN probeAudio + budget
                     ELSE probeAudio
    /\ UNCHANGED reason

Measure(g, calls, ns, hops, event) ==
    LET budget  == AudioBudget(hops, HopSize, ModelRate)
        ended   == ~Trips(g, ns, budget) /\ ProbeEnds(budget, event)
    IN /\ IF Trips(g, ns, budget) THEN Pauses ELSE Counts(budget, event)
       /\ guard' = [Observed(g, ns, budget) EXCEPT !.probe = @ /\ ~ended]
       /\ measured' = IF budget = 0 THEN calls
                      ELSE WithCall(calls, ns, budget)
       /\ calm' = IF guard.probe /\ ~event THEN calm + budget ELSE calm

(***************************************************************************)
(* The output's part: nothing, the packet passed through or processed      *)
(* audio, which has the timestamp of a packet taken in before.             *)
(***************************************************************************)
Send(f, own, frames, r, restart) ==
    /\ floor' = Raised(f, own, frames, r)
    /\ sent' = [ends |-> IF restart \/ sent.frames = 0 THEN 0
                         ELSE sent.at + Duration(sent.frames, sent.rate),
                own |-> own, at |-> Adjusted(f, own), frames |-> frames,
                rate |-> r]

SendNothing(f, restart) ==
    /\ floor' = f
    /\ sent' = IF restart THEN NotSent ELSE sent

Outputs(f, stamp, frames, r, restart) ==
    \/ SendNothing(f, restart)
    \/ \E own \in Stamps : Send(f, own, frames, r, restart)

\* A format change starts a new timing epoch.
EpochAt(r)  == IF r = rate THEN guard ELSE ResetGuard(guard)
CallsAt(r)  == IF r = rate THEN measured ELSE <<>>

\* Processing was on and the packet was not passed through.
MeasuredCallback ==
    \E r \in Rates, stamp \in Stamps, frames \in Frames, ns \in Costs,
       hops \in Hops, event \in BOOLEAN :
         /\ reason = "None" /\ Len(CallsAt(r)) < MaxCalls
         /\ rate' = r
         /\ Measure(EpochAt(r), CallsAt(r), ns, hops, event)
         /\ Outputs(ObserveInput(floor, stamp), stamp, frames, r,
                    ClockWentBack(floor, stamp))

\* No model, no pair, processing off, or the packet passed through, maybe
\* with a failure that opens the circuit.
UnmeasuredCallback ==
    \E r \in Rates, stamp \in Stamps, frames \in Frames :
         /\ rate' = r
         /\ guard' = EpochAt(r) /\ measured' = CallsAt(r)
         /\ \/ UNCHANGED reason
            \/ reason = "None" /\ reason' = "RepeatedProcessingFailures"
         /\ \/ Send(ObserveInput(floor, stamp), stamp, frames, r,
                    ClockWentBack(floor, stamp))
            \/ /\ reason = "RealtimeOverload"
               /\ Outputs(ObserveInput(floor, stamp), stamp, frames, r,
                          ClockWentBack(floor, stamp))
         /\ UNCHANGED <<attempts, probeAudio, calm>>

(***************************************************************************)
(* The other sections under mutex_.                                        *)
(***************************************************************************)
\* Slip: the audio of the last probe counts for this one.
RetryKeepingProbeAudio ==
    /\ reason = "RealtimeOverload" /\ reason' = "None"
    /\ guard' = [ResetGuard(guard) EXCEPT !.probe = TRUE]
    /\ measured' = <<>> /\ calm' = 0
    /\ UNCHANGED <<rate, attempts, floor, sent, probeAudio>>

\* retry_after_overload
Retry ==
    /\ reason = "RealtimeOverload" /\ reason' = "None"
    /\ guard' = [ResetGuard(guard) EXCEPT !.probe = TRUE] /\ probeAudio' = 0
    /\ measured' = <<>> /\ calm' = 0
    /\ UNCHANGED <<rate, attempts, floor, sent>>

\* update() that installs a model, or reset_state()
StartOver ==
    /\ reason' = "None" /\ guard' = NewGuard
    /\ attempts' = 0 /\ probeAudio' = 0
    /\ measured' = <<>> /\ calm' = 0
    /\ UNCHANGED <<rate, floor, sent>>

\* update() or the worker installs a pair for this model
NewPair ==
    /\ guard' = ResetGuard(guard) /\ measured' = <<>>
    /\ UNCHANGED <<rate, reason, attempts, probeAudio, floor, calm, sent>>

\* reset_stream_boundary
StreamBoundary ==
    /\ guard' = ResetGuard(guard) /\ measured' = <<>>
    /\ floor' = NoFloor /\ sent' = NotSent
    /\ UNCHANGED <<rate, reason, attempts, probeAudio, calm>>

Next == \/ MeasuredCallback \/ UnmeasuredCallback
        \/ Retry \/ StartOver \/ NewPair \/ StreamBoundary

Spec == Init /\ [][Next]_vars

(***************************************************************************)
(* Properties.                                                             *)
(***************************************************************************)
\* Of the i-th to the j-th callback.
Late(calls, i, j)  == Total(calls, j).late - Total(calls, i - 1).late
Audio(calls, i, j) == Total(calls, j).audio - Total(calls, i - 1).audio

\* Behind all the time since the i-th call: no callback after it caught up.
BehindSince(calls, i) == \A j \in i .. Len(calls) : Late(calls, i, j) > 0

\* What the documented limits make of the callbacks themselves: the last one
\* is late, and for some time before it the filter was behind throughout, by
\* more than the limit and over enough audio.
IsOverload(calls, limit, audio) ==
    LET n == Len(calls)
    IN  \E i \in 1 .. n :
          /\ Late(calls, n, n) > 0
          /\ BehindSince(calls, i)
          /\ Late(calls, i, n) >= limit
          /\ Audio(calls, i, n) >= audio

Overload(calls, probe) ==
    IF probe THEN IsOverload(calls, ProbeMaxDebt, ProbeMinObserved)
    ELSE IsOverload(calls, MaxDebt, MinObserved)

\* The guard's numbers are in their ranges, in which sums end, not wrap.
TypeOK ==
    /\ rate \in Rates /\ reason \in Reasons /\ guard \in GuardType
    /\ attempts \in 0 .. LastDelay /\ probeAudio \in Ns
    /\ floor \in FloorType /\ Len(measured) <= MaxCalls

\* A pause is earned: the callbacks since the last reset of the guard amount
\* to an overload (realtime-guard.hpp:40, filter.cpp:566).
PauseEarned ==
    [][reason = "None" /\ reason' = "RealtimeOverload"
         => Overload(measured', guard.probe)]_vars

\* No overload goes unnoticed (realtime-guard.hpp:25-38).
OverloadNoticed == reason = "None" => ~Overload(measured, guard.probe)

\* The probe ends, and with it the back-off, only after so much audio since
\* the last retry, unless processing starts over (filter.cpp:587-592).
RecoveryEarned ==
    [][guard.probe /\ ~guard'.probe /\ Len(measured') > 0
         => calm' >= ProbeAudio]_vars

\* Outputs never overlap: each begins where the last one ended or later,
\* until the input's clock goes back (processor.cpp:297-315, filter.cpp:617).
NoOverlap == sent.at >= Min({sent.ends, LastStamp})

\* No output is held back by more than what was sent since the clock last
\* went back (processor.cpp:312).
NotHeldBack == sent.at <= Max({sent.own, sent.ends})
=============================================================================
