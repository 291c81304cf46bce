--------------------------- MODULE RealtimeGuard ---------------------------
(***************************************************************************)
(* DpdfnetRealtimeBudgetGuard and DpdfnetOverloadRetrySchedule             *)
(* (src/src/dpdfnet-realtime-guard.hpp): the debt that slow callbacks run  *)
(* up against the audio they process, and when it is too much.  Times are  *)
(* nanoseconds in unsigned integers that end at MaxNs.                     *)
(***************************************************************************)
EXTENDS Naturals

CONSTANTS MaxNs,             \* the largest uint64_t
          NsPerSecond,
          MaxDebt,           \* MAX_DEBT_NS
          MinObserved,       \* MIN_OBSERVED_AUDIO_NS
          ProbeMaxDebt,      \* PROBE_MAX_DEBT_NS
          ProbeMinObserved,  \* PROBE_MIN_OBSERVED_AUDIO_NS
          LastDelay          \* DELAYS_NS.size()

ASSUME GuardAssumption ==
    /\ {MaxDebt, MinObserved, ProbeMaxDebt, ProbeMinObserved}
         \subseteq 1 .. MaxNs
    /\ ProbeMaxDebt <= MaxDebt /\ ProbeMinObserved <= MinObserved
    /\ MaxNs \in Nat /\ NsPerSecond \in 1 .. MaxNs /\ LastDelay \in Nat \ {0}

Ns == 0 .. MaxNs

\* debt_ns_, observed_audio_ns_ and probe_
GuardType == [debt : Ns, observed : Ns, probe : BOOLEAN]

NewGuard == [debt |-> 0, observed |-> 0, probe |-> FALSE]

ResetGuard(g) == [g EXCEPT !.debt = 0, !.observed = 0]

\* Slip: the sum wraps.
WrappingAdd(a, b) == (a + b) % (MaxNs + 1)

SaturatingAdd(a, b) == IF b > MaxNs - a THEN MaxNs ELSE a + b

\* audio_budget_ns
AudioBudget(hops, hop, rate) ==
    IF 0 \in {hops, hop, rate} THEN 0
    ELSE LET frames  == IF hops > MaxNs \div hop THEN MaxNs ELSE hops * hop
             seconds == frames \div rate
         IN IF seconds > MaxNs \div NsPerSecond THEN MaxNs
            ELSE SaturatingAdd(seconds * NsPerSecond,
                               ((frames % rate) * NsPerSecond) \div rate)

NewDebt(g, ns, budget) ==
    IF ns > budget THEN SaturatingAdd(g.debt, ns - budget)
    ELSE IF budget - ns >= g.debt THEN 0
    ELSE g.debt - (budget - ns)

\* Slip: audio is counted since the guard was reset, debt or not.
ObservedAlways(g, ns, budget) ==
    [g EXCEPT !.debt = NewDebt(g, ns, budget),
              !.observed = SaturatingAdd(@, budget)]

\* What observe() leaves of the guard.
Observed(g, ns, budget) ==
    IF budget = 0 THEN g
    ELSE [g EXCEPT !.debt = NewDebt(g, ns, budget),
                   !.observed = IF NewDebt(g, ns, budget) = 0 THEN 0
                                ELSE SaturatingAdd(@, budget)]

\* tripped
Trips(g, ns, budget) ==
    LET after == Observed(g, ns, budget)
    IN /\ budget > 0 /\ ns > budget
       /\ after.debt >= IF g.probe THEN ProbeMaxDebt ELSE MaxDebt
       /\ after.observed >= IF g.probe THEN ProbeMinObserved ELSE MinObserved

\* Slip: the attempts run past the last delay.
NextAttemptUncapped(attempts) == attempts + 1

\* Attempts beyond the last delay make no difference.
NextAttempt(attempts) == IF attempts < LastDelay THEN attempts + 1
                         ELSE LastDelay
=============================================================================
