--------------------------- MODULE TimestampFloor ---------------------------
(***************************************************************************)
(* DpdfnetTimestampFloor (src/src/dpdfnet-processor.cpp): no packet is     *)
(* sent out with a timestamp before the end of the last one, until the     *)
(* input's clock goes back.                                                *)
(***************************************************************************)
EXTENDS Naturals

LOCAL INSTANCE FiniteSetsExt

CONSTANTS LastStamp,      \* the largest uint64_t
          StampsPerSecond

ASSUME FloorAssumption == LastStamp \in Nat /\ StampsPerSecond \in Nat

\* next_timestamp_, last_input_timestamp_ and have_input_timestamp_
FloorType == [next : 0 .. LastStamp, input : 0 .. LastStamp, have : BOOLEAN]

NoFloor == [next |-> 0, input |-> 0, have |-> FALSE]

ClockWentBack(f, stamp) == f.have /\ stamp < f.input

\* Slip: the floor outlives a jump back.
ObserveInputKeepingFloor(f, stamp) ==
    [f EXCEPT !.input = stamp, !.have = TRUE]

ObserveInput(f, stamp) ==
    [next |-> IF ClockWentBack(f, stamp) THEN 0 ELSE f.next,
     input |-> stamp, have |-> TRUE]

\* Truncated to whole time units.
Duration(frames, rate) == (frames * StampsPerSecond) \div rate

\* The timestamp that apply() returns, and the floor it leaves.
Adjusted(f, stamp) == Max({stamp, f.next})

\* Slip: the end of the packet wraps.
RaisedWrapping(f, stamp, frames, rate) ==
    [f EXCEPT !.next = (Adjusted(f, stamp) + Duration(frames, rate))
                         % (LastStamp + 1)]

Raised(f, stamp, frames, rate) ==
    [f EXCEPT !.next = Min({LastStamp,
                            Adjusted(f, stamp) + Duration(frames, rate)})]
=============================================================================
