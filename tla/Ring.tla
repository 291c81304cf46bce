-------------------------------- MODULE Ring --------------------------------
(***************************************************************************)
(* Ring<T> (src/src/ring.hpp): a first-in first-out queue in a contiguous  *)
(* buffer that wraps around.  A ring is a record; cap is buf_.size(), and  *)
(* the buffer is indexed from zero as in the code.                         *)
(***************************************************************************)
EXTENDS Integers, Sequences

IsRing(r, T) ==
    /\ r = [cap |-> r.cap, buf |-> r.buf, head |-> r.head, count |-> r.count]
    /\ r.cap \in Nat /\ r.buf \in [0 .. r.cap - 1 -> T]
    /\ r.head \in Nat /\ (r.head < r.cap \/ r.head = 0)
    /\ r.count \in 0 .. r.cap

\* What a reader of the queue would list, from the front.
Contents(r) == [i \in 1 .. r.count |-> r.buf[(r.head + i - 1) % r.cap]]

NewRing == [cap |-> 0, buf |-> [i \in {} |-> 0], head |-> 0, count |-> 0]

AtMost(n, room) == IF n < room THEN n ELSE room

\* peek: up to the end of the buffer, and the rest from its start.
Peek(r, n) ==
    LET first == AtMost(n, r.cap - r.head)
    IN  [i \in 1 .. n |-> IF i <= first THEN r.buf[r.head + i - 1]
                                        ELSE r.buf[i - first - 1]]

Front(r) == r.buf[r.head]

\* reserve: a larger buffer starts with what was queued, in order.
Reserve(r, cap, blank) ==
    IF cap <= r.cap THEN r
    ELSE LET queued == Peek(r, r.count)
         IN  [r EXCEPT !.cap = cap, !.head = 0,
                       !.buf = [i \in 0 .. cap - 1 |->
                                   IF i < r.count THEN queued[i + 1]
                                                  ELSE blank]]

Clear(r) == [r EXCEPT !.head = 0, !.count = 0]

\* Slip: what does not fit before the end overwrites the front of the source.
PushRestartingSource(r, src) ==
    LET tail  == (r.head + r.count) % r.cap
        first == AtMost(Len(src), r.cap - tail)
    IN  [r EXCEPT
           !.count = r.count + Len(src),
           !.buf = [i \in 0 .. r.cap - 1 |->
                      IF tail <= i /\ i < tail + first THEN src[i - tail + 1]
                      ELSE IF i < Len(src) - first THEN src[i + 1]
                      ELSE r.buf[i]]]

\* push_unchecked: two copies, the second one to the start of the buffer.
PushUnchecked(r, src) ==
    LET tail  == (r.head + r.count) % r.cap
        first == AtMost(Len(src), r.cap - tail)
    IN  [r EXCEPT
           !.count = r.count + Len(src),
           !.buf = [i \in 0 .. r.cap - 1 |->
                      IF tail <= i /\ i < tail + first THEN src[i - tail + 1]
                      ELSE IF i < Len(src) - first THEN src[first + i + 1]
                      ELSE r.buf[i]]]

Fits(r, n) == n <= r.cap - r.count

\* try_push, which leaves a ring alone when it returns false.
TryPush(r, src) ==
    IF Fits(r, Len(src)) /\ src # <<>> THEN PushUnchecked(r, src) ELSE r

\* push grows the buffer first.
Push(r, src, blank) ==
    LET need == r.count + Len(src)
        more == r.cap * 2 + 64
    IN  IF src = <<>> THEN r
        ELSE IF need <= r.cap THEN PushUnchecked(r, src)
        ELSE PushUnchecked(
                Reserve(r, IF need < more THEN more ELSE need, blank), src)

Pop(r, n) == [r EXCEPT !.head = (r.head + n) % r.cap, !.count = r.count - n]
=============================================================================
