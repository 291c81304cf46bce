----------------------------- MODULE RingProofs -----------------------------
(***************************************************************************)
(* The ring is a queue: for every capacity, every position of the head and *)
(* every element type, each operation of Ring does to Contents what a      *)
(* queue does.  The unit tests of the repository try a few head positions; *)
(* ProcessorParts checks two rings as the processor uses them.             *)
(***************************************************************************)
EXTENDS Ring, SequenceTheorems, TLAPS

\* An index that has passed the end of the buffer at most once.
LEMMA WrapOnce ==
    ASSUME NEW c \in Nat \ {0}, NEW i \in Nat, i < 2 * c
    PROVE  i % c = IF i < c THEN i ELSE i - c
BY SMT

\* The slot of the i-th element of a queue.
LEMMA SlotOf ==
    ASSUME NEW T, NEW r, IsRing(r, T), NEW i \in 1 .. r.count
    PROVE  /\ (r.head + i - 1) % r.cap
                = IF r.head + i - 1 < r.cap THEN r.head + i - 1
                  ELSE r.head + i - 1 - r.cap
           /\ (r.head + i - 1) % r.cap \in 0 .. r.cap - 1
<1>1. /\ r.cap \in Nat \ {0} /\ r.head \in Nat /\ r.count \in Nat
      /\ r.head < r.cap /\ r.count <= r.cap
  BY DEF IsRing
<1>2. r.head + i - 1 \in Nat /\ r.head + i - 1 < 2 * r.cap
  BY <1>1
<1>3. \A c \in Nat \ {0} : \A j \in Nat :
         j < 2 * c => j % c = IF j < c THEN j ELSE j - c
  BY WrapOnce
<1>4. (r.head + i - 1) % r.cap
        = IF r.head + i - 1 < r.cap THEN r.head + i - 1
          ELSE r.head + i - 1 - r.cap
  BY <1>1, <1>2, <1>3
<1> QED
  BY <1>1, <1>2, <1>4

\* The contents are a sequence of elements, one for each that is counted.
LEMMA ContentsType ==
    ASSUME NEW T, NEW r, IsRing(r, T)
    PROVE  Contents(r) \in Seq(T) /\ Len(Contents(r)) = r.count
<1>1. r.count \in Nat /\ r.cap \in Nat /\ r.buf \in [0 .. r.cap - 1 -> T]
  BY DEF IsRing
<1>2. \A i \in 1 .. r.count : r.buf[(r.head + i - 1) % r.cap] \in T
  BY <1>1, SlotOf
<1> QED
  BY <1>1, <1>2 DEF Contents

\* peek copies out the first n elements of the queue, in order, also when
\* they wrap around the end of the buffer.
THEOREM PeekIsPrefix ==
    ASSUME NEW T, NEW r, IsRing(r, T), NEW n \in 0 .. r.count
    PROVE  Peek(r, n) = SubSeq(Contents(r), 1, n)
<1>1. /\ r.cap \in Nat /\ r.head \in Nat /\ r.count \in Nat /\ n \in Nat
      /\ r.count <= r.cap /\ (r.head < r.cap \/ r.head = 0)
  BY DEF IsRing
<1>2. SubSeq(Contents(r), 1, n) = [i \in 1 .. n |-> Contents(r)[i]]
  BY <1>1, ContentsType DEF Contents
<1>3. ASSUME NEW i \in 1 .. n
      PROVE  Contents(r)[i] = IF i <= AtMost(n, r.cap - r.head)
                              THEN r.buf[r.head + i - 1]
                              ELSE r.buf[i - AtMost(n, r.cap - r.head) - 1]
  <2>1. i \in 1 .. r.count
    BY <1>1
  <2>2. Contents(r)[i] = r.buf[(r.head + i - 1) % r.cap]
    BY <2>1 DEF Contents
  <2>3. (r.head + i - 1) % r.cap
          = IF r.head + i - 1 < r.cap THEN r.head + i - 1
            ELSE r.head + i - 1 - r.cap
    BY <2>1, SlotOf
  <2>4. CASE r.head + i - 1 < r.cap
    BY <1>1, <2>2, <2>3, <2>4 DEF AtMost
  <2>5. CASE ~(r.head + i - 1 < r.cap)
    BY <1>1, <2>2, <2>3, <2>5 DEF AtMost
  <2> QED
    BY <2>4, <2>5
<1> QED
  BY <1>2, <1>3 DEF Peek

(***************************************************************************)
(* Pushing.  A slot is free, written by the first copy, or by the second.  *)
(***************************************************************************)
LEMMA PushedSlot ==
    ASSUME NEW T, NEW r, IsRing(r, T), NEW src \in Seq(T),
           src # <<>>, Fits(r, Len(src)), NEW i \in 1 .. r.count + Len(src)
    PROVE  PushUnchecked(r, src).buf[(r.head + i - 1) % r.cap]
             = IF i <= r.count THEN r.buf[(r.head + i - 1) % r.cap]
               ELSE src[i - r.count]
<1>1. /\ r.cap \in Nat \ {0} /\ r.head \in Nat /\ r.count \in Nat
      /\ Len(src) \in Nat /\ r.count <= r.cap /\ r.head < r.cap
      /\ Len(src) > 0 /\ r.count + Len(src) <= r.cap
  BY EmptySeq DEF IsRing, Fits
<1> DEFINE tail  == (r.head + r.count) % r.cap
           first == AtMost(Len(src), r.cap - tail)
           slot  == (r.head + i - 1) % r.cap
<1>2. \A c \in Nat \ {0} : \A j \in Nat :
         j < 2 * c => j % c = IF j < c THEN j ELSE j - c
  BY WrapOnce
<1>3. tail = IF r.head + r.count < r.cap THEN r.head + r.count
             ELSE r.head + r.count - r.cap
  <2> DEFINE j == r.head + r.count
  <2>1. j \in Nat /\ j < 2 * r.cap
    BY <1>1
  <2>2. j % r.cap = IF j < r.cap THEN j ELSE j - r.cap
    <3> HIDE DEF j
    <3> QED
      BY <1>1, <1>2, <2>1
  <2> QED
    BY <1>1, <2>1, <2>2
<1>4. slot = IF r.head + i - 1 < r.cap THEN r.head + i - 1
             ELSE r.head + i - 1 - r.cap
  <2> DEFINE j == r.head + i - 1
  <2>1. j \in Nat /\ j < 2 * r.cap
    BY <1>1
  <2>2. j % r.cap = IF j < r.cap THEN j ELSE j - r.cap
    <3> HIDE DEF j
    <3> QED
      BY <1>1, <1>2, <2>1
  <2> QED
    BY <1>1, <2>1, <2>2
<1>5. first = IF Len(src) < r.cap - tail THEN Len(src) ELSE r.cap - tail
  BY DEF AtMost
<1>6. tail \in Int /\ slot \in Int /\ first \in Int
  <2>1. tail \in Int /\ slot \in Int
    BY <1>1, <1>3, <1>4
  <2> HIDE DEF tail, slot
  <2> QED
    BY <1>1, <1>5, <2>1
<1>7. PushUnchecked(r, src).buf
        = [j \in 0 .. r.cap - 1 |->
             IF tail <= j /\ j < tail + first THEN src[j - tail + 1]
             ELSE IF j < Len(src) - first THEN src[first + j + 1]
             ELSE r.buf[j]]
  BY DEF PushUnchecked, IsRing
<1> HIDE DEF tail, first, slot
<1>8. /\ tail \in 0 .. r.cap - 1 /\ slot \in 0 .. r.cap - 1
      /\ i <= r.count => /\ ~(tail <= slot /\ slot < tail + first)
                        /\ ~(slot < Len(src) - first)
      /\ i > r.count /\ tail <= slot =>
           /\ slot < tail + first /\ slot - tail + 1 = i - r.count
      /\ i > r.count /\ slot < tail =>
           /\ slot < Len(src) - first /\ first + slot + 1 = i - r.count
  <2> DEFINE c == r.cap   h == r.head   k == r.count   n == Len(src)
  <2>1. /\ c \in Nat /\ h \in Nat /\ k \in Nat /\ n \in Nat /\ i \in Nat
        /\ h < c /\ 0 < n /\ k + n <= c /\ 1 <= i /\ i <= k + n
    BY <1>1
  <2>2. /\ tail  = (IF h + k < c THEN h + k ELSE h + k - c)
        /\ slot  = (IF h + i - 1 < c THEN h + i - 1 ELSE h + i - 1 - c)
        /\ first = (IF n < c - tail THEN n ELSE c - tail)
    BY <1>3, <1>4, <1>5
  <2>3. /\ tail \in 0 .. c - 1 /\ slot \in 0 .. c - 1
        /\ i <= k => /\ ~(tail <= slot /\ slot < tail + first)
                    /\ ~(slot < n - first)
        /\ i > k /\ tail <= slot =>
             /\ slot < tail + first /\ slot - tail + 1 = i - k
        /\ i > k /\ slot < tail =>
             /\ slot < n - first /\ first + slot + 1 = i - k
    <3> HIDE DEF c, h, k, n
    <3> QED
      BY <1>6, <2>1, <2>2
  <2> QED
    BY <2>3
<1>9. PushUnchecked(r, src).buf[slot]
        = IF tail <= slot /\ slot < tail + first THEN src[slot - tail + 1]
          ELSE IF slot < Len(src) - first THEN src[first + slot + 1]
          ELSE r.buf[slot]
  BY <1>7, <1>8
<1>10. PushUnchecked(r, src).buf[slot]
         = IF i <= r.count THEN r.buf[slot] ELSE src[i - r.count]
  <2>1. CASE i <= r.count
    BY <1>8, <1>9, <2>1
  <2>2. CASE i > r.count /\ tail <= slot
    BY <1>1, <1>8, <1>9, <2>2
  <2>3. CASE i > r.count /\ slot < tail
    BY <1>1, <1>8, <1>9, <2>3
  <2> QED
    BY <1>1, <1>8, <2>1, <2>2, <2>3
<1> QED
  BY <1>10 DEF slot

\* push_unchecked appends what it is given to the queue, whatever is split by
\* the end of the buffer, as long as it fits.
THEOREM PushAppends ==
    ASSUME NEW T, NEW r, IsRing(r, T), NEW src \in Seq(T),
           src # <<>>, Fits(r, Len(src))
    PROVE  /\ IsRing(PushUnchecked(r, src), T)
           /\ Contents(PushUnchecked(r, src)) = Contents(r) \o src
<1> DEFINE q == PushUnchecked(r, src)
<1>1. /\ r.cap \in Nat \ {0} /\ r.head \in Nat /\ r.count \in Nat
      /\ Len(src) \in Nat /\ r.count + Len(src) <= r.cap /\ r.head < r.cap
      /\ r.buf \in [0 .. r.cap - 1 -> T]
      /\ r = [cap |-> r.cap, buf |-> r.buf, head |-> r.head, count |-> r.count]
  BY EmptySeq DEF IsRing, Fits
<1>2. /\ q.cap = r.cap /\ q.head = r.head /\ q.count = r.count + Len(src)
  BY <1>1 DEF PushUnchecked
<1>3. q.buf \in [0 .. r.cap - 1 -> T]
  <2> DEFINE tail  == (r.head + r.count) % r.cap
             first == AtMost(Len(src), r.cap - tail)
  <2>1. \A c \in Nat \ {0} : \A j \in Nat :
           j < 2 * c => j % c = IF j < c THEN j ELSE j - c
    BY WrapOnce
  <2>2. tail \in 0 .. r.cap - 1
    BY <1>1, <2>1
  <2>3. first \in 0 .. Len(src) /\ first <= r.cap - tail
    BY <1>1, <2>2 DEF AtMost
  <2>4. \A j \in 1 .. Len(src) : src[j] \in T
    OBVIOUS
  <2>5. q.buf = [i \in 0 .. r.cap - 1 |->
                   IF tail <= i /\ i < tail + first THEN src[i - tail + 1]
                   ELSE IF i < Len(src) - first THEN src[first + i + 1]
                   ELSE r.buf[i]]
    BY <1>1 DEF PushUnchecked
  <2> HIDE DEF tail, first, q
  <2>6. ASSUME NEW i \in 0 .. r.cap - 1
        PROVE  (IF tail <= i /\ i < tail + first THEN src[i - tail + 1]
                ELSE IF i < Len(src) - first THEN src[first + i + 1]
                ELSE r.buf[i]) \in T
    <3>1. CASE tail <= i /\ i < tail + first
      BY <1>1, <2>2, <2>3, <2>4, <3>1
    <3>2. CASE ~(tail <= i /\ i < tail + first) /\ i < Len(src) - first
      BY <1>1, <2>2, <2>3, <2>4, <3>2
    <3>3. CASE ~(tail <= i /\ i < tail + first) /\ ~(i < Len(src) - first)
      BY <1>1, <3>3
    <3> QED
      BY <3>1, <3>2, <3>3
  <2> QED
    BY <2>5, <2>6
<1>4. IsRing(q, T)
  <2>2. PICK b, n : q = [r EXCEPT !.count = n, !.buf = b]
    BY DEF PushUnchecked
  <2> HIDE DEF q
  <2>1. q = [cap |-> q.cap, buf |-> q.buf, head |-> q.head, count |-> q.count]
    <3>1. q = [cap |-> r.cap, buf |-> b, head |-> r.head, count |-> n]
      BY <1>1, <2>2
    <3> QED
      BY <3>1
  <2> QED
    BY <1>1, <1>2, <1>3, <2>1 DEF IsRing
<1>5. Contents(q) = Contents(r) \o src
  <2>1. /\ Contents(q) \in Seq(T) /\ Len(Contents(q)) = r.count + Len(src)
        /\ \A i \in 1 .. r.count + Len(src) :
              Contents(q)[i] = q.buf[(r.head + i - 1) % r.cap]
    BY <1>2, <1>4, ContentsType DEF Contents
  <2>2. /\ Contents(r) \in Seq(T) /\ Len(Contents(r)) = r.count
        /\ \A i \in 1 .. r.count :
              Contents(r)[i] = r.buf[(r.head + i - 1) % r.cap]
    BY ContentsType DEF Contents
  <2>3. \A i \in 1 .. r.count + Len(src) :
           q.buf[(r.head + i - 1) % r.cap]
             = IF i <= r.count THEN r.buf[(r.head + i - 1) % r.cap]
               ELSE src[i - r.count]
    BY PushedSlot
  <2>4. /\ Contents(r) \o src \in Seq(T)
        /\ Len(Contents(r) \o src) = r.count + Len(src)
        /\ \A i \in 1 .. r.count + Len(src) :
             (Contents(r) \o src)[i] = IF i <= r.count THEN Contents(r)[i]
                                       ELSE src[i - r.count]
    BY <2>2, ConcatProperties
  <2> HIDE DEF q
  <2>5. ASSUME NEW i \in 1 .. r.count + Len(src)
        PROVE  Contents(q)[i] = (Contents(r) \o src)[i]
    <3>1. CASE i <= r.count
      <4>1. i \in 1 .. r.count
        BY <1>1, <3>1
      <4> QED
        BY <2>1, <2>2, <2>3, <2>4, <3>1, <4>1
    <3>2. CASE ~(i <= r.count)
      BY <2>1, <2>3, <2>4, <3>2
    <3> QED
      BY <3>1, <3>2
  <2> QED
    BY <2>1, <2>4, <2>5, SeqEqual
<1> QED
  BY <1>4, <1>5

\* try_push takes everything or leaves the queue as it is.
THEOREM TryPushIsAllOrNothing ==
    ASSUME NEW T, NEW r, IsRing(r, T), NEW src \in Seq(T)
    PROVE  /\ IsRing(TryPush(r, src), T)
           /\ Contents(TryPush(r, src))
                = IF Len(src) <= r.cap - r.count THEN Contents(r) \o src
                  ELSE Contents(r)
<1>1. CASE src = <<>>
  <2>1. TryPush(r, src) = r
    BY <1>1 DEF TryPush
  <2>2. Contents(r) \o src = Contents(r)
    BY <1>1, ContentsType, ConcatEmptySeq
  <2> QED
    BY <2>1, <2>2
<1>2. CASE src # <<>> /\ Fits(r, Len(src))
  BY <1>2, PushAppends DEF TryPush, Fits
<1>3. CASE ~Fits(r, Len(src))
  BY <1>3 DEF TryPush, Fits
<1> QED
  BY <1>1, <1>2, <1>3

\* pop drops the first n elements, wherever that leaves the head.
THEOREM PopDrops ==
    ASSUME NEW T, NEW r, IsRing(r, T), r.cap > 0, NEW n \in 0 .. r.count
    PROVE  /\ IsRing(Pop(r, n), T)
           /\ Contents(Pop(r, n)) = SubSeq(Contents(r), n + 1, r.count)
<1> DEFINE q == Pop(r, n)
<1>1. /\ r.cap \in Nat \ {0} /\ r.head \in Nat /\ r.count \in Nat /\ n \in Nat
      /\ n <= r.count /\ r.count <= r.cap /\ r.head < r.cap
      /\ r.buf \in [0 .. r.cap - 1 -> T]
      /\ r = [cap |-> r.cap, buf |-> r.buf, head |-> r.head, count |-> r.count]
  BY DEF IsRing
<1>2. \A c \in Nat \ {0} : \A j \in Nat :
         j < 2 * c => j % c = IF j < c THEN j ELSE j - c
  BY WrapOnce
<1>3. q = [cap |-> r.cap, buf |-> r.buf, head |-> (r.head + n) % r.cap,
           count |-> r.count - n]
  <2>1. PICK h, k : /\ q = [r EXCEPT !.head = h, !.count = k]
                    /\ h = (r.head + n) % r.cap /\ k = r.count - n
    BY DEF Pop
  <2> HIDE DEF q
  <2>2. q = [cap |-> r.cap, buf |-> r.buf, head |-> h, count |-> k]
    BY <1>1, <2>1
  <2> QED
    BY <2>1, <2>2
<1>4. (r.head + n) % r.cap
        = IF r.head + n < r.cap THEN r.head + n ELSE r.head + n - r.cap
  <2> DEFINE j == r.head + n
  <2>1. j \in Nat /\ j < 2 * r.cap
    BY <1>1
  <2>2. j % r.cap = IF j < r.cap THEN j ELSE j - r.cap
    <3> HIDE DEF j
    <3> QED
      BY <1>1, <1>2, <2>1
  <2> QED
    BY <1>1, <2>1, <2>2
<1> HIDE DEF q
<1>5. /\ q.cap = r.cap /\ q.buf = r.buf /\ q.count = r.count - n
      /\ q.head = IF r.head + n < r.cap THEN r.head + n
                  ELSE r.head + n - r.cap
  BY <1>3, <1>4
<1>6. IsRing(q, T)
  <2>1. q = [cap |-> q.cap, buf |-> q.buf, head |-> q.head, count |-> q.count]
    BY <1>3
  <2> QED
    BY <1>1, <1>5, <2>1 DEF IsRing
<1>7. Contents(q) = SubSeq(Contents(r), n + 1, r.count)
  <2>1. Contents(r) \in Seq(T) /\ Len(Contents(r)) = r.count
    BY ContentsType
  <2>2. Contents(q) \in Seq(T) /\ Len(Contents(q)) = r.count - n
    BY <1>5, <1>6, ContentsType
  <2>3. /\ SubSeq(Contents(r), n + 1, r.count) \in Seq(T)
        /\ Len(SubSeq(Contents(r), n + 1, r.count)) = r.count - n
        /\ \A i \in 1 .. r.count - n :
             SubSeq(Contents(r), n + 1, r.count)[i] = Contents(r)[n + i]
    <3> DEFINE front == Contents(r)
    <3> HIDE DEF front
    <3>1. front \in Seq(T) /\ Len(front) = r.count
      BY <2>1 DEF front
    <3>2. /\ SubSeq(front, n + 1, r.count) \in Seq(T)
          /\ Len(SubSeq(front, n + 1, r.count)) = r.count - n
          /\ \A i \in 1 .. r.count - n :
               SubSeq(front, n + 1, r.count)[i] = front[n + i]
      BY <1>1, <3>1
    <3> QED
      BY <3>2 DEF front
  <2>4. ASSUME NEW i \in 1 .. r.count - n
        PROVE  Contents(q)[i] = SubSeq(Contents(r), n + 1, r.count)[i]
    <3>1. i \in 1 .. q.count /\ n + i \in 1 .. r.count
      BY <1>1, <1>5
    <3>2. /\ Contents(q)[i] = r.buf[(q.head + i - 1) % r.cap]
          /\ Contents(r)[n + i] = r.buf[(r.head + (n + i) - 1) % r.cap]
      BY <1>5, <3>1 DEF Contents
    <3>3. (q.head + i - 1) % r.cap
            = IF q.head + i - 1 < r.cap THEN q.head + i - 1
              ELSE q.head + i - 1 - r.cap
      BY <1>5, <1>6, <3>1, SlotOf
    <3>4. (r.head + (n + i) - 1) % r.cap
            = IF r.head + (n + i) - 1 < r.cap THEN r.head + (n + i) - 1
              ELSE r.head + (n + i) - 1 - r.cap
      BY <3>1, SlotOf
    <3>5. (q.head + i - 1) % r.cap = (r.head + (n + i) - 1) % r.cap
      <4> DEFINE left  == (q.head + i - 1) % r.cap
                 right == (r.head + (n + i) - 1) % r.cap
      <4>1. /\ left  = IF q.head + i - 1 < r.cap THEN q.head + i - 1
                       ELSE q.head + i - 1 - r.cap
            /\ right = IF r.head + (n + i) - 1 < r.cap
                       THEN r.head + (n + i) - 1
                       ELSE r.head + (n + i) - 1 - r.cap
        BY <3>3, <3>4
      <4> HIDE DEF left, right
      <4>2. left = right
        BY <1>1, <1>5, <3>1, <4>1
      <4> QED
        BY <4>2 DEF left, right
    <3> QED
      BY <2>3, <3>2, <3>5
  <2> QED
    BY <2>2, <2>3, <2>4, SeqEqual
<1> QED
  BY <1>6, <1>7 DEF q

\* reserve keeps what is queued, in order, wherever the head was.
THEOREM ReserveKeeps ==
    ASSUME NEW T, NEW r, IsRing(r, T), NEW cap \in Nat, NEW blank \in T
    PROVE  /\ IsRing(Reserve(r, cap, blank), T)
           /\ Contents(Reserve(r, cap, blank)) = Contents(r)
           /\ cap <= Reserve(r, cap, blank).cap
<1>1. /\ r.cap \in Nat /\ r.count \in Nat /\ r.count <= r.cap
      /\ r = [cap |-> r.cap, buf |-> r.buf, head |-> r.head, count |-> r.count]
  BY DEF IsRing
<1>2. CASE cap <= r.cap
  BY <1>2 DEF Reserve
<1>3. CASE r.cap < cap
  <2> DEFINE q == Reserve(r, cap, blank)
             queued == Peek(r, r.count)
  <2>1. queued = Contents(r)
    <3>1. queued = SubSeq(Contents(r), 1, r.count)
      BY <1>1, PeekIsPrefix
    <3>2. Contents(r) \in Seq(T) /\ Len(Contents(r)) = r.count
      BY ContentsType
    <3> QED
      BY <3>1, <3>2
  <2>2. queued \in Seq(T) /\ Len(queued) = r.count
    BY <2>1, ContentsType
  <2>3. q = [cap |-> cap, head |-> 0, count |-> r.count,
             buf |-> [i \in 0 .. cap - 1 |->
                        IF i < r.count THEN queued[i + 1] ELSE blank]]
    <3>1. PICK b : /\ q = [r EXCEPT !.cap = cap, !.head = 0, !.buf = b]
                   /\ b = [i \in 0 .. cap - 1 |->
                             IF i < r.count THEN queued[i + 1] ELSE blank]
      <4>1. ~(cap <= r.cap)
        BY <1>1, <1>3
      <4>2. q = [r EXCEPT !.cap = cap, !.head = 0,
                          !.buf = [i \in 0 .. cap - 1 |->
                                     IF i < r.count THEN queued[i + 1]
                                     ELSE blank]]
        BY <4>1, Zenon DEF Reserve
      <4> HIDE DEF q, queued
      <4> QED
        BY <4>2
    <3> HIDE DEF q, queued
    <3>2. q = [cap |-> cap, buf |-> b, head |-> 0, count |-> r.count]
      BY <1>1, <3>1
    <3> QED
      BY <3>1, <3>2
  <2> HIDE DEF q, queued
  <2>4. /\ q.cap = cap /\ q.head = 0 /\ q.count = r.count
        /\ q.buf = [i \in 0 .. cap - 1 |->
                      IF i < r.count THEN queued[i + 1] ELSE blank]
        /\ q = [cap |-> q.cap, buf |-> q.buf, head |-> q.head,
                count |-> q.count]
    BY <2>3
  <2>5. q.buf \in [0 .. cap - 1 -> T]
    <3>1. \A i \in 0 .. cap - 1 : i < r.count => queued[i + 1] \in T
      BY <1>1, <2>2
    <3> QED
      BY <2>4, <3>1
  <2>6. IsRing(q, T)
    BY <1>1, <1>3, <2>4, <2>5 DEF IsRing
  <2>7. Contents(q) = queued
    <3>1. Contents(q) \in Seq(T) /\ Len(Contents(q)) = r.count
      BY <2>4, <2>6, ContentsType
    <3>2. ASSUME NEW i \in 1 .. r.count
          PROVE  Contents(q)[i] = queued[i]
      <4>1. Contents(q)[i] = q.buf[(q.head + i - 1) % q.cap]
        BY <2>4 DEF Contents
      <4>2. (q.head + i - 1) % q.cap = i - 1
        BY <1>1, <1>3, <2>4, <2>6, SlotOf
      <4> QED
        BY <1>1, <1>3, <2>4, <4>1, <4>2
    <3> QED
      BY <2>2, <3>1, <3>2, SeqEqual
  <2> QED
    BY <1>3, <2>1, <2>4, <2>6, <2>7 DEF q
<1> QED
  BY <1>1, <1>2, <1>3

\* push always finds room.
THEOREM PushGrows ==
    ASSUME NEW T, NEW r, IsRing(r, T), NEW src \in Seq(T), NEW blank \in T
    PROVE  /\ IsRing(Push(r, src, blank), T)
           /\ Contents(Push(r, src, blank)) = Contents(r) \o src
<1>1. r.cap \in Nat /\ r.count \in Nat /\ r.count <= r.cap /\ Len(src) \in Nat
  BY DEF IsRing
<1>2. CASE src = <<>>
  <2>1. Contents(r) \o src = Contents(r)
    BY <1>2, ContentsType, ConcatEmptySeq
  <2> QED
    BY <1>2, <2>1 DEF Push
<1>3. CASE src # <<>> /\ r.count + Len(src) <= r.cap
  <2>1. Fits(r, Len(src))
    BY <1>1, <1>3 DEF Fits
  <2> QED
    BY <1>3, <2>1, PushAppends DEF Push
<1>4. CASE src # <<>> /\ ~(r.count + Len(src) <= r.cap)
  <2> DEFINE need == r.count + Len(src)
             more == r.cap * 2 + 64
             cap  == IF need < more THEN more ELSE need
             q    == Reserve(r, cap, blank)
  <2>1. cap \in Nat /\ need <= cap
    BY <1>1
  <2>2. IsRing(q, T) /\ Contents(q) = Contents(r) /\ cap <= q.cap
    <3> HIDE DEF cap
    <3> QED
      BY <2>1, ReserveKeeps
  <2>3. q.count = r.count
    <3>1. /\ Len(Contents(q)) = q.count
          /\ Len(Contents(r)) = r.count
      BY <2>2, ContentsType
    <3> QED
      BY <2>2, <3>1
  <2>4. Push(r, src, blank) = PushUnchecked(q, src)
    BY <1>4 DEF Push
  <2>5. Fits(q, Len(src))
    <3>1. q.cap \in Nat
      BY <2>2 DEF IsRing
    <3> HIDE DEF q, cap
    <3> QED
      BY <1>1, <2>1, <2>2, <2>3, <3>1 DEF Fits
  <2> QED
    BY <1>4, <2>2, <2>4, <2>5, PushAppends
<1> QED
  BY <1>2, <1>3, <1>4
=============================================================================
