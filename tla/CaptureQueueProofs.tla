------------------------ MODULE CaptureQueueProofs ------------------------
(***************************************************************************)
(* CaptureQueue keeps its safety properties for every capacity, header     *)
(* size, set of sample sizes and number of records and sessions.           *)
(*                                                                         *)
(* The argument gives every byte an absolute position: record i starts at  *)
(* accepted[i].at, one past the end of record i-1.  head, tail and used    *)
(* are these positions modulo the capacity, so two unread bytes share a    *)
(* cell only if they are a whole lap apart, which the space check of       *)
(* capture_queue_push excludes.                                            *)
(*                                                                         *)
(* From the same invariant, every step is a step of LossyQueue or leaves   *)
(* what LossyQueue sees alone: the queue implements LossyQueue.            *)
(***************************************************************************)
EXTENDS CaptureQueue, SequenceTheorems, TLAPS

-----------------------------------------------------------------------------
(* Facts about % that the index arithmetic of the ring rests on. *)

\* Quotient and remainder, as the provers need them: both are naturals and
\* n splits into them.
LEMMA DivMod ==
    ASSUME NEW n \in Nat, NEW C \in Nat \ {0}
    PROVE  /\ n \div C \in Nat
           /\ n % C \in 0..C-1
           /\ n = C * (n \div C) + (n % C)
OBVIOUS

\* A multiple of C strictly between -C and C is 0.
LEMMA SmallMultiple ==
    ASSUME NEW d \in Int, NEW C \in Nat \ {0}, -C < C * d, C * d < C
    PROVE  d = 0
<1>1. CASE d >= 1
  <2>1. C * d >= C
    BY <1>1, SMT
  <2>. QED
    BY <2>1
<1>2. CASE d <= -1
  <2>1. C * d <= -C
    BY <1>2, SMT
  <2>. QED
    BY <2>1
<1>. QED
  BY <1>1, <1>2

\* Multiplication distributes over sums and differences.
LEMMA Distribute ==
    ASSUME NEW a \in Int, NEW b \in Int, NEW C \in Int
    PROVE  C * (a - b) = C * a - C * b /\ C * (a + b) = C * a + C * b
OBVIOUS

\* The remainder is determined by any decomposition.
LEMMA ModUnique ==
    ASSUME NEW n \in Nat, NEW C \in Nat \ {0}, NEW q \in Int,
           NEW r \in 0..C-1, n = C * q + r
    PROVE  n % C = r
<1>. DEFINE p == n \div C
            s == n % C
<1>1. p \in Nat /\ s \in 0..C-1 /\ n = C * p + s
  BY DivMod
<1>. HIDE DEF p, s
<1>2. C * (p - q) = C * p - C * q
  BY <1>1, Distribute
<1>3. -C < C * (p - q) /\ C * (p - q) < C
  <2>1. C * p \in Int /\ C * q \in Int
    BY <1>1
  <2>2. C * p - C * q = r - s
    BY <1>1, <2>1
  <2>. QED
    BY <2>2, <1>2, <1>1
<1>4. p - q = 0
  BY <1>1, <1>3, SmallMultiple
<1>5. p = q
  BY <1>1, <1>4
<1>. QED
  BY <1>1, <1>5 DEF s

\* Two positions less than C apart with the same remainder are the same.
LEMMA ModInjective ==
    ASSUME NEW n \in Nat, NEW m \in Nat, NEW C \in Nat \ {0},
           n <= m, m - n < C, n % C = m % C
    PROVE  n = m
<1>. DEFINE p == n \div C
            q == m \div C
            s == n % C
<1>1. p \in Nat /\ s \in 0..C-1 /\ n = C * p + s
  BY DivMod
<1>2. q \in Nat /\ m = C * q + s
  BY DivMod
<1>. HIDE DEF p, q, s
<1>3. C * (q - p) = C * q - C * p
  BY <1>1, <1>2, Distribute
<1>4. C * p \in Int /\ C * q \in Int
  BY <1>1, <1>2
<1>5. m - n = C * (q - p)
  BY <1>1, <1>2, <1>3, <1>4
<1>6. q - p = 0
  BY <1>1, <1>2, <1>5, SmallMultiple
<1>. QED
  BY <1>1, <1>2, <1>6, q = p

\* Reducing before or after an addition is the same.
LEMMA ModAdd ==
    ASSUME NEW n \in Nat, NEW k \in Nat, NEW C \in Nat \ {0}
    PROVE  ((n % C) + k) % C = (n + k) % C
<1>. DEFINE r == n % C
            p == n \div C
            q == (r + k) \div C
            s == (r + k) % C
<1>1. p \in Nat /\ r \in 0..C-1 /\ n = C * p + r
  BY DivMod
<1>. HIDE DEF p, r
<1>2. q \in Nat /\ s \in 0..C-1 /\ r + k = C * q + s
  <2>1. r + k \in Nat
    BY <1>1
  <2>. QED
    BY <2>1, DivMod
<1>. HIDE DEF q, s
<1>3. C * (p + q) = C * p + C * q
  BY <1>1, <1>2, Distribute
<1>4. C * p \in Int /\ C * q \in Int
  BY <1>1, <1>2
<1>5. n + k = C * (p + q) + s
  BY <1>1, <1>2, <1>3, <1>4
<1>6. (n + k) % C = s
  <2>1. n + k \in Nat /\ p + q \in Int
    BY <1>1, <1>2
  <2>. QED
    BY <2>1, <1>2, <1>5, ModUnique
<1>. QED
  BY <1>6 DEF s, r

\* An index within one lap of a reduced position: it is either before the
\* end of the ring, or wraps once.
LEMMA ModStep ==
    ASSUME NEW n \in Nat, NEW k \in Nat, NEW C \in Nat \ {0}, k < C
    PROVE  (n + k) % C = IF (n % C) + k < C THEN (n % C) + k
                                            ELSE (n % C) + k - C
<1>. DEFINE r == n % C
<1>1. r \in 0..C-1
  BY DivMod
<1>2. (n + k) % C = (r + k) % C
  BY ModAdd
<1>. HIDE DEF r
<1>3. (r + k) % C = IF r + k < C THEN r + k ELSE r + k - C
  <2>1. CASE r + k < C
    <3>1. r + k \in Nat /\ r + k = C * 0 + (r + k) /\ r + k \in 0..C-1
      BY <1>1, <2>1
    <3>. QED
      BY <3>1, <2>1, ModUnique
  <2>2. CASE r + k >= C
    <3>1. r + k \in Nat /\ r + k = C * 1 + (r + k - C) /\ r + k - C \in 0..C-1
      BY <1>1, <2>2
    <3>. QED
      BY <3>1, <2>2, <1>1, ModUnique
  <2>. QED
    BY <2>1, <2>2, <1>1
<1>. QED
  BY <1>2, <1>3 DEF r

-----------------------------------------------------------------------------

FrameLen(rec) == HeaderSize + rec.size

\* The position of the first byte not yet taken.
ReadPos == IF Taken < Len(accepted) THEN accepted[Taken + 1].at ELSE Written

\* Events and losses accepted before record i.
CountBefore(i) == IF i <= Len(accepted) THEN accepted[i].before ELSE AcceptedCount

\* Accepted records are laid end to end, and their counts add up.
InvLayout ==
    /\ \A i \in 1..Len(accepted) :
           accepted[i].at + FrameLen(accepted[i].rec) <= Written
    /\ \A i, j \in 1..Len(accepted) :
           i < j => accepted[i].at + FrameLen(accepted[i].rec) <= accepted[j].at
    /\ \A i \in 1..Len(accepted) - 1 :
           /\ accepted[i + 1].at = accepted[i].at + FrameLen(accepted[i].rec)
           /\ accepted[i + 1].before = AddTo(accepted[i].before, accepted[i].rec)
    /\ Len(accepted) > 0 => accepted[1].before = NoCount /\ accepted[1].at = 0

InvUnread ==
    \A i \in Taken + 1..Len(accepted) :
        \A k \in 0..FrameLen(accepted[i].rec) - 1 :
            ring[(accepted[i].at + k) % capacity] = [rec |-> accepted[i].rec, k |-> k]

InvRing ==
    /\ Taken <= Len(accepted)
    /\ ~data => Taken = Len(accepted)
    /\ data => /\ capacity > HeaderSize
               /\ head = Written % capacity
               /\ tail = ReadPos % capacity
               /\ used = Written - ReadPos
               /\ InvUnread

InvExport ==
    /\ exported \in Seq({Frame(rec) : rec \in Records})
    /\ \A i \in 1..Len(exported) : exported[i] = Frame(accepted[i].rec)
    /\ worker = "exporting" =>
           /\ record = accepted[Len(exported) + 1].rec
           /\ sample = SampleBytes(record)

InvCounts ==
    /\ delivered = CountBefore(Len(exported) + 1)
    /\ offered.events = AcceptedCount.events + dropped
    /\ offered.lost = AcceptedCount.lost + kernel_lost

InvControl ==
    /\ worker # "none" <=> data
    /\ producer # "off" <=> data
    /\ data => (stopping <=> producer = "joining")
    /\ worker = "waiting" => used = 0 /\ ~stopping /\ ~tick
    /\ worker = "ticking" /\ saw_stopping => used = 0 /\ stopping
    /\ worker \in {"report_lost", "report_dropped", "exited"} => used = 0 /\ stopping
    /\ worker \in {"report_dropped", "exited"} => told.lost = kernel_lost
    /\ worker = "exited" => told.events = dropped

IInv == TypeOK /\ InvLayout /\ InvRing /\ InvExport /\ InvCounts /\ InvControl

---------------------------------------------------------------------------
(* The two copies of queue_write and queue_read *)

\* Index h of a ring of cap bytes is where position w lies.
IsIndex(h, w, cap) == h = w % cap

\* The bytes lie in ring r from position w on.
Holds(r, cap, w, bytes, size) ==
    \A k \in 0..size - 1 : r[(w + k) % cap] = bytes[k]

\* The bytes that lie in ring r from position t on.
BytesAt(r, cap, t, size) == [k \in 0..size - 1 |-> r[(t + k) % cap]]

\* The frame of rec lies in ring r from position w on.
FrameAt(r, cap, w, rec) ==
    \A k \in 0..FrameLen(rec) - 1 : r[(w + k) % cap] = [rec |-> rec, k |-> k]

\* Rings r and s agree on the positions from lo up to hi.
Agree(r, s, cap, lo, hi) ==
    \A p \in Nat : lo <= p /\ p < hi => r[p % cap] = s[p % cap]

\* queue_write puts byte k of its argument at position w + k, for any w that
\* the head stands for.
LEMMA WriteStores ==
    ASSUME NEW r, NEW cap \in Nat \ {0}, NEW w \in Nat, NEW bytes,
           NEW h, IsIndex(h, w, cap), NEW size \in Nat, size <= cap
    PROVE  Holds(QueueWrite(r, cap, h, bytes, size), cap, w, bytes, size)
<1>. SUFFICES ASSUME NEW k \in 0..size - 1
              PROVE  QueueWrite(r, cap, h, bytes, size)[(w + k) % cap] = bytes[k]
  BY DEF Holds
<1>. USE DEF IsIndex
<1>. DEFINE first == MinOf(cap - h, size)
            j == (w + k) % cap
<1>1. h \in 0..cap - 1 /\ j \in 0..cap - 1
  BY DivMod
<1>2. j = IF h + k < cap THEN h + k ELSE h + k - cap
  <2>1. k \in Nat /\ k < cap
    OBVIOUS
  <2>. QED
    BY <2>1, ModStep
<1>3. first \in Nat /\ first <= size /\ first <= cap - h
        /\ (first = size \/ first = cap - h)
  BY <1>1 DEF MinOf
<1>4. QueueWrite(r, cap, h, bytes, size)[j] =
        IF j < size - first THEN bytes[first + j]
        ELSE IF h <= j /\ j < h + first THEN bytes[j - h] ELSE r[j]
  BY <1>1 DEF QueueWrite
<1>. HIDE DEF first, j
<1>5. CASE h + k < cap
  <2>1. j = h + k /\ ~(j < size - first)
    BY <1>1, <1>2, <1>3, <1>5
  <2>2. h <= j /\ j < h + first /\ j - h = k
    BY <1>1, <1>3, <1>5, <2>1
  <2>. QED
    BY <1>4, <2>1, <2>2 DEF j
<1>6. CASE h + k >= cap
  <2>1. j = h + k - cap /\ first = cap - h
    BY <1>1, <1>2, <1>3, <1>6
  <2>2. j < size - first /\ first + j = k
    BY <1>1, <1>3, <1>6, <2>1
  <2>. QED
    BY <1>4, <2>2 DEF j
<1>. QED
  BY <1>1, <1>5, <1>6

\* queue_write leaves alone the cells of the positions less than a lap
\* behind what it writes.
LEMMA WriteKeeps ==
    ASSUME NEW r, NEW cap \in Nat \ {0}, NEW w \in Nat, NEW bytes,
           NEW h, IsIndex(h, w, cap), NEW size \in Nat, size <= cap
    PROVE  Agree(QueueWrite(r, cap, h, bytes, size), r, cap, w + size - cap, w)
<1>. SUFFICES ASSUME NEW p \in Nat, w + size - cap <= p, p < w
              PROVE  QueueWrite(r, cap, h, bytes, size)[p % cap] = r[p % cap]
  BY DEF Agree
<1>. USE DEF IsIndex
<1>. DEFINE first == MinOf(cap - h, size)
            j == p % cap
            d == w - p
<1>1. h \in 0..cap - 1 /\ j \in 0..cap - 1
  BY DivMod
<1>2. first \in Nat /\ first <= size /\ (first = size \/ first = cap - h)
  BY <1>1 DEF MinOf
<1>3. QueueWrite(r, cap, h, bytes, size)[j] =
        IF j < size - first THEN bytes[first + j]
        ELSE IF h <= j /\ j < h + first THEN bytes[j - h] ELSE r[j]
  BY <1>1 DEF QueueWrite
<1>4. d \in Nat /\ 0 < d /\ d + size <= cap /\ w = p + d
  OBVIOUS
<1>. HIDE DEF d
<1>5. d < cap => h = IF j + d < cap THEN j + d ELSE j + d - cap
  BY <1>4, ModStep
<1>. HIDE DEF first, j
<1>6. ~(j < size - first) /\ ~(h <= j /\ j < h + first)
  <2>1. CASE d = cap
    BY <2>1, <1>1, <1>2, <1>4
  <2>2. CASE d < cap /\ j + d < cap
    <3>1. h = j + d
      BY <2>2, <1>5
    <3>. QED
      BY <3>1, <1>1, <1>2, <1>4
  <2>3. CASE d < cap /\ j + d >= cap
    <3>1. h = j + d - cap
      BY <2>3, <1>1, <1>4, <1>5
    <3>. QED
      BY <3>1, <1>1, <1>2, <1>4
  <2>. QED
    BY <2>1, <2>2, <2>3, <1>1, <1>4
<1>. QED
  BY <1>3, <1>6 DEF j

\* queue_read returns the bytes at the positions from t on.
LEMMA ReadReturns ==
    ASSUME NEW r, NEW cap \in Nat \ {0}, NEW t \in Nat,
           NEW h, IsIndex(h, t, cap),
           NEW size \in Nat, size <= cap
    PROVE  QueueRead(r, cap, h, size) = BytesAt(r, cap, t, size)
<1>. USE DEF IsIndex
<1>. DEFINE first == MinOf(cap - h, size)
<1>1. h \in 0..cap - 1
  BY DivMod
<1>2. first \in Nat /\ ((first = size /\ size <= cap - h) \/ first = cap - h)
  BY <1>1 DEF MinOf
<1>3. ASSUME NEW k \in 0..size - 1
      PROVE  (IF k < first THEN r[h + k] ELSE r[k - first]) = r[(t + k) % cap]
  <2>1. (t + k) % cap = IF h + k < cap THEN h + k ELSE h + k - cap
    <3>1. k \in Nat /\ k < cap
      OBVIOUS
    <3>. QED
      BY <3>1, ModStep
  <2>. HIDE DEF first
  <2>2. (t + k) % cap = IF k < first THEN h + k ELSE k - first
    BY <1>1, <1>2, <2>1
  <2>. QED
    BY <2>2
<1>. QED
  BY <1>3 DEF QueueRead, BytesAt

\* An index lies in the ring.
LEMMA IndexRange ==
    ASSUME NEW p \in Nat, NEW cap \in Nat \ {0}, NEW h, IsIndex(h, p, cap)
    PROVE  h \in 0..cap - 1
BY DivMod DEF IsIndex

\* Advancing a reduced index is reducing the advanced position.
LEMMA AdvancePosition ==
    ASSUME NEW p \in Nat, NEW size \in Nat, NEW cap \in Nat \ {0},
           NEW h, IsIndex(h, p, cap)
    PROVE  IsIndex(Advance(h, size, cap), p + size, cap)
BY ModAdd DEF Advance, IsIndex

\* queue_write yields a ring again.
LEMMA WriteType ==
    ASSUME NEW cap \in Nat \ {0}, NEW S, NEW r \in [0..cap - 1 -> S],
           NEW h \in 0..cap - 1, NEW size \in Nat, size <= cap,
           NEW bytes \in [0..size - 1 -> S]
    PROVE  QueueWrite(r, cap, h, bytes, size) \in [0..cap - 1 -> S]
<1>. DEFINE first == MinOf(cap - h, size)
<1>1. first \in Nat /\ first <= size /\ (first = size \/ first = cap - h)
  BY DEF MinOf
<1>. HIDE DEF first
<1>2. ASSUME NEW j \in 0..cap - 1
      PROVE  (IF j < size - first THEN bytes[first + j]
              ELSE IF h <= j /\ j < h + first THEN bytes[j - h] ELSE r[j]) \in S
  <2>1. CASE j < size - first
    <3>1. first + j \in 0..size - 1
      BY <1>1, <2>1
    <3>. QED
      BY <3>1, <2>1
  <2>2. CASE ~(j < size - first) /\ h <= j /\ j < h + first
    <3>1. j - h \in 0..size - 1
      BY <1>1, <2>2
    <3>. QED
      BY <3>1, <2>2
  <2>. QED
    BY <2>1, <2>2
<1>. QED
  BY <1>2 DEF QueueWrite, first

\* The ring after capture_queue_push has written the frame of rec at w.
FrameWritten(r, cap, w, rec) ==
    QueueWrite(QueueWrite(r, cap, w % cap, HeaderBytes(rec), HeaderSize), cap,
               (w + HeaderSize) % cap, SampleBytes(rec), rec.size)

\* A frame that fits in the ring is stored whole and disturbs no position
\* less than a lap before its end.
LEMMA FrameStored ==
    ASSUME NEW r, NEW cap \in Nat \ {0}, NEW w \in Nat, NEW rec,
           rec.size \in Nat, FrameLen(rec) <= cap
    PROVE  /\ FrameAt(FrameWritten(r, cap, w, rec), cap, w, rec)
           /\ Agree(FrameWritten(r, cap, w, rec), r, cap, w + FrameLen(rec) - cap, w)
<1>. DEFINE hd == HeaderBytes(rec)
            sm == SampleBytes(rec)
            h1 == w % cap
            w2 == w + HeaderSize
            h2 == w2 % cap
            r1 == QueueWrite(r, cap, h1, hd, HeaderSize)
            r2 == QueueWrite(r1, cap, h2, sm, rec.size)
<1>1. r2 = FrameWritten(r, cap, w, rec)
  BY DEF FrameWritten
<1>2. w2 \in Nat /\ HeaderSize \in Nat /\ HeaderSize <= cap /\ rec.size <= cap
        /\ FrameLen(rec) = HeaderSize + rec.size
  BY HeaderAssumption DEF FrameLen
<1>3. \A k \in 0..HeaderSize - 1 : hd[k] = [rec |-> rec, k |-> k]
  BY DEF HeaderBytes
<1>4. \A k \in 0..rec.size - 1 : sm[k] = [rec |-> rec, k |-> HeaderSize + k]
  BY DEF SampleBytes
<1>5. w2 = w + HeaderSize /\ IsIndex(h1, w, cap) /\ IsIndex(h2, w2, cap)
  BY DEF IsIndex
<1>. HIDE DEF hd, sm, h1, h2, w2
<1>6. Holds(r1, cap, w, hd, HeaderSize)
  BY <1>2, <1>5, WriteStores
<1>7. Agree(r1, r, cap, w + HeaderSize - cap, w)
  BY <1>2, <1>5, WriteKeeps
<1>. HIDE DEF r1
<1>8. Holds(r2, cap, w2, sm, rec.size)
  BY <1>2, <1>5, WriteStores
<1>9. Agree(r2, r1, cap, w2 + rec.size - cap, w2)
  BY <1>2, <1>5, WriteKeeps
<1>. HIDE DEF r2
<1>10. ASSUME NEW k \in 0..FrameLen(rec) - 1
       PROVE  r2[(w + k) % cap] = [rec |-> rec, k |-> k]
  <2>1. CASE k < HeaderSize
    <3>1. k \in 0..HeaderSize - 1 /\ w + k \in Nat /\ w + k < w2
            /\ w2 + rec.size - cap <= w + k
      BY <1>2, <1>5, <2>1
    <3>2. r2[(w + k) % cap] = r1[(w + k) % cap]
      BY <3>1, <1>9 DEF Agree
    <3>. QED
      BY <3>1, <3>2, <1>3, <1>6 DEF Holds
  <2>2. CASE k >= HeaderSize
    <3>. DEFINE i == k - HeaderSize
    <3>1. i \in 0..rec.size - 1 /\ w2 + i = w + k /\ HeaderSize + i = k
      BY <1>2, <1>5, <2>2
    <3>. HIDE DEF i
    <3>2. r2[(w2 + i) % cap] = sm[i] /\ sm[i] = [rec |-> rec, k |-> HeaderSize + i]
      BY <3>1, <1>4, <1>8 DEF Holds
    <3>. QED
      BY <3>1, <3>2
  <2>. QED
    BY <2>1, <2>2, <1>2
<1>11. ASSUME NEW p \in Nat, w + FrameLen(rec) - cap <= p, p < w
       PROVE  r2[p % cap] = r[p % cap]
  <2>1. p < w2 /\ w2 + rec.size - cap <= p /\ w + HeaderSize - cap <= p
    BY <1>2, <1>5, <1>11
  <2>. QED
    BY <2>1, <1>7, <1>9, <1>11 DEF Agree
<1>12. Agree(r2, r, cap, w + FrameLen(rec) - cap, w)
  BY <1>11 DEF Agree
<1>13. FrameAt(r2, cap, w, rec)
  BY <1>10 DEF FrameAt
<1>. QED
  BY <1>1, <1>12, <1>13

---------------------------------------------------------------------------
(* The invariant is inductive *)

\* The fields of a record are numbers.
LEMMA RecordFields ==
    ASSUME NEW rec \in Records
    PROVE  rec.size \in Nat /\ rec.lost \in Nat
<1>1. Sizes \cup {0} \subseteq Nat
  BY SampleAssumption
<1>2. LostCounts \cup {0} \subseteq Nat
  BY LostAssumption
<1>3. rec.size \in Sizes \cup {0} /\ rec.lost \in LostCounts \cup {0}
  BY DEF Records
<1>. QED
  BY <1>1, <1>2, <1>3

\* The types the steps below use of the history.
LEMMA HistoryTypes ==
    ASSUME TypeOK, InvExport
    PROVE  /\ Len(accepted) \in Nat /\ Len(exported) \in Nat
           /\ Taken \in Nat
           /\ Written \in Nat
           /\ AcceptedCount \in Count
           /\ \A i \in 1..Len(accepted) :
                /\ accepted[i].at \in Nat
                /\ accepted[i].rec \in Records
                /\ accepted[i].before \in Count
                /\ accepted[i].rec.size \in Nat
                /\ accepted[i].rec.lost \in Nat
<1>1. Len(accepted) \in Nat /\ Len(exported) \in Nat
  BY DEF TypeOK, InvExport
<1>2. ASSUME NEW i \in 1..Len(accepted)
      PROVE  /\ accepted[i].at \in Nat
             /\ accepted[i].rec \in Records
             /\ accepted[i].before \in Count
             /\ accepted[i].rec.size \in Nat
             /\ accepted[i].rec.lost \in Nat
  <2>1. accepted[i] \in Entries
    <3>1. accepted \in Seq(Entries)
      BY DEF TypeOK
    <3>. QED
      BY <3>1, ElementOfSeq
  <2>2. accepted[i].at \in Nat /\ accepted[i].rec \in Records
          /\ accepted[i].before \in Count
    BY <2>1 DEF Entries
  <2>3. accepted[i].rec.size \in Nat /\ accepted[i].rec.lost \in Nat
    BY <2>2, RecordFields
  <2>. QED
    BY <2>2, <2>3
<1>3. Taken \in Nat
  BY <1>1 DEF Taken
<1>4. accepted # <<>> => Len(accepted) \in 1..Len(accepted)
  BY <1>1 DEF TypeOK
<1>5. Written \in Nat
  BY <1>2, <1>4, HeaderAssumption DEF Written
<1>6. ASSUME NEW c \in Count, NEW rec, rec.lost \in Nat
      PROVE  AddTo(c, rec) \in Count
  BY <1>6 DEF AddTo, Count
<1>7. AcceptedCount \in Count
  BY <1>2, <1>4, <1>6 DEF AcceptedCount, NoCount, Count
<1>. QED
  BY <1>1, <1>2, <1>3, <1>5, <1>7

\* An empty ring means that every accepted record was taken.
LEMMA EmptyMeansTaken ==
    ASSUME IInv, data, used = 0
    PROVE  Taken = Len(accepted)
<1>1. Taken <= Len(accepted) /\ used = Written - ReadPos
  BY DEF IInv, InvRing
<1>2. SUFFICES ASSUME Taken < Len(accepted) PROVE FALSE
  BY <1>1, HistoryTypes DEF IInv
<1>3. Taken + 1 \in 1..Len(accepted)
  BY <1>2, HistoryTypes DEF IInv
<1>4. accepted[Taken + 1].at + FrameLen(accepted[Taken + 1].rec) <= Written
  BY <1>3 DEF IInv, InvLayout
<1>5. ReadPos = accepted[Taken + 1].at
  BY <1>2 DEF ReadPos
<1>. QED
  BY <1>1, <1>3, <1>4, <1>5, HistoryTypes, HeaderAssumption DEF IInv, FrameLen

\* A step that neither moves a byte nor a record keeps all but the types and
\* the control part.
LEMMA QuietStep ==
    ASSUME IInv,
           UNCHANGED <<data, capacity, ring, head, tail, used, dropped,
                       kernel_lost, record, sample, history>>,
           worker' = "exporting" <=> worker = "exporting"
    PROVE  InvLayout' /\ InvRing' /\ InvExport' /\ InvCounts'
<1>. USE DEF history
<1>1. Written' = Written /\ AcceptedCount' = AcceptedCount
  BY DEF Written, AcceptedCount
<1>2. Taken' = Taken
  BY DEF Taken
<1>3. ReadPos' = ReadPos
  BY <1>1, <1>2 DEF ReadPos
<1>4. InvLayout'
  BY <1>1 DEF IInv, InvLayout
<1>5. InvRing'
  BY <1>1, <1>2, <1>3 DEF IInv, InvRing, InvUnread
<1>6. InvExport'
  BY DEF IInv, InvExport
<1>7. InvCounts'
  BY <1>1 DEF IInv, InvCounts, CountBefore
<1>. QED
  BY <1>4, <1>5, <1>6, <1>7

LEMMA InitInv == Init => IInv
<1>. SUFFICES ASSUME Init PROVE IInv
  OBVIOUS
<1>. USE DEF Init
<1>1. TypeOK
  <2>1. ring \in [0..capacity - 1 -> Byte]
    BY DEF Byte
  <2>2. NoCount \in Count
    BY DEF NoCount, Count
  <2>3. accepted \in Seq(Entries)
    OBVIOUS
  <2>4. data \in BOOLEAN /\ stopping \in BOOLEAN /\ tick \in BOOLEAN
          /\ saw_stopping \in BOOLEAN /\ record \in Records \cup {NoRecord}
    OBVIOUS
  <2>5. offers \in 0..MaxOffers /\ sessions \in 0..MaxSessions
    BY BoundAssumption
  <2>6. used \in 0..capacity /\ capacity \in Nat
    OBVIOUS
  <2>. QED
    BY <2>1, <2>2, <2>3, <2>4, <2>5, <2>6 DEF TypeOK
<1>2. Len(accepted) = 0 /\ Len(exported) = 0 /\ Taken = 0
  BY DEF Taken
<1>3. InvLayout
  BY <1>2 DEF InvLayout
<1>4. InvRing
  BY <1>2 DEF InvRing
<1>5. InvExport
  BY <1>2 DEF InvExport
<1>6. InvCounts
  BY <1>2 DEF InvCounts, CountBefore, AcceptedCount, NoCount
<1>7. InvControl
  BY DEF InvControl
<1>. QED
  BY <1>1, <1>3, <1>4, <1>5, <1>6, <1>7 DEF IInv

LEMMA StartInv ==
    ASSUME IInv, NEW cap \in Capacities, StartQueue(cap)
    PROVE  IInv'
<1>. USE DEF StartQueue, ResetQueue
<1>0. cap \in Nat /\ cap > HeaderSize /\ worker = "none"
  BY CapacityAssumption, HeaderAssumption DEF IInv, InvControl
<1>1. TypeOK'
  <2>1. ring' \in [0..cap - 1 -> Byte]
    BY DEF Byte
  <2>2. NoCount \in Count
    BY DEF NoCount, Count
  <2>3. <<>> \in Seq(Entries)
    OBVIOUS
  <2>4. sessions' \in 0..MaxSessions /\ 0 \in 0..MaxOffers
    BY BoundAssumption DEF IInv, TypeOK
  <2>5. data' \in BOOLEAN /\ stopping' \in BOOLEAN /\ tick' \in BOOLEAN
          /\ saw_stopping' \in BOOLEAN /\ record' \in Records \cup {NoRecord}
    BY DEF IInv, TypeOK, locals
  <2>6. used' \in 0..capacity' /\ capacity' \in Nat
          /\ head' < capacity' /\ tail' < capacity'
    BY <1>0, HeaderAssumption
  <2>. QED
    BY <1>0, <2>1, <2>2, <2>3, <2>4, <2>5, <2>6 DEF IInv, TypeOK
<1>2. Len(accepted)' = 0 /\ Len(exported)' = 0 /\ Taken' = 0
  BY <1>0 DEF Taken
<1>3. InvLayout'
  BY <1>2 DEF InvLayout
<1>4. InvRing'
  <2>1. Written' = 0 /\ ReadPos' = 0
    BY <1>2 DEF Written, ReadPos
  <2>2. 0 % cap = 0
    BY <1>0, HeaderAssumption, ModUnique
  <2>. QED
    BY <1>0, <1>2, <2>1, <2>2 DEF InvRing, InvUnread
<1>5. InvExport'
  BY <1>0, <1>2 DEF InvExport
<1>6. InvCounts'
  BY <1>2 DEF InvCounts, CountBefore, AcceptedCount, NoCount
<1>7. InvControl'
  BY <1>0 DEF IInv, InvControl
<1>. QED
  BY <1>1, <1>3, <1>4, <1>5, <1>6, <1>7 DEF IInv
\* Appending an entry moves the end of the written bytes and the counts, and
\* keeps the layout.
LEMMA AppendEntry ==
    ASSUME IInv, NEW rec \in Records, accepted' = Append(accepted, Entry(rec))
    PROVE  /\ accepted' \in Seq(Entries)
           /\ Len(accepted') = Len(accepted) + 1
           /\ \A i \in 1..Len(accepted) : accepted'[i] = accepted[i]
           /\ accepted'[Len(accepted) + 1] = Entry(rec)
           /\ Written' = Written + FrameLen(rec)
           /\ AcceptedCount' = AddTo(AcceptedCount, rec)
           /\ InvLayout'
<1>. USE HistoryTypes DEF IInv
<1>1. accepted \in Seq(Entries) /\ Len(accepted) \in Nat
  BY DEF TypeOK
<1>2. Entry(rec) \in Entries
  BY DEF Entry, Entries
<1>3. /\ accepted' \in Seq(Entries)
      /\ Len(accepted') = Len(accepted) + 1
      /\ \A i \in 1..Len(accepted) : accepted'[i] = accepted[i]
      /\ accepted'[Len(accepted) + 1] = Entry(rec)
  BY <1>1, <1>2
<1>4. /\ Entry(rec).at = Written
      /\ Entry(rec).rec = rec
      /\ Entry(rec).before = AcceptedCount
  BY DEF Entry
<1>5. accepted' # <<>>
  BY <1>1, <1>3
<1>6. Written' = Written + FrameLen(rec)
  BY <1>1, <1>3, <1>4, <1>5, RecordFields, HeaderAssumption DEF Written, FrameLen
<1>7. AcceptedCount' = AddTo(AcceptedCount, rec)
  BY <1>3, <1>4, <1>5 DEF AcceptedCount
<1>8. rec.size \in Nat /\ FrameLen(rec) \in Nat
  BY RecordFields, HeaderAssumption DEF FrameLen
<1>9. \A i \in 1..Len(accepted) : FrameLen(accepted[i].rec) \in Nat
  BY HeaderAssumption DEF FrameLen
<1>10. Len(accepted) > 0 =>
          /\ Written = accepted[Len(accepted)].at + FrameLen(accepted[Len(accepted)].rec)
          /\ AcceptedCount = AddTo(accepted[Len(accepted)].before,
                                   accepted[Len(accepted)].rec)
  <2>1. HAVE Len(accepted) > 0
  <2>2. accepted # <<>>
    BY <1>1, <2>1
  <2>3. Len(accepted) \in 1..Len(accepted)
    BY <1>1, <2>1
  <2>. QED
    BY <2>2, <2>3, HeaderAssumption DEF Written, AcceptedCount, FrameLen
<1>11. Len(accepted) = 0 => Written = 0 /\ AcceptedCount = NoCount
  BY <1>1 DEF Written, AcceptedCount
<1>12. InvLayout'
  <2>1. ASSUME NEW i \in 1..Len(accepted')
        PROVE  accepted'[i].at + FrameLen(accepted'[i].rec) <= Written'
    <3>1. CASE i \in 1..Len(accepted)
      BY <3>1, <1>3, <1>6, <1>8, <1>9 DEF InvLayout
    <3>2. CASE i = Len(accepted) + 1
      BY <3>2, <1>3, <1>4, <1>6, <1>8
    <3>. QED
      BY <1>1, <1>3, <3>1, <3>2
  <2>2. ASSUME NEW i \in 1..Len(accepted'), NEW j \in 1..Len(accepted'), i < j
        PROVE  accepted'[i].at + FrameLen(accepted'[i].rec) <= accepted'[j].at
    <3>1. i \in 1..Len(accepted)
      BY <1>1, <1>3, <2>2
    <3>2. CASE j \in 1..Len(accepted)
      BY <3>1, <3>2, <2>2, <1>3 DEF InvLayout
    <3>3. CASE j = Len(accepted) + 1
      BY <3>1, <3>3, <1>3, <1>4 DEF InvLayout
    <3>. QED
      BY <1>1, <1>3, <3>2, <3>3
  <2>3. ASSUME NEW i \in 1..Len(accepted') - 1
        PROVE  /\ accepted'[i + 1].at = accepted'[i].at + FrameLen(accepted'[i].rec)
               /\ accepted'[i + 1].before = AddTo(accepted'[i].before, accepted'[i].rec)
    <3>1. i \in 1..Len(accepted)
      BY <1>1, <1>3
    <3>2. CASE i + 1 \in 1..Len(accepted)
      <4>1. i \in 1..Len(accepted) - 1
        BY <1>1, <3>1, <3>2
      <4>. QED
        BY <3>1, <3>2, <4>1, <1>3 DEF InvLayout
    <3>3. CASE i = Len(accepted)
      BY <3>1, <3>3, <1>3, <1>4, <1>10
    <3>. QED
      BY <1>1, <1>3, <3>1, <3>2, <3>3
  <2>4. accepted'[1].before = NoCount /\ accepted'[1].at = 0
    <3>1. CASE Len(accepted) = 0
      BY <3>1, <1>3, <1>4, <1>11
    <3>2. CASE Len(accepted) > 0
      BY <3>2, <1>1, <1>3 DEF InvLayout
    <3>. QED
      BY <1>1, <3>1, <3>2
  <2>. QED
    BY <2>1, <2>2, <2>3, <2>4 DEF InvLayout
<1>. QED
  BY <1>3, <1>6, <1>7, <1>12
\* Counting a record keeps a count a count, and adds it to one of the two
\* fields.
LEMMA AddToCount ==
    ASSUME NEW c \in Count, NEW rec \in Records
    PROVE  /\ AddTo(c, rec) \in Count
           /\ rec.lost > 0 => /\ AddTo(c, rec).events = c.events
                              /\ AddTo(c, rec).lost = c.lost + rec.lost
           /\ ~(rec.lost > 0) => /\ AddTo(c, rec).events = c.events + 1
                                 /\ AddTo(c, rec).lost = c.lost
BY RecordFields DEF AddTo, Count

\* The branch of capture_queue_push that stores the record.
LEMMA AcceptInv ==
    ASSUME IInv, NEW rec \in Records, CaptureQueuePush(rec), Fits(rec)
    PROVE  IInv'
<1>. DEFINE W == Written
            R == ReadPos
            c == capacity
<1>0. /\ WriteFrame(rec) /\ producer = "running"
      /\ UNCHANGED <<data, capacity, tail, stopping, tick, producer, locals,
                     told, exported, delivered, sessions>>
      /\ offers' = offers + 1 /\ offers < MaxOffers
      /\ offered' = AddTo(offered, rec)
  BY DEF CaptureQueuePush
<1>1. data /\ ~stopping
  BY <1>0 DEF IInv, InvControl
<1>2. /\ capacity \in Nat \ {0} /\ W \in Nat /\ R \in Nat
      /\ IsIndex(head, W, c) /\ IsIndex(tail, R, c)
      /\ used = W - R
      /\ rec.size \in Nat /\ FrameLen(rec) \in Nat /\ FrameLen(rec) <= c
      /\ FrameLen(rec) = HeaderSize + rec.size
      /\ W + FrameLen(rec) - c <= R
      /\ used \in Nat /\ Taken \in Nat /\ Taken <= Len(accepted)
      /\ Len(accepted) \in Nat
  <2>1. R \in Nat
    BY HistoryTypes DEF IInv, InvRing, ReadPos
  <2>2. rec.size \in Nat /\ FrameLen(rec) \in Nat
    BY RecordFields, HeaderAssumption DEF FrameLen
  <2>3. W \in Nat /\ Taken \in Nat /\ Len(accepted) \in Nat
    BY HistoryTypes DEF IInv
  <2>4. used \in 0..capacity /\ capacity \in Nat
    BY DEF IInv, TypeOK
  <2>5. /\ capacity > HeaderSize /\ IsIndex(head, W, c) /\ IsIndex(tail, R, c)
        /\ used = W - R /\ Taken <= Len(accepted)
    BY <1>1 DEF IInv, InvRing, IsIndex
  <2>6. FrameLen(rec) <= capacity - used /\ FrameLen(rec) = HeaderSize + rec.size
    BY DEF Fits, FrameLen
  <2>. HIDE DEF W, R
  <2>7. capacity \in Nat \ {0}
    BY <2>4, <2>5, HeaderAssumption
  <2>8. FrameLen(rec) <= c /\ W + FrameLen(rec) - c <= R
    <3>1. used = W - R
      BY <2>5
    <3>. QED
      BY <3>1, <2>1, <2>2, <2>3, <2>4, <2>6
  <2>. QED
    BY <2>1, <2>2, <2>3, <2>4, <2>5, <2>6, <2>7, <2>8
<1>3. /\ accepted' \in Seq(Entries)
      /\ Len(accepted') = Len(accepted) + 1
      /\ \A i \in 1..Len(accepted) : accepted'[i] = accepted[i]
      /\ accepted'[Len(accepted) + 1] = Entry(rec)
      /\ Written' = Written + FrameLen(rec)
      /\ AcceptedCount' = AddTo(AcceptedCount, rec)
      /\ InvLayout'
  BY <1>0, AppendEntry DEF WriteFrame
<1>4. worker' = "exporting" <=> worker = "exporting"
  BY <1>0 DEF WriteFrame, Signal
<1>5. Taken' = Taken
  BY <1>0, <1>4 DEF Taken
<1>6. ReadPos' = R
  <2>1. CASE Taken < Len(accepted)
    <3>1. Taken + 1 \in 1..Len(accepted) /\ Taken < Len(accepted')
      BY <2>1, <1>2, <1>3
    <3>. QED
      BY <3>1, <2>1, <1>3, <1>5 DEF ReadPos
  <2>2. CASE Taken = Len(accepted)
    BY <2>2, <1>2, <1>3, <1>5 DEF ReadPos, Entry
  <2>. QED
    BY <1>2, <2>1, <2>2
<1>7. /\ IsIndex(head', W + FrameLen(rec), c)
      /\ ring' = FrameWritten(ring, c, W, rec)
      /\ used' = used + FrameLen(rec)
  <2>. DEFINE after == Advance(head, HeaderSize, c)
  <2>1. IsIndex(after, W + HeaderSize, c)
    BY <1>2, HeaderAssumption, AdvancePosition
  <2>2. W + HeaderSize \in Nat
    BY <1>2, HeaderAssumption
  <2>3. IsIndex(Advance(after, rec.size, c), (W + HeaderSize) + rec.size, c)
    BY <2>1, <2>2, <1>2, AdvancePosition
  <2>4. (W + HeaderSize) + rec.size = W + FrameLen(rec)
    BY <1>2, HeaderAssumption
  <2>5. head' = Advance(after, rec.size, c) /\ used' = used + HeaderSize + rec.size
          /\ ring' = QueueWrite(QueueWrite(ring, c, head, HeaderBytes(rec), HeaderSize),
                                c, after, SampleBytes(rec), rec.size)
    BY <1>0 DEF WriteFrame
  <2>6. ring' = FrameWritten(ring, c, W, rec)
    BY <2>1, <2>5, <1>2 DEF FrameWritten, IsIndex
  <2>. QED
    BY <2>3, <2>4, <2>5, <2>6, <1>2, HeaderAssumption
<1>. HIDE DEF W, R
<1>8. /\ FrameAt(ring', c, W, rec)
      /\ Agree(ring', ring, c, W + FrameLen(rec) - c, W)
  BY <1>2, <1>7, FrameStored
<1>9. InvUnread'
  <2>. SUFFICES ASSUME NEW i \in Taken + 1..Len(accepted) + 1,
                       NEW k \in 0..FrameLen(accepted'[i].rec) - 1
                PROVE  ring'[(accepted'[i].at + k) % c]
                         = [rec |-> accepted'[i].rec, k |-> k]
    BY <1>0, <1>3, <1>5 DEF InvUnread
  <2>1. CASE i = Len(accepted) + 1
    BY <2>1, <1>3, <1>8 DEF Entry, W, FrameAt
  <2>2. CASE i <= Len(accepted)
    <3>1. i \in 1..Len(accepted) /\ i \in Taken + 1..Len(accepted)
            /\ accepted'[i] = accepted[i]
      BY <2>2, <1>2, <1>3
    <3>2. accepted[i].at \in Nat /\ FrameLen(accepted[i].rec) \in Nat
      <4>1. accepted[i].at \in Nat /\ accepted[i].rec.size \in Nat
        BY <3>1, HistoryTypes DEF IInv
      <4>. QED
        BY <4>1, HeaderAssumption DEF FrameLen
    <3>3. accepted[i].at + FrameLen(accepted[i].rec) <= W
      BY <3>1 DEF IInv, InvLayout, W
    <3>4. R <= accepted[i].at
      <4>1. Taken + 1 \in 1..Len(accepted) /\ R = accepted[Taken + 1].at
        <5>1. Taken \in Nat /\ Len(accepted) \in Nat
          BY <1>2
        <5>2. Taken < Len(accepted) /\ Taken + 1 \in 1..Len(accepted)
          BY <5>1, <3>1
        <5>. QED
          BY <5>2 DEF R, ReadPos
      <4>2. CASE i = Taken + 1
        BY <4>1, <4>2, <3>2
      <4>3. CASE Taken + 1 < i
        <5>1. accepted[Taken + 1].at + FrameLen(accepted[Taken + 1].rec) <= accepted[i].at
          BY <3>1, <4>1, <4>3 DEF IInv, InvLayout
        <5>2. accepted[Taken + 1].at \in Nat /\ FrameLen(accepted[Taken + 1].rec) \in Nat
          BY <4>1, HistoryTypes, HeaderAssumption DEF IInv, FrameLen
        <5>. QED
          BY <4>1, <5>1, <5>2, <3>2
      <4>. QED
        BY <3>1, <1>2, <4>2, <4>3
    <3>. DEFINE p == accepted[i].at + k
    <3>5. p \in Nat /\ W + FrameLen(rec) - c <= p /\ p < W
      <4>1. k \in Nat /\ k < FrameLen(accepted[i].rec)
        BY <3>1, <3>2
      <4>2. capacity \in Nat /\ W \in Nat /\ R \in Nat /\ FrameLen(rec) \in Nat
              /\ W + FrameLen(rec) - c <= R
        BY <1>2
      <4>. DEFINE a == accepted[i].at
                  n == FrameLen(accepted[i].rec)
                  m == FrameLen(rec)
      <4>3. a \in Nat /\ n \in Nat /\ m \in Nat /\ k < n /\ a + n <= W /\ R <= a
              /\ W + m - c <= R
        BY <4>1, <4>2, <3>2, <3>3, <3>4
      <4>. HIDE DEF a, n, m
      <4>4. a + k \in Nat /\ W + m - c <= a + k /\ a + k < W
        BY <4>1, <4>2, <4>3
      <4>. QED
        BY <4>4 DEF a, m
    <3>. HIDE DEF p
    <3>6. ring'[p % c] = ring[p % c]
      BY <3>5, <1>8 DEF Agree
    <3>7. ring[p % c] = [rec |-> accepted[i].rec, k |-> k]
      BY <3>1, <1>1 DEF IInv, InvRing, InvUnread, p
    <3>. QED
      BY <3>1, <3>6, <3>7 DEF p
  <2>. QED
    BY <2>1, <2>2, <1>2
<1>10. InvRing'
  <2>1. used' = Written' - ReadPos'
    <3>. DEFINE m == FrameLen(rec)
    <3>1. Written' = W + m /\ ReadPos' = R /\ used' = used + m
      BY <1>3, <1>6, <1>7 DEF W
    <3>2. W \in Nat /\ R \in Nat /\ m \in Nat /\ used = W - R
      BY <1>2
    <3>. HIDE DEF m
    <3>. QED
      BY <3>1, <3>2
  <2>2. capacity > HeaderSize
    BY <1>1 DEF IInv, InvRing
  <2>3. head' = Written' % c /\ tail' = ReadPos' % c
    BY <1>0, <1>2, <1>3, <1>6, <1>7 DEF W, IsIndex
  <2>. QED
    BY <1>0, <1>1, <1>2, <1>3, <1>5, <1>9, <2>1, <2>2, <2>3 DEF InvRing
<1>11. InvExport'
  <2>1. Len(exported) <= Taken /\ Len(exported) \in Nat
          /\ (worker = "exporting" => Taken = Len(exported) + 1)
    BY HistoryTypes DEF IInv, Taken
  <2>2. \A i \in 1..Len(exported) : i \in 1..Len(accepted)
    BY <2>1, <1>2
  <2>3. worker = "exporting" => Len(exported) + 1 \in 1..Len(accepted)
    BY <2>1, <1>2
  <2>4. record' = record /\ sample' = sample /\ exported' = exported
    BY <1>0 DEF locals
  <2>. QED
    BY <1>3, <1>4, <2>2, <2>3, <2>4 DEF IInv, InvExport
<1>12. InvCounts'
  <2>1. delivered' = delivered /\ exported' = exported
    BY <1>0
  <2>2. CountBefore(Len(exported) + 1)' = CountBefore(Len(exported) + 1)
    <3>1. Len(exported) \in Nat /\ Len(exported) <= Len(accepted)
      BY <1>2, HistoryTypes DEF IInv, Taken
    <3>2. CASE Len(exported) + 1 <= Len(accepted)
      BY <2>1, <3>1, <3>2, <1>2, <1>3 DEF CountBefore
    <3>3. CASE Len(exported) = Len(accepted)
      BY <2>1, <3>1, <3>3, <1>2, <1>3 DEF CountBefore, Entry
    <3>. QED
      BY <1>2, <3>1, <3>2, <3>3
  <2>3. offered \in Count /\ AcceptedCount \in Count
    BY HistoryTypes DEF IInv, TypeOK
  <2>4. dropped' = dropped /\ kernel_lost' = kernel_lost
    BY <1>0 DEF WriteFrame
  <2>5. dropped \in Nat /\ kernel_lost \in Nat
    BY DEF IInv, TypeOK
  <2>6. offered'.events = AcceptedCount'.events + dropped
          /\ offered'.lost = AcceptedCount'.lost + kernel_lost
    <3>1. offered.events = AcceptedCount.events + dropped
            /\ offered.lost = AcceptedCount.lost + kernel_lost
      BY DEF IInv, InvCounts
    <3>2. offered.events \in Nat /\ offered.lost \in Nat /\ rec.lost \in Nat
            /\ AcceptedCount.events \in Nat /\ AcceptedCount.lost \in Nat
      BY <2>3, RecordFields DEF Count
    <3>3. CASE rec.lost > 0
      <4>1. offered'.events = offered.events /\ offered'.lost = offered.lost + rec.lost
        BY <1>0, <2>3, <3>3, AddToCount
      <4>2. AcceptedCount'.events = AcceptedCount.events
              /\ AcceptedCount'.lost = AcceptedCount.lost + rec.lost
        BY <1>3, <2>3, <3>3, AddToCount
      <4>. QED
        BY <4>1, <4>2, <2>5, <3>1, <3>2
    <3>4. CASE ~(rec.lost > 0)
      <4>1. offered'.events = offered.events + 1 /\ offered'.lost = offered.lost
        BY <1>0, <2>3, <3>4, AddToCount
      <4>2. AcceptedCount'.events = AcceptedCount.events + 1
              /\ AcceptedCount'.lost = AcceptedCount.lost
        BY <1>3, <2>3, <3>4, AddToCount
      <4>. QED
        BY <4>1, <4>2, <2>5, <3>1, <3>2
    <3>. QED
      BY <3>3, <3>4
  <2>. QED
    BY <2>1, <2>2, <2>4, <2>6 DEF IInv, InvCounts
<1>13. InvControl'
  BY <1>0, <1>1 DEF IInv, InvControl, WriteFrame, WasEmpty, Signal, locals
<1>14. TypeOK'
  <2>1. ring' \in [0..c - 1 -> Byte]
    <3>1. HeaderBytes(rec) \in [0..HeaderSize - 1 -> Byte]
      BY HeaderAssumption DEF HeaderBytes, Byte
    <3>2. SampleBytes(rec) \in [0..rec.size - 1 -> Byte]
      BY <1>2, HeaderAssumption DEF SampleBytes, Byte
    <3>. DEFINE h1 == W % c
                h2 == (W + HeaderSize) % c
                r1 == QueueWrite(ring, c, h1, HeaderBytes(rec), HeaderSize)
    <3>3. h1 \in 0..c - 1 /\ h2 \in 0..c - 1
      <4>1. W + HeaderSize \in Nat
        BY <1>2, HeaderAssumption
      <4>. QED
        BY <4>1, <1>2, DivMod
    <3>. HIDE DEF h1, h2
    <3>4. ring \in [0..c - 1 -> Byte]
      BY DEF IInv, TypeOK
    <3>5. HeaderSize \in Nat /\ HeaderSize <= c /\ rec.size <= c
      BY <1>2, HeaderAssumption
    <3>6. r1 \in [0..c - 1 -> Byte]
      BY <3>1, <3>3, <3>4, <3>5, <1>2, WriteType
    <3>. HIDE DEF r1
    <3>7. QueueWrite(r1, c, h2, SampleBytes(rec), rec.size) \in [0..c - 1 -> Byte]
      BY <3>2, <3>3, <3>5, <3>6, <1>2, WriteType
    <3>. QED
      BY <3>7, <1>7 DEF FrameWritten, r1, h1, h2
  <2>2. offered' \in Count
    BY <1>0, AddToCount DEF IInv, TypeOK
  <2>3. head' \in Nat /\ head' < c
    <3>1. W + FrameLen(rec) \in Nat
      BY <1>2
    <3>2. head' \in 0..c - 1
      BY <3>1, <1>2, <1>7, IndexRange
    <3>. QED
      BY <3>2, <1>2
  <2>4. used' \in 0..c
    <3>. DEFINE m == FrameLen(rec)
    <3>1. used \in Nat /\ c \in Nat /\ m \in Nat /\ used = W - R /\ W + m - c <= R
            /\ W \in Nat /\ R \in Nat /\ used' = used + m
      BY <1>2, <1>7
    <3>. HIDE DEF m
    <3>. QED
      BY <3>1
  <2>5. offers' \in 0..MaxOffers
    BY <1>0, BoundAssumption DEF IInv, TypeOK
  <2>6. worker' \in {"none", "loop", "waiting", "ticking", "exporting",
                     "report_lost", "report_dropped", "exited"}
    BY <1>0 DEF WriteFrame, Signal, IInv, TypeOK
  <2>7. dropped' = dropped /\ kernel_lost' = kernel_lost
    BY <1>0 DEF WriteFrame
  <2>. QED
    BY <1>0, <1>3, <2>1, <2>2, <2>3, <2>4, <2>5, <2>6, <2>7 DEF IInv, TypeOK, locals
<1>. QED
  BY <1>3, <1>10, <1>11, <1>12, <1>13, <1>14 DEF IInv
\* The branch that counts it.
LEMMA RefuseInv ==
    ASSUME IInv, NEW rec \in Records, CaptureQueuePush(rec), ~Fits(rec)
    PROVE  IInv'
<1>0. /\ CountLoss(rec) /\ producer = "running"
      /\ UNCHANGED <<data, capacity, ring, head, used, tail, stopping, tick, producer,
                     worker, locals, told, accepted, exported, delivered, sessions>>
      /\ offers' = offers + 1 /\ offers < MaxOffers
      /\ offered' = AddTo(offered, rec)
  BY DEF CaptureQueuePush, CountLoss
<1>1. Written' = Written /\ AcceptedCount' = AcceptedCount /\ Taken' = Taken
  BY <1>0 DEF Written, AcceptedCount, Taken
<1>2. ReadPos' = ReadPos
  BY <1>0, <1>1 DEF ReadPos
<1>3. InvLayout'
  BY <1>0, <1>1 DEF IInv, InvLayout
<1>4. InvRing'
  BY <1>0, <1>1, <1>2 DEF IInv, InvRing, InvUnread
<1>5. InvExport'
  BY <1>0 DEF IInv, InvExport, locals
<1>6. /\ dropped \in Nat /\ kernel_lost \in Nat /\ rec.lost \in Nat
      /\ offered \in Count /\ AcceptedCount \in Count
      /\ offered.events = AcceptedCount.events + dropped
      /\ offered.lost = AcceptedCount.lost + kernel_lost
  BY HistoryTypes, RecordFields DEF IInv, TypeOK, InvCounts
<1>7. /\ offered.events \in Nat /\ offered.lost \in Nat
      /\ AcceptedCount.events \in Nat /\ AcceptedCount.lost \in Nat
  BY <1>6 DEF Count
<1>8. /\ offered'.events = AcceptedCount.events + dropped'
      /\ offered'.lost = AcceptedCount.lost + kernel_lost'
      /\ dropped' \in Nat /\ kernel_lost' \in Nat
  <2>1. CASE rec.lost > 0
    <3>1. offered'.events = offered.events /\ offered'.lost = offered.lost + rec.lost
      BY <1>0, <1>6, <2>1, AddToCount
    <3>2. dropped' = dropped /\ kernel_lost' = kernel_lost + rec.lost
      BY <1>0, <2>1 DEF CountLoss
    <3>. QED
      BY <3>1, <3>2, <1>6, <1>7
  <2>2. CASE ~(rec.lost > 0)
    <3>1. offered'.events = offered.events + 1 /\ offered'.lost = offered.lost
      BY <1>0, <1>6, <2>2, AddToCount
    <3>2. dropped' = dropped + 1 /\ kernel_lost' = kernel_lost
      BY <1>0, <2>2 DEF CountLoss
    <3>. QED
      BY <3>1, <3>2, <1>6, <1>7
  <2>. QED
    BY <2>1, <2>2
<1>9. InvCounts'
  BY <1>0, <1>1, <1>8 DEF IInv, InvCounts, CountBefore
<1>10. InvControl'
  BY <1>0 DEF IInv, InvControl, locals
<1>11. TypeOK'
  <2>1. offered' \in Count
    BY <1>0, <1>6, AddToCount
  <2>2. offers' \in 0..MaxOffers
    BY <1>0, BoundAssumption DEF IInv, TypeOK
  <2>. QED
    BY <1>0, <1>8, <2>1, <2>2 DEF IInv, TypeOK, locals
<1>. QED
  BY <1>3, <1>4, <1>5, <1>9, <1>10, <1>11 DEF IInv

\* capture_queue_event and capture_queue_lost.
LEMMA PushInv ==
    ASSUME IInv,
           \/ \E size \in Sizes : CaptureQueueEvent(size)
           \/ \E count \in LostCounts : CaptureQueueLost(count)
    PROVE  IInv'
<1>1. ASSUME NEW rec \in Records, CaptureQueuePush(rec)
      PROVE  IInv'
  BY <1>1, AcceptInv, RefuseInv
<1>2. ASSUME NEW size \in Sizes \cup {0}, NEW lost \in LostCounts \cup {0},
             CaptureQueuePush([id |-> offers + 1, size |-> size, lost |-> lost])
      PROVE  IInv'
  <2>1. offers + 1 \in 1..MaxOffers
    BY <1>2, BoundAssumption DEF CaptureQueuePush, IInv, TypeOK
  <2>2. [id |-> offers + 1, size |-> size, lost |-> lost] \in Records
    BY <2>1 DEF Records
  <2>. QED
    BY <1>1, <1>2, <2>2
<1>. QED
  BY <1>2 DEF CaptureQueueEvent, CaptureQueueLost

\* Handing a record over.
LEMMA ExportInv ==
    ASSUME IInv, WorkerExport
    PROVE  IInv'
<1>. DEFINE n == Len(exported)
<1>0. /\ worker = "exporting" /\ worker' = "loop"
      /\ exported' = Append(exported, [rec |-> record, bytes |-> sample])
      /\ delivered' = AddTo(delivered, record)
      /\ UNCHANGED <<data, capacity, ring, head, tail, used, dropped, kernel_lost,
                     stopping, tick, producer, record, sample, saw_stopping, told,
                     accepted, offered, offers, sessions>>
  BY DEF WorkerExport, queue, locals
<1>1. n \in Nat /\ Taken = n + 1 /\ Taken <= Len(accepted) /\ Len(accepted) \in Nat
        /\ n + 1 \in 1..Len(accepted)
  BY <1>0, HistoryTypes DEF IInv, InvRing, Taken
<1>2. record = accepted[n + 1].rec /\ sample = SampleBytes(record)
        /\ record \in Records
  BY <1>0, <1>1, HistoryTypes DEF IInv, InvExport
<1>3. [rec |-> record, bytes |-> sample] = Frame(accepted[n + 1].rec)
  BY <1>2 DEF Frame
<1>4. exported \in Seq({Frame(rec) : rec \in Records})
        /\ Frame(accepted[n + 1].rec) \in {Frame(rec) : rec \in Records}
  BY <1>2 DEF IInv, InvExport
<1>5. /\ exported' \in Seq({Frame(rec) : rec \in Records})
      /\ Len(exported') = n + 1
      /\ \A i \in 1..n : exported'[i] = exported[i]
      /\ exported'[n + 1] = Frame(accepted[n + 1].rec)
  BY <1>0, <1>3, <1>4
<1>6. Written' = Written /\ AcceptedCount' = AcceptedCount /\ Taken' = Taken
  BY <1>0, <1>1, <1>5 DEF Written, AcceptedCount, Taken
<1>7. ReadPos' = ReadPos
  BY <1>0, <1>6 DEF ReadPos
<1>8. InvLayout'
  BY <1>0, <1>6 DEF IInv, InvLayout
<1>9. InvRing'
  BY <1>0, <1>6, <1>7 DEF IInv, InvRing, InvUnread
<1>10. InvExport'
  <2>1. ASSUME NEW i \in 1..n + 1
        PROVE  exported'[i] = Frame(accepted[i].rec)
    <3>1. CASE i \in 1..n
      BY <3>1, <1>5 DEF IInv, InvExport
    <3>2. CASE i = n + 1
      BY <3>2, <1>5
    <3>. QED
      BY <1>1, <3>1, <3>2
  <2>. QED
    BY <1>0, <1>5, <2>1 DEF InvExport
<1>11. delivered \in Count /\ delivered = accepted[n + 1].before
  BY <1>1 DEF IInv, TypeOK, InvCounts, CountBefore
<1>12. delivered' = CountBefore(Len(exported) + 1)'
  <2>1. CASE n + 1 = Len(accepted)
    <3>1. accepted # <<>>
      BY <1>1
    <3>2. AcceptedCount = AddTo(accepted[n + 1].before, accepted[n + 1].rec)
      BY <2>1, <3>1 DEF AcceptedCount
    <3>. QED
      BY <1>0, <1>1, <1>2, <1>5, <1>6, <1>11, <2>1, <3>2 DEF CountBefore
  <2>2. CASE n + 1 < Len(accepted)
    <3>1. n + 1 \in 1..Len(accepted) - 1
      BY <1>1, <2>2
    <3>2. accepted[(n + 1) + 1].before = AddTo(accepted[n + 1].before, accepted[n + 1].rec)
      BY <3>1 DEF IInv, InvLayout
    <3>. QED
      BY <1>0, <1>1, <1>2, <1>5, <1>11, <2>2, <3>2 DEF CountBefore
  <2>. QED
    BY <1>1, <2>1, <2>2
<1>13. InvCounts'
  BY <1>0, <1>6, <1>12 DEF IInv, InvCounts
<1>14. InvControl'
  BY <1>0 DEF IInv, InvControl
<1>15. TypeOK'
  <2>1. delivered' \in Count
    BY <1>0, <1>2, <1>11, AddToCount
  <2>. QED
    BY <1>0, <2>1 DEF IInv, TypeOK
<1>. QED
  BY <1>8, <1>9, <1>10, <1>13, <1>14, <1>15 DEF IInv

\* Taking a record out of the ring: what the two reads return is the oldest
\* frame not yet taken, and the tail moves to the start of the next one.
LEMMA ReadInv ==
    ASSUME IInv, WorkerRead
    PROVE  IInv'
<1>. DEFINE n == Len(exported)
            e == accepted[n + 1]
            c == capacity
            R == e.at
            size == e.rec.size
            header == QueueRead(ring, c, tail, HeaderSize)
            after == Advance(tail, HeaderSize, c)
<1>0. /\ worker = "loop" /\ worker' = "exporting" /\ used > 0
      /\ record' = header[0].rec
      /\ sample' = QueueRead(ring, c, after, record'.size)
      /\ tail' = Advance(after, record'.size, c)
      /\ used' = used - (HeaderSize + record'.size)
      /\ UNCHANGED <<data, capacity, ring, head, dropped, kernel_lost, stopping, tick,
                     producer, saw_stopping, told, accepted, exported, offered,
                     delivered, offers, sessions>>
  BY DEF WorkerRead, history
<1>1. data /\ Taken = n /\ n \in Nat /\ Len(accepted) \in Nat /\ Written \in Nat
        /\ used \in 0..c /\ c \in Nat \ {0} /\ used = Written - ReadPos
        /\ Taken <= Len(accepted)
  BY <1>0, HistoryTypes, HeaderAssumption DEF IInv, InvControl, InvRing, TypeOK, Taken
<1>2. n < Len(accepted) /\ n + 1 \in 1..Len(accepted) /\ n + 1 \in Taken + 1..Len(accepted)
  BY <1>0, <1>1 DEF ReadPos
<1>3. e.rec \in Records /\ R \in Nat /\ size \in Nat /\ HeaderSize \in Nat \ {0}
        /\ FrameLen(e.rec) = HeaderSize + size /\ FrameLen(e.rec) \in Nat
  BY <1>2, HistoryTypes, HeaderAssumption DEF IInv, FrameLen
<1>4. R + FrameLen(e.rec) <= Written
  BY <1>2 DEF IInv, InvLayout
<1>5. ReadPos = R /\ IsIndex(tail, R, c)
  BY <1>1, <1>2 DEF IInv, InvRing, ReadPos, IsIndex
<1>6. FrameLen(e.rec) <= used /\ HeaderSize <= c /\ size <= c
  <2>. DEFINE m == FrameLen(e.rec)
  <2>. HIDE DEF R, size, m
  <2>1. m \in Nat /\ m = HeaderSize + size /\ R + m <= Written /\ used = Written - R
    BY <1>1, <1>3, <1>4, <1>5 DEF m
  <2>2. m <= used /\ HeaderSize <= c /\ size <= c
    BY <1>1, <1>3, <2>1
  <2>. QED
    BY <2>2 DEF m
<1>7. \A k \in 0..FrameLen(e.rec) - 1 : ring[(R + k) % c] = [rec |-> e.rec, k |-> k]
  BY <1>1, <1>2 DEF IInv, InvRing, InvUnread
<1>. HIDE DEF R, size
<1>8. record' = e.rec
  <2>1. header = BytesAt(ring, c, R, HeaderSize)
    BY <1>1, <1>3, <1>5, <1>6, ReadReturns
  <2>2. 0 \in 0..HeaderSize - 1 /\ 0 \in 0..FrameLen(e.rec) - 1
    BY <1>3
  <2>3. header[0] = ring[(R + 0) % c]
    BY <2>1, <2>2 DEF BytesAt
  <2>4. ring[(R + 0) % c] = [rec |-> e.rec, k |-> 0]
    BY <1>7, <2>2
  <2>. QED
    BY <1>0, <2>3, <2>4
<1>9. IsIndex(after, R + HeaderSize, c) /\ R + HeaderSize \in Nat
  BY <1>1, <1>3, <1>5, AdvancePosition
<1>10. sample' = SampleBytes(record')
  <2>1. QueueRead(ring, c, after, size) = BytesAt(ring, c, R + HeaderSize, size)
    <3>. HIDE DEF after
    <3>. QED
      BY <1>1, <1>3, <1>6, <1>9, ReadReturns
  <2>2. ASSUME NEW k \in 0..size - 1
        PROVE  ring[((R + HeaderSize) + k) % c] = [rec |-> e.rec, k |-> HeaderSize + k]
    <3>1. HeaderSize + k \in 0..FrameLen(e.rec) - 1
            /\ (R + HeaderSize) + k = R + (HeaderSize + k)
      BY <1>3
    <3>. QED
      BY <3>1, <1>7
  <2>. QED
    BY <1>0, <1>8, <2>1, <2>2 DEF SampleBytes, BytesAt, size
<1>11. IsIndex(tail', R + FrameLen(e.rec), c) /\ R + FrameLen(e.rec) \in Nat
  <2>1. IsIndex(Advance(after, size, c), (R + HeaderSize) + size, c)
    <3>. HIDE DEF after
    <3>. QED
      BY <1>1, <1>3, <1>9, AdvancePosition
  <2>2. (R + HeaderSize) + size = R + FrameLen(e.rec)
    BY <1>3
  <2>. QED
    BY <1>0, <1>3, <1>8, <2>1, <2>2 DEF size
<1>12. Written' = Written /\ AcceptedCount' = AcceptedCount /\ Taken' = n + 1
  BY <1>0, <1>1 DEF Written, AcceptedCount, Taken
<1>13. ReadPos' = R + FrameLen(e.rec)
  <2>1. CASE n + 1 < Len(accepted)
    <3>1. n + 1 \in 1..Len(accepted) - 1
      BY <1>1, <2>1
    <3>2. accepted[(n + 1) + 1].at = R + FrameLen(e.rec)
      BY <3>1 DEF IInv, InvLayout, R
    <3>. QED
      BY <1>0, <1>12, <2>1, <3>2 DEF ReadPos
  <2>2. CASE n + 1 = Len(accepted)
    <3>1. accepted # <<>>
      BY <1>2
    <3>2. Written = R + HeaderSize + size
      BY <2>2, <3>1 DEF Written, R, size
    <3>. QED
      BY <1>0, <1>3, <1>12, <2>2, <3>2 DEF ReadPos
  <2>. QED
    BY <1>1, <1>2, <2>1, <2>2
<1>14. used' = used - FrameLen(e.rec)
  BY <1>0, <1>3, <1>8 DEF size
<1>15. InvLayout'
  BY <1>0, <1>12 DEF IInv, InvLayout
<1>16. InvUnread'
  <2>1. \A i \in (n + 1) + 1..Len(accepted) : i \in Taken + 1..Len(accepted)
    BY <1>1
  <2>. QED
    BY <1>0, <1>1, <1>12, <2>1 DEF IInv, InvRing, InvUnread
<1>17. InvRing'
  <2>1. used' = Written' - ReadPos'
    BY <1>1, <1>3, <1>5, <1>12, <1>13, <1>14
  <2>2. tail' = ReadPos' % c
    BY <1>11, <1>13 DEF IsIndex
  <2>3. capacity' > HeaderSize /\ head' = Written' % c
    BY <1>0, <1>1, <1>12 DEF IInv, InvRing
  <2>4. Taken' <= Len(accepted')
    BY <1>0, <1>1, <1>2, <1>12
  <2>. QED
    BY <1>0, <1>1, <1>16, <2>1, <2>2, <2>3, <2>4 DEF InvRing
<1>18. InvExport'
  BY <1>0, <1>8, <1>10 DEF IInv, InvExport
<1>19. InvCounts'
  BY <1>0, <1>12 DEF IInv, InvCounts, CountBefore
<1>20. InvControl'
  BY <1>0 DEF IInv, InvControl
<1>21. TypeOK'
  <2>1. used' \in 0..c
    BY <1>1, <1>3, <1>6, <1>14
  <2>2. tail' \in Nat /\ tail' < c
    <3>1. tail' \in 0..c - 1
      BY <1>1, <1>11, IndexRange
    <3>. QED
      BY <1>1, <3>1
  <2>. QED
    BY <1>0, <1>3, <1>8, <2>1, <2>2 DEF IInv, TypeOK
<1>. QED
  BY <1>15, <1>17, <1>18, <1>19, <1>20, <1>21 DEF IInv

\* The steps that move no byte and no record.
LEMMA ControlInv ==
    ASSUME IInv,
           \/ CaptureQueueTick \/ CaptureQueueStop
           \/ WorkerWait \/ SpuriousWakeup \/ WorkerTakeTick \/ WorkerTick
           \/ WorkerReportLost \/ WorkerReportDropped
    PROVE  IInv'
<1>. DEFINE Quiet ==
              /\ UNCHANGED <<data, capacity, ring, head, tail, used, dropped,
                             kernel_lost, record, sample, history>>
              /\ worker' = "exporting" <=> worker = "exporting"
<1>. USE DEF IInv
<1>1. SUFFICES TypeOK' /\ Quiet /\ InvControl'
  BY QuietStep
<1>2. CASE CaptureQueueTick
  <2>1. Quiet
    BY <1>2 DEF CaptureQueueTick, Signal, locals
  <2>2. TypeOK'
    BY <1>2 DEF CaptureQueueTick, Signal, TypeOK, locals, history
  <2>3. InvControl'
    BY <1>2 DEF CaptureQueueTick, Signal, InvControl, locals, TypeOK
  <2>. QED
    BY <2>1, <2>2, <2>3
<1>3. CASE CaptureQueueStop
  <2>1. Quiet
    BY <1>3 DEF CaptureQueueStop, Signal, locals
  <2>2. TypeOK'
    BY <1>3 DEF CaptureQueueStop, Signal, TypeOK, locals, history
  <2>3. InvControl'
    BY <1>3 DEF CaptureQueueStop, Signal, InvControl, locals, TypeOK
  <2>. QED
    BY <2>1, <2>2, <2>3
<1>4. CASE WorkerWait
  <2>1. Quiet
    BY <1>4 DEF WorkerWait, queue, locals
  <2>2. TypeOK'
    BY <1>4 DEF WorkerWait, queue, TypeOK, locals, history
  <2>3. InvControl'
    BY <1>4 DEF WorkerWait, queue, InvControl, locals
  <2>. QED
    BY <2>1, <2>2, <2>3
<1>5. CASE SpuriousWakeup
  <2>1. Quiet
    BY <1>5 DEF SpuriousWakeup, queue, locals
  <2>2. TypeOK'
    BY <1>5 DEF SpuriousWakeup, queue, TypeOK, locals, history
  <2>3. InvControl'
    BY <1>5 DEF SpuriousWakeup, queue, InvControl, locals
  <2>. QED
    BY <2>1, <2>2, <2>3
<1>6. CASE WorkerTakeTick
  <2>1. Quiet
    BY <1>6 DEF WorkerTakeTick
  <2>2. TypeOK'
    BY <1>6 DEF WorkerTakeTick, TypeOK, history
  <2>3. InvControl'
    BY <1>6 DEF WorkerTakeTick, InvControl
  <2>. QED
    BY <2>1, <2>2, <2>3
<1>7. CASE WorkerTick
  <2>1. Quiet
    BY <1>7 DEF WorkerTick, queue, locals
  <2>2. TypeOK'
    BY <1>7 DEF WorkerTick, queue, TypeOK, locals, history
  <2>3. InvControl'
    BY <1>7 DEF WorkerTick, queue, InvControl, locals
  <2>. QED
    BY <2>1, <2>2, <2>3
<1>8. CASE WorkerReportLost
  <2>1. Quiet
    BY <1>8 DEF WorkerReportLost, queue, locals
  <2>2. told' \in Count /\ told'.lost = kernel_lost
    BY <1>8 DEF WorkerReportLost, TypeOK, Count
  <2>3. TypeOK'
    BY <1>8, <2>2 DEF WorkerReportLost, queue, TypeOK, locals, history
  <2>4. InvControl'
    BY <1>8, <2>2 DEF WorkerReportLost, queue, InvControl, locals
  <2>. QED
    BY <2>1, <2>3, <2>4
<1>9. CASE WorkerReportDropped
  <2>1. Quiet
    BY <1>9 DEF WorkerReportDropped, queue, locals
  <2>2. told' \in Count /\ told'.events = dropped /\ told'.lost = told.lost
    BY <1>9 DEF WorkerReportDropped, TypeOK, Count
  <2>3. TypeOK'
    BY <1>9, <2>2 DEF WorkerReportDropped, queue, TypeOK, locals, history
  <2>4. InvControl'
    BY <1>9, <2>2 DEF WorkerReportDropped, queue, InvControl, locals
  <2>. QED
    BY <2>1, <2>3, <2>4
<1>. QED
  BY <1>2, <1>3, <1>4, <1>5, <1>6, <1>7, <1>8, <1>9

\* pthread_join returns and the ring is freed: by then it is empty.
LEMMA JoinInv ==
    ASSUME IInv, Join
    PROVE  IInv'
<1>0. /\ worker = "exited" /\ worker' = "none" /\ producer' = "off" /\ data' = FALSE
      /\ UNCHANGED <<capacity, ring, head, tail, used, dropped, kernel_lost, stopping,
                     tick, record, sample, saw_stopping, told, accepted, exported,
                     offered, delivered, offers, sessions>>
  BY DEF Join, locals, history
<1>1. Taken = Len(accepted)
  BY <1>0, EmptyMeansTaken DEF IInv, InvControl
<1>2. Written' = Written /\ AcceptedCount' = AcceptedCount /\ Taken' = Taken
  BY <1>0 DEF Written, AcceptedCount, Taken
<1>3. InvLayout'
  BY <1>0, <1>2 DEF IInv, InvLayout
<1>4. InvRing'
  BY <1>0, <1>1, <1>2, HistoryTypes DEF IInv, InvRing
<1>5. InvExport'
  BY <1>0 DEF IInv, InvExport
<1>6. InvCounts'
  BY <1>0, <1>2 DEF IInv, InvCounts, CountBefore
<1>7. InvControl'
  BY <1>0 DEF IInv, InvControl
<1>8. TypeOK'
  BY <1>0 DEF IInv, TypeOK
<1>. QED
  BY <1>3, <1>4, <1>5, <1>6, <1>7, <1>8 DEF IInv

\* Every step of either thread preserves the invariant.
LEMMA NextInv == IInv /\ [Next]_vars => IInv'
<1>. SUFFICES ASSUME IInv, [Next]_vars PROVE IInv'
  OBVIOUS
<1>1. CASE \E cap \in Capacities : StartQueue(cap)
  BY <1>1, StartInv
<1>2. CASE (\E size \in Sizes : CaptureQueueEvent(size))
             \/ (\E count \in LostCounts : CaptureQueueLost(count))
  BY <1>2, PushInv
<1>3. CASE \/ CaptureQueueTick \/ CaptureQueueStop
           \/ WorkerWait \/ SpuriousWakeup \/ WorkerTakeTick \/ WorkerTick
           \/ WorkerReportLost \/ WorkerReportDropped
  BY <1>3, ControlInv
<1>4. CASE WorkerRead
  BY <1>4, ReadInv
<1>5. CASE WorkerExport
  BY <1>5, ExportInv
<1>6. CASE Join
  BY <1>6, JoinInv
<1>7. CASE UNCHANGED vars
  <2>. USE <1>7 DEF vars, queue, locals, history
  <2>1. InvLayout' /\ InvRing' /\ InvExport' /\ InvCounts'
    BY QuietStep
  <2>2. TypeOK'
    BY DEF IInv, TypeOK
  <2>3. InvControl'
    BY DEF IInv, InvControl
  <2>. QED
    BY <2>1, <2>2, <2>3 DEF IInv
<1>. QED
  BY <1>1, <1>2, <1>3, <1>4, <1>5, <1>6, <1>7 DEF Next, Producer, Worker

---------------------------------------------------------------------------
(* The theorems *)

\* The inductive invariant holds in every reachable state.
THEOREM Invariance == Spec => []IInv
BY InitInv, NextInv, PTL DEF Spec

\* The types hold: in particular no index leaves the ring and used never
\* exceeds the capacity nor becomes negative.
THEOREM TypeCorrectness == Spec => []TypeOK
<1>1. IInv => TypeOK
  BY DEF IInv
<1>. QED
  BY <1>1, Invariance, PTL

\* queue_write never overwrites a byte that the exporter has not read.
THEOREM UnreadBytesSafe == Spec => []UnreadIntact
<1>1. IInv => UnreadIntact
  <2>. SUFFICES ASSUME IInv, NEW i \in DOMAIN accepted, i > Taken,
                       NEW k \in 0..HeaderSize + accepted[i].rec.size - 1
                PROVE  ring[(accepted[i].at + k) % capacity]
                         = [rec |-> accepted[i].rec, k |-> k]
    BY DEF UnreadIntact
  <2>1. i \in 1..Len(accepted) /\ Taken \in Nat /\ Len(accepted) \in Nat
    BY HistoryTypes DEF IInv, TypeOK
  <2>2. i \in Taken + 1..Len(accepted) /\ Taken # Len(accepted)
    BY <2>1
  <2>3. data /\ InvUnread
    BY <2>2 DEF IInv, InvRing
  <2>4. FrameLen(accepted[i].rec) = HeaderSize + accepted[i].rec.size
    BY DEF FrameLen
  <2>5. k \in 0..FrameLen(accepted[i].rec) - 1
    <3>1. accepted[i].rec.size \in Nat
      BY <2>1, HistoryTypes DEF IInv
    <3>. QED
      BY <2>4, <3>1, HeaderAssumption
  <2>. QED
    BY <2>2, <2>3, <2>5 DEF InvUnread
<1>. QED
  BY <1>1, Invariance, PTL

\* What reaches the exporter is the accepted records, in order, intact.
THEOREM ExportCorrect == Spec => []ExportsAcceptedInOrder
<1>1. IInv => ExportsAcceptedInOrder
  <2>. SUFFICES ASSUME IInv PROVE ExportsAcceptedInOrder
    OBVIOUS
  <2>1. Len(exported) <= Len(accepted)
    BY HistoryTypes DEF IInv, InvRing, Taken
  <2>2. DOMAIN exported = 1..Len(exported)
    BY DEF IInv, InvExport
  <2>. QED
    BY <2>1, <2>2 DEF IInv, InvExport, ExportsAcceptedInOrder
<1>. QED
  BY <1>1, Invariance, PTL

\* At the end of a session every offered event and every kernel loss was
\* either exported or reported.
THEOREM AccountingCorrect == Spec => []LossesAccounted
<1>1. IInv => LossesAccounted
  <2>. SUFFICES ASSUME IInv, worker = "exited"
                PROVE  /\ offered.events = delivered.events + told.events
                       /\ offered.lost = delivered.lost + told.lost
    BY DEF LossesAccounted
  <2>1. data /\ used = 0 /\ told.lost = kernel_lost /\ told.events = dropped
    BY DEF IInv, InvControl
  <2>2. Len(exported) = Len(accepted) /\ Len(accepted) \in Nat
    BY <2>1, EmptyMeansTaken, HistoryTypes DEF Taken, IInv
  <2>3. delivered = AcceptedCount
    BY <2>2 DEF IInv, InvCounts, CountBefore
  <2>. QED
    BY <2>1, <2>3 DEF IInv, InvCounts
<1>. QED
  BY <1>1, Invariance, PTL

\* No wakeup is lost, the report is made in quiet, and the memory outlives
\* the thread.
THEOREM ControlCorrect == Spec => []ThreadsAgree
<1>1. IInv => ThreadsAgree
  BY DEF IInv, InvControl, ThreadsAgree, NoLostWakeup, ReportIsQuiet,
         MemoryOutlivesThread
<1>. QED
  BY <1>1, Invariance, PTL

---------------------------------------------------------------------------
(* The queue implements LossyQueue *)

\* While a session is open the exporter has been told nothing until it
\* reports, after its loop.
InvTold ==
    data /\ worker \notin {"report_dropped", "exited"} => told = NoCount

\* The records of a history, without what the model notes beside them: the
\* refinement mapping of both accepted and exported.
Recs(s) == [i \in DOMAIN s |-> s[i].rec]

\* Noting one more record in a history appends it to the mapped history.
LEMMA RecsAppend ==
    ASSUME NEW S, NEW s \in Seq(S), NEW e \in S
    PROVE  /\ Recs(s) \in Seq({x.rec : x \in S})
           /\ Len(Recs(s)) = Len(s)
           /\ Recs(Append(s, e)) = Append(Recs(s), e.rec)
<1>1. DOMAIN s = 1..Len(s) /\ Len(s) \in Nat
  OBVIOUS
<1>2. Recs(s) \in [1..Len(s) -> {x.rec : x \in S}]
  BY <1>1, ElementOfSeq DEF Recs
<1>3. Recs(s) \in Seq({x.rec : x \in S}) /\ Len(Recs(s)) = Len(s)
  BY <1>1, <1>2, SeqDef DEF Recs
<1>4. Append(s, e) \in Seq(S) /\ Len(Append(s, e)) = Len(s) + 1
        /\ \A i \in 1..Len(s) + 1 :
             Append(s, e)[i] = IF i <= Len(s) THEN s[i] ELSE e
  BY AppendProperties
<1>5. Append(Recs(s), e.rec) = [i \in 1..Len(s) + 1 |->
                                   IF i <= Len(s) THEN s[i].rec ELSE e.rec]
  <2>. DEFINE q == Append(Recs(s), e.rec)
  <2>1. q \in Seq({x.rec : x \in S}) /\ Len(q) = Len(s) + 1
          /\ \A i \in 1..Len(s) + 1 : q[i] = IF i <= Len(s) THEN Recs(s)[i] ELSE e.rec
    BY <1>3, AppendProperties
  <2>2. \A i \in 1..Len(s) : Recs(s)[i] = s[i].rec
    BY <1>1 DEF Recs
  <2>3. q = [i \in 1..Len(s) + 1 |-> q[i]]
    BY <2>1
  <2>. QED
    BY <1>1, <2>1, <2>2, <2>3
<1>6. Recs(Append(s, e)) = [i \in 1..Len(s) + 1 |-> Append(s, e)[i].rec]
  BY <1>4 DEF Recs
<1>. QED
  BY <1>3, <1>4, <1>5, <1>6

\* The refusals are reported by the exporter only.
LEMMA ToldInv ==
    ASSUME IInv, InvTold, [Next]_vars
    PROVE  InvTold'
<1>. USE DEF InvTold
<1>1. ASSUME NEW cap \in Capacities, StartQueue(cap) PROVE InvTold'
  BY <1>1 DEF StartQueue
<1>2. ASSUME NEW rec, CaptureQueuePush(rec) PROVE InvTold'
  BY <1>2 DEF CaptureQueuePush, WriteFrame, CountLoss, Signal, IInv, InvControl
<1>3. CASE CaptureQueueTick
  BY <1>3 DEF CaptureQueueTick, Signal
<1>4. CASE CaptureQueueStop
  BY <1>4 DEF CaptureQueueStop, Signal
<1>5. CASE Join
  BY <1>5 DEF Join
<1>6. CASE WorkerWait \/ SpuriousWakeup \/ WorkerTakeTick \/ WorkerTick
  BY <1>6 DEF WorkerWait, SpuriousWakeup, WorkerTakeTick, WorkerTick, queue
<1>7. CASE WorkerRead \/ WorkerExport
  BY <1>7 DEF WorkerRead, WorkerExport, queue
<1>8. CASE WorkerReportLost \/ WorkerReportDropped
  BY <1>8 DEF WorkerReportLost, WorkerReportDropped
<1>9. CASE UNCHANGED vars
  BY <1>9 DEF vars, queue
<1>. QED
  BY <1>1, <1>2, <1>3, <1>4, <1>5, <1>6, <1>7, <1>8, <1>9
     DEF Next, Producer, Worker, CaptureQueueEvent, CaptureQueueLost

\* A step that leaves alone what LossyQueue sees is a stuttering step of it.
LEMMA StutterMaps ==
    ASSUME UNCHANGED <<data, dropped, kernel_lost, told, accepted, exported>>
    PROVE  UNCHANGED Abstract!lqvars
BY DEF Abstract!lqvars

\* capture_queue_start opens the abstract queue, or fails to.
LEMMA StartMaps ==
    ASSUME NEW cap \in Capacities, StartQueue(cap)
    PROVE  Abstract!Open
<1>0. ~data /\ data' \in BOOLEAN /\ dropped' = 0 /\ kernel_lost' = 0
        /\ told' = NoCount /\ accepted' = <<>> /\ exported' = <<>>
  BY DEF StartQueue, ResetQueue
<1>1. [i \in DOMAIN accepted' |-> accepted'[i].rec] = <<>>
        /\ [i \in DOMAIN exported' |-> exported'[i].rec] = <<>>
  BY <1>0
<1>. QED
  BY <1>0, <1>1 DEF Abstract!Open, Abstract!Nothing, NoCount

\* capture_queue_push accepts or refuses, before anything is reported.
LEMMA PushMaps ==
    ASSUME IInv, InvTold, NEW rec \in Records, CaptureQueuePush(rec)
    PROVE  Abstract!Accept(rec) \/ Abstract!Refuse(rec)
<1>0. producer = "running" /\ UNCHANGED <<data, told, exported>>
  BY DEF CaptureQueuePush
<1>1. data /\ told = NoCount
  BY <1>0 DEF IInv, InvControl, InvTold
<1>2. CASE Fits(rec)
  <2>1. accepted' = Append(accepted, Entry(rec)) /\ UNCHANGED <<dropped, kernel_lost>>
    BY <1>2 DEF CaptureQueuePush, WriteFrame
  <2>2. accepted \in Seq(Entries) /\ Entry(rec) \in Entries /\ Entry(rec).rec = rec
    BY HistoryTypes DEF IInv, TypeOK, Entries, Entry
  <2>3. Recs(accepted') = Append(Recs(accepted), rec)
    BY <2>1, <2>2, RecsAppend
  <2>. QED
    BY <1>0, <1>1, <2>1, <2>3 DEF Abstract!Accept, Abstract!Nothing, NoCount, Recs
<1>3. CASE ~Fits(rec)
  <2>1. IF rec.lost > 0
        THEN kernel_lost' = kernel_lost + rec.lost /\ UNCHANGED dropped
        ELSE dropped' = dropped + 1 /\ UNCHANGED kernel_lost
    BY <1>3 DEF CaptureQueuePush, CountLoss
  <2>2. UNCHANGED accepted
    BY <1>3 DEF CaptureQueuePush, CountLoss
  <2>3. [events |-> dropped', lost |-> kernel_lost']
          = Abstract!AddRefusal([events |-> dropped, lost |-> kernel_lost], rec)
    BY <2>1 DEF Abstract!AddRefusal
  <2>. QED
    BY <1>0, <1>1, <2>2, <2>3 DEF Abstract!Refuse, Abstract!Nothing, NoCount
<1>. QED
  BY <1>2, <1>3

\* The call into perfetto_export delivers the next message in order.
LEMMA ExportMaps ==
    ASSUME IInv, WorkerExport
    PROVE  Abstract!Deliver
<1>. DEFINE n == Len(exported)
            frame == [rec |-> record, bytes |-> sample]
<1>0. /\ worker = "exporting" /\ exported' = Append(exported, frame)
      /\ UNCHANGED <<data, dropped, kernel_lost, told, accepted>>
  BY DEF WorkerExport, queue
<1>1. data /\ n \in Nat /\ Len(accepted) \in Nat /\ n + 1 <= Len(accepted)
  BY <1>0, HistoryTypes DEF IInv, InvControl, InvRing, Taken
<1>2. record = accepted[n + 1].rec /\ n + 1 \in 1..Len(accepted)
  BY <1>0, <1>1 DEF IInv, InvExport
<1>3. frame \in {Frame(rec) : rec \in Records}
  <2>1. record \in Records /\ sample = SampleBytes(record)
    BY <1>0, <1>2, HistoryTypes DEF IInv, InvExport
  <2>. QED
    BY <2>1 DEF Frame
<1>4. exported \in Seq({Frame(rec) : rec \in Records}) /\ accepted \in Seq(Entries)
  BY DEF IInv, InvExport, TypeOK
<1>. HIDE DEF frame
<1>5. Recs(exported') = Append(Recs(exported), frame.rec) /\ Len(Recs(exported)) = n
  BY <1>0, <1>3, <1>4, RecsAppend
<1>6. Len(Recs(accepted)) = Len(accepted) /\ Recs(accepted)[n + 1] = accepted[n + 1].rec
  <2>1. \E e : e \in Entries
    BY <1>2, <1>4, ElementOfSeq
  <2>2. Len(Recs(accepted)) = Len(accepted)
    BY <1>4, <2>1, RecsAppend
  <2>. QED
    BY <1>2, <1>4, <2>2 DEF Recs
<1>7. frame.rec = Recs(accepted)[n + 1]
  BY <1>2, <1>6 DEF frame
<1>. HIDE DEF n
<1>8. Len(Recs(exported)) < Len(Recs(accepted))
  BY <1>1, <1>5, <1>6
<1>. QED
  BY <1>0, <1>1, <1>5, <1>7, <1>8 DEF Abstract!Deliver, Recs

\* Once the ring is empty and no record is being exported, the exporter has
\* been handed everything that was accepted.
LEMMA DrainedMeansEqual ==
    ASSUME IInv, data, used = 0, worker # "exporting"
    PROVE  Recs(exported) = Recs(accepted)
<1>1. Len(exported) = Len(accepted)
  BY EmptyMeansTaken, HistoryTypes DEF Taken, IInv
<1>2. DOMAIN exported = 1..Len(exported) /\ DOMAIN accepted = 1..Len(accepted)
  BY DEF IInv, InvExport, TypeOK
<1>3. \A i \in 1..Len(accepted) : exported[i].rec = accepted[i].rec
  <2>1. \A i \in 1..Len(exported) : exported[i] = Frame(accepted[i].rec)
    BY DEF IInv, InvExport
  <2>2. \A rec : Frame(rec).rec = rec
    BY DEF Frame
  <2>. QED
    BY <1>1, <2>1, <2>2
<1>. QED
  BY <1>1, <1>2, <1>3 DEF Recs

\* The two reports and pthread_join are the end of the abstract session.
LEMMA EndMaps ==
    ASSUME IInv, WorkerReportLost \/ WorkerReportDropped \/ Join
    PROVE  Abstract!ReportLost \/ Abstract!ReportEvents \/ Abstract!Close
<1>1. worker \in {"report_lost", "report_dropped", "exited"}
  BY DEF WorkerReportLost, WorkerReportDropped, Join
<1>2. data /\ used = 0 /\ worker # "exporting"
  BY <1>1 DEF IInv, InvControl
<1>3. Recs(exported) = Recs(accepted)
  BY <1>2, DrainedMeansEqual
<1>4. CASE WorkerReportLost
  BY <1>2, <1>3, <1>4 DEF WorkerReportLost, queue, history, Abstract!ReportLost, Recs
<1>5. CASE WorkerReportDropped
  BY <1>2, <1>3, <1>5 DEF WorkerReportDropped, queue, history, Abstract!ReportEvents, Recs
<1>6. CASE Join
  <2>1. told = [events |-> dropped, lost |-> kernel_lost]
    <3>1. told.events = dropped /\ told.lost = kernel_lost /\ told \in Count
      BY <1>6 DEF Join, IInv, InvControl, TypeOK
    <3>. QED
      BY <3>1 DEF Count
  <2>. QED
    BY <1>2, <1>3, <1>6, <2>1 DEF Join, history, Abstract!Close, Recs
<1>. QED
  BY <1>4, <1>5, <1>6

\* Every step of the queue is a step of LossyQueue or a stuttering step.
LEMMA StepMaps ==
    ASSUME IInv, InvTold, [Next]_vars
    PROVE  [Abstract!LQNext]_(Abstract!lqvars)
<1>1. ASSUME NEW cap \in Capacities, StartQueue(cap) PROVE Abstract!LQNext
  BY <1>1, StartMaps DEF Abstract!LQNext
<1>2. ASSUME NEW rec \in Records, CaptureQueuePush(rec) PROVE Abstract!LQNext
  BY <1>2, PushMaps DEF Abstract!LQNext
<1>3. ASSUME NEW size \in Sizes, CaptureQueueEvent(size) PROVE Abstract!LQNext
  <2>1. [id |-> offers + 1, size |-> size, lost |-> 0] \in Records
    BY <1>3, BoundAssumption DEF CaptureQueueEvent, CaptureQueuePush, Records, IInv, TypeOK
  <2>. QED
    BY <1>2, <1>3, <2>1 DEF CaptureQueueEvent
<1>4. ASSUME NEW count \in LostCounts, CaptureQueueLost(count) PROVE Abstract!LQNext
  <2>1. [id |-> offers + 1, size |-> 0, lost |-> count] \in Records
    BY <1>4, BoundAssumption DEF CaptureQueueLost, CaptureQueuePush, Records, IInv, TypeOK
  <2>. QED
    BY <1>2, <1>4, <2>1 DEF CaptureQueueLost
<1>5. CASE WorkerExport
  BY <1>5, ExportMaps DEF Abstract!LQNext
<1>6. CASE WorkerReportLost \/ WorkerReportDropped \/ Join
  BY <1>6, EndMaps DEF Abstract!LQNext
<1>7. CASE \/ CaptureQueueTick \/ CaptureQueueStop \/ WorkerWait \/ SpuriousWakeup
           \/ WorkerTakeTick \/ WorkerTick \/ WorkerRead \/ UNCHANGED vars
  <2>1. UNCHANGED <<data, dropped, kernel_lost, told, accepted, exported>>
    BY <1>7 DEF CaptureQueueTick, CaptureQueueStop, WorkerWait, SpuriousWakeup,
                WorkerTakeTick, WorkerTick, WorkerRead, vars, queue, history
  <2>. QED
    BY <2>1, StutterMaps
<1>. QED
  BY <1>1, <1>3, <1>4, <1>5, <1>6, <1>7 DEF Next, Producer, Worker

\* The ring, its lock and its two threads implement the abstract lossy
\* queue: capture_queue.h keeps its promise ("Joins the exporter after
\* draining all accepted records") for every capacity and load.
THEOREM QueueImplementsLossyQueue == Spec => ImplementsLossyQueue
<1>1. Init => InvTold
  BY DEF Init, InvTold
<1>2. Spec => []InvTold
  BY <1>1, Invariance, ToldInv, PTL DEF Spec
<1>3. Init => Abstract!LQInit
  BY DEF Init, Abstract!LQInit, Abstract!Nothing, NoCount
<1>. QED
  BY <1>2, <1>3, Invariance, StepMaps, PTL
     DEF Spec, ImplementsLossyQueue, Abstract!LQSpec
===========================================================================
