--------------------------- MODULE CaptureQueue ---------------------------
(***************************************************************************)
(* src/capture_queue.c: the byte ring between the thread that polls the    *)
(* perf buffers (the single producer) and the thread that exports to       *)
(* Perfetto.  One action is one section of code under queue.lock, or one   *)
(* call the exporter thread makes while it does not hold the lock.         *)
(*                                                                         *)
(* Data: an offered record is [id, size, lost].  id stands for the payload *)
(* and the CPU, lost is 0 for an event.  A byte in the ring is             *)
(* [rec, k]: byte k of the frame of rec, the first HeaderSize of them      *)
(* being the struct queue_record and the rest the sample.                  *)
(***************************************************************************)
EXTENDS Integers, Sequences

CONSTANTS
    Capacities,    \* capacities capture_queue_start may be called with
    HeaderSize,    \* sizeof(struct queue_record)
    MaxSample,     \* MAX_SAMPLE_BYTES
    Sizes,         \* sample sizes offered
    LostCounts,    \* nonzero counts of kernel losses offered
    MaxOffers,     \* bound: records offered in one session
    MaxSessions,   \* bound: capture_queue_start calls that get memory
    NoByte         \* content of memory that was never written

ASSUME CapacityAssumption == Capacities \subseteq Nat
ASSUME HeaderAssumption == HeaderSize \in Nat \ {0}
ASSUME SampleAssumption == MaxSample \in Nat /\ Sizes \subseteq Nat
ASSUME LostAssumption == LostCounts \subseteq Nat \ {0}
ASSUME BoundAssumption == MaxOffers \in Nat /\ MaxSessions \in Nat

VARIABLES
    \* static struct queue
    data,         \* queue.data # NULL
    capacity, ring, head, tail, used,
    dropped, kernel_lost, stopping, tick,
    \* the producer thread: "off", "running", or "joining" in pthread_join
    producer,
    \* the exporter thread: where it is, and its locals
    worker, record, sample, saw_stopping,
    \* what the exporter was told at the end of a session
    told,
    \* history of the session, not state of the program: the records accepted
    \* (each with what preceded it), the frames exported, the amounts offered
    \* and delivered, the number of records offered and of sessions
    accepted, exported, offered, delivered, offers, sessions

queue == <<data, capacity, ring, head, tail, used,
           dropped, kernel_lost, stopping, tick>>
locals == <<record, sample, saw_stopping>>
history == <<accepted, exported, offered, delivered, offers, sessions>>
vars == <<queue, producer, worker, locals, told, history>>

Records == [id : 1..MaxOffers, size : Sizes \cup {0}, lost : LostCounts \cup {0}]
NoRecord == [id |-> 0, size |-> 0, lost |-> 0]
NoCount == [events |-> 0, lost |-> 0]

---------------------------------------------------------------------------
(* The byte ring *)

MinOf(a, b) == IF a > b THEN b ELSE a

\* The bytes of the frame of rec that the two queue_write calls copy.
HeaderBytes(rec) == [k \in 0..HeaderSize - 1 |-> [rec |-> rec, k |-> k]]
SampleBytes(rec) ==
    [k \in 0..rec.size - 1 |-> [rec |-> rec, k |-> HeaderSize + k]]

\* memcpy up to the end of the ring, then the rest from its start.
QueueWrite(r, cap, h, bytes, size) ==
    LET first == MinOf(cap - h, size)
    IN  [j \in 0..cap - 1 |->
            IF j < size - first THEN bytes[first + j]
            ELSE IF h <= j /\ j < h + first THEN bytes[j - h]
            ELSE r[j]]

\* Mutant: the second copy does not start over at the start of the ring.
BugReadPastEnd(r, cap, t, size) ==
    [k \in 0..size - 1 |-> IF t + k < cap THEN r[t + k] ELSE r[k]]

QueueRead(r, cap, t, size) ==
    LET first == MinOf(cap - t, size)
    IN  [k \in 0..size - 1 |-> IF k < first THEN r[t + k] ELSE r[k - first]]

\* Mutant: an index that reaches the end exactly is not wrapped.
BugAdvance(pos, size, cap) == IF pos + size > cap THEN pos + size - cap ELSE pos + size

Advance(pos, size, cap) == (pos + size) % cap

\* Mutant: the header is left out of the space check.
BugFits(rec) == rec.size <= MaxSample /\ rec.size <= capacity - used

Fits(rec) ==
    /\ rec.size <= MaxSample
    /\ HeaderSize + rec.size <= capacity - used

\* Mutants: nobody is woken; a push only signals when the ring was not empty.
BugSignal(w) == w
BugWasEmpty == used > 0

\* pthread_cond_signal: wakes the exporter if it is waiting, else is lost.
Signal(w) == IF w = "waiting" THEN "loop" ELSE w

\* bool empty: the only case in which a push signals.
WasEmpty == used = 0

---------------------------------------------------------------------------
(* History bookkeeping *)

\* The entry of the next accepted record: the bytes, the events and the lost
\* count of all records accepted before it.
Written == IF accepted = <<>> THEN 0
           ELSE LET e == accepted[Len(accepted)] IN e.at + HeaderSize + e.rec.size
AddTo(count, rec) ==
    IF rec.lost > 0 THEN [count EXCEPT !.lost = @ + rec.lost]
                    ELSE [count EXCEPT !.events = @ + 1]
AcceptedCount == IF accepted = <<>> THEN NoCount
                 ELSE LET e == accepted[Len(accepted)] IN AddTo(e.before, e.rec)
Entry(rec) == [rec |-> rec, at |-> Written, before |-> AcceptedCount]

\* The frame that was written for rec, as the exporter should see it.
Frame(rec) == [rec |-> rec, bytes |-> SampleBytes(rec)]

---------------------------------------------------------------------------
(* The producer thread *)

Init ==
    /\ data = FALSE
    /\ capacity = 0 /\ ring = [j \in 0..-1 |-> NoByte] /\ head = 0 /\ tail = 0 /\ used = 0
    /\ dropped = 0 /\ kernel_lost = 0 /\ stopping = FALSE /\ tick = FALSE
    /\ producer = "off"
    /\ worker = "none"
    /\ record = NoRecord /\ sample = <<>> /\ saw_stopping = FALSE
    /\ told = NoCount
    /\ accepted = <<>> /\ exported = <<>>
    /\ offered = NoCount /\ delivered = NoCount
    /\ offers = 0 /\ sessions = 0

\* The fields capture_queue_start resets once it has memory.
ResetQueue(cap) ==
    /\ capacity' = cap
    /\ ring' = [j \in 0..cap - 1 |-> NoByte]
    /\ head' = 0 /\ tail' = 0 /\ used' = 0
    /\ dropped' = 0 /\ kernel_lost' = 0
    /\ stopping' = FALSE /\ tick' = FALSE

\* capture_queue_start.  -EBUSY, -EINVAL and -ENOMEM change nothing, so they
\* are stuttering steps: the guards name the conditions that pass.
StartQueue(cap) ==
    /\ ~data
    /\ cap >= HeaderSize + 1
    /\ producer = "off"
    /\ sessions < MaxSessions
    /\ sessions' = sessions + 1
    /\ ResetQueue(cap)
    /\ \/ /\ data' = TRUE
          /\ producer' = "running"
          /\ worker' = "loop"
       \/ /\ data' = FALSE        \* pthread_create failed: memory is freed
          /\ UNCHANGED <<producer, worker>>
    /\ told' = NoCount
    /\ accepted' = <<>> /\ exported' = <<>>
    /\ offered' = NoCount /\ delivered' = NoCount /\ offers' = 0
    /\ UNCHANGED locals

\* The else branch of capture_queue_push: header, then sample
\* (a sample of size 0 is an empty copy).
WriteFrame(rec) ==
    LET withHeader == QueueWrite(ring, capacity, head, HeaderBytes(rec), HeaderSize)
        afterHeader == Advance(head, HeaderSize, capacity)
    IN  /\ ring' = QueueWrite(withHeader, capacity, afterHeader,
                              SampleBytes(rec), rec.size)
        /\ head' = Advance(afterHeader, rec.size, capacity)
        /\ used' = used + HeaderSize + rec.size
        /\ worker' = IF WasEmpty THEN Signal(worker) ELSE worker
        /\ accepted' = Append(accepted, Entry(rec))
        /\ UNCHANGED <<dropped, kernel_lost>>

\* Mutant: a refused loss record counts as one, whatever it stands for.
BugCountLoss(rec) ==
    /\ IF rec.lost > 0
       THEN kernel_lost' = kernel_lost + 1 /\ UNCHANGED dropped
       ELSE dropped' = dropped + 1 /\ UNCHANGED kernel_lost
    /\ UNCHANGED <<ring, head, used, worker, accepted>>

\* Its other branch: the record is counted and its data is discarded.
CountLoss(rec) ==
    /\ IF rec.lost > 0
       THEN kernel_lost' = kernel_lost + rec.lost /\ UNCHANGED dropped
       ELSE dropped' = dropped + 1 /\ UNCHANGED kernel_lost
    /\ UNCHANGED <<ring, head, used, worker, accepted>>

CaptureQueuePush(rec) ==
    /\ producer = "running"
    /\ offers < MaxOffers
    /\ offers' = offers + 1
    /\ IF Fits(rec) THEN WriteFrame(rec) ELSE CountLoss(rec)
    /\ offered' = AddTo(offered, rec)
    /\ UNCHANGED <<data, capacity, tail, stopping, tick, producer, locals,
                   told, exported, delivered, sessions>>

CaptureQueueEvent(size) ==
    CaptureQueuePush([id |-> offers + 1, size |-> size, lost |-> 0])

\* A count of 0 is ignored, a stuttering step.
CaptureQueueLost(count) ==
    CaptureQueuePush([id |-> offers + 1, size |-> 0, lost |-> count])

CaptureQueueTick ==
    /\ producer = "running"
    /\ tick' = TRUE
    /\ worker' = Signal(worker)
    /\ UNCHANGED <<data, capacity, ring, head, tail, used, dropped,
                   kernel_lost, stopping, producer, locals, told, history>>

\* capture_queue_stop up to pthread_join.  Without data it does nothing.
CaptureQueueStop ==
    /\ producer = "running"
    /\ data
    /\ stopping' = TRUE
    /\ worker' = Signal(worker)
    /\ producer' = "joining"
    /\ UNCHANGED <<data, capacity, ring, head, tail, used, dropped,
                   kernel_lost, tick, locals, told, history>>

Join ==
    /\ producer = "joining"
    /\ worker = "exited"
    /\ data' = FALSE
    /\ producer' = "off"
    /\ worker' = "none"
    /\ UNCHANGED <<capacity, ring, head, tail, used, dropped, kernel_lost,
                   stopping, tick, locals, told, history>>

---------------------------------------------------------------------------
(* The exporter thread *)

\* Nothing to do: release the lock and wait, in one step.
WorkerWait ==
    /\ worker = "loop"
    /\ used = 0 /\ ~stopping /\ ~tick
    /\ worker' = "waiting"
    /\ UNCHANGED <<queue, producer, locals, told, history>>

\* pthread_cond_wait may return without a signal.
SpuriousWakeup ==
    /\ worker = "waiting"
    /\ worker' = "loop"
    /\ UNCHANGED <<queue, producer, locals, told, history>>

\* Mutant: a stop request is served before the ring is drained.
BugWorkerTakeTick ==
    /\ worker = "loop"
    /\ stopping \/ (used = 0 /\ tick)
    /\ saw_stopping' = stopping
    /\ tick' = FALSE
    /\ worker' = "ticking"
    /\ UNCHANGED <<data, capacity, ring, head, tail, used, dropped,
                   kernel_lost, stopping, producer, record, sample, told,
                   history>>

WorkerTakeTick ==
    /\ worker = "loop"
    /\ used = 0 /\ (stopping \/ tick)
    /\ saw_stopping' = stopping
    /\ tick' = FALSE
    /\ worker' = "ticking"
    /\ UNCHANGED <<data, capacity, ring, head, tail, used, dropped,
                   kernel_lost, stopping, producer, record, sample, told,
                   history>>

\* Mutant: the flag is read again after perfetto_export_tick, unlocked.
BugWorkerTick ==
    /\ worker = "ticking"
    /\ worker' = IF stopping THEN "report_lost" ELSE "loop"
    /\ UNCHANGED <<queue, producer, locals, told, history>>

\* perfetto_export_tick, then leave the loop or lock again.
WorkerTick ==
    /\ worker = "ticking"
    /\ worker' = IF saw_stopping THEN "report_lost" ELSE "loop"
    /\ UNCHANGED <<queue, producer, locals, told, history>>

WorkerRead ==
    /\ worker = "loop"
    /\ used > 0
    /\ LET header == QueueRead(ring, capacity, tail, HeaderSize)
           rec == header[0].rec
           afterHeader == Advance(tail, HeaderSize, capacity)
       IN  /\ record' = rec
           /\ sample' = QueueRead(ring, capacity, afterHeader, rec.size)
           /\ tail' = Advance(afterHeader, rec.size, capacity)
           /\ used' = used - (HeaderSize + rec.size)
    /\ worker' = "exporting"
    /\ UNCHANGED <<data, capacity, ring, head, dropped, kernel_lost, stopping,
                   tick, producer, saw_stopping, told, history>>

\* perfetto_export_lost or perfetto_export_event, without the lock.
WorkerExport ==
    /\ worker = "exporting"
    /\ exported' = Append(exported, [rec |-> record, bytes |-> sample])
    /\ delivered' = AddTo(delivered, record)
    /\ worker' = "loop"
    /\ UNCHANGED <<queue, producer, locals, told, accepted, offered, offers,
                   sessions>>

\* After the loop, still without the lock.
WorkerReportLost ==
    /\ worker = "report_lost"
    /\ told' = [told EXCEPT !.lost = kernel_lost]
    /\ worker' = "report_dropped"
    /\ UNCHANGED <<queue, producer, locals, history>>

WorkerReportDropped ==
    /\ worker = "report_dropped"
    /\ told' = [told EXCEPT !.events = dropped]
    /\ worker' = "exited"
    /\ UNCHANGED <<queue, producer, locals, history>>

Worker ==
    \/ WorkerWait \/ WorkerTakeTick \/ WorkerTick \/ WorkerRead
    \/ WorkerExport \/ WorkerReportLost \/ WorkerReportDropped

Producer ==
    \/ \E cap \in Capacities : StartQueue(cap)
    \/ \E size \in Sizes : CaptureQueueEvent(size)
    \/ \E count \in LostCounts : CaptureQueueLost(count)
    \/ CaptureQueueTick
    \/ CaptureQueueStop
    \/ Join

Next == Producer \/ Worker \/ SpuriousWakeup

Spec == Init /\ [][Next]_vars

\* The scheduler runs the exporter thread whenever it can move, and the join
\* returns once the thread has exited.  Nothing is assumed of the producer
\* (it may stop calling) nor of spurious wakeups.
Fairness == WF_vars(Worker) /\ WF_vars(Join)
FairSpec == Spec /\ Fairness

---------------------------------------------------------------------------
(* Properties *)

Byte == [rec : Records, k : Nat] \cup {NoByte}
Count == [events : Nat, lost : Nat]
Entries == [rec : Records, at : Nat, before : Count]

\* Types.  The ring has one cell per byte of the capacity in force.
TypeOK ==
    /\ data \in BOOLEAN
    /\ capacity \in Nat
    /\ ring \in [0..capacity - 1 -> Byte]
    /\ head \in Nat /\ tail \in Nat /\ used \in 0..capacity
    /\ data => head < capacity /\ tail < capacity
    /\ dropped \in Nat /\ kernel_lost \in Nat
    /\ stopping \in BOOLEAN /\ tick \in BOOLEAN
    /\ producer \in {"off", "running", "joining"}
    /\ worker \in {"none", "loop", "waiting", "ticking", "exporting",
                   "report_lost", "report_dropped", "exited"}
    /\ record \in Records \cup {NoRecord}
    /\ saw_stopping \in BOOLEAN
    /\ told \in Count /\ offered \in Count /\ delivered \in Count
    /\ accepted \in Seq(Entries)
    /\ offers \in 0..MaxOffers
    /\ sessions \in 0..MaxSessions

\* Records the exporter thread has taken out of the ring.
Taken == Len(exported) + (IF worker = "exporting" THEN 1 ELSE 0)

\* Every byte of a record that was accepted and not yet taken is still in
\* its cell: neither a later queue_write nor the wrap of either index has
\* overwritten or moved it, header and sample alike.
UnreadIntact ==
    \A i \in DOMAIN accepted : i > Taken =>
        LET e == accepted[i]
        IN  \A k \in 0..HeaderSize + e.rec.size - 1 :
                ring[(e.at + k) % capacity] = [rec |-> e.rec, k |-> k]

\* The exporter is handed exactly the accepted records, once each, in the
\* order they were offered, with the sample bytes they were pushed with,
\* although libbpf reuses the callback data and the ring wraps.
ExportsAcceptedInOrder ==
    /\ Len(exported) <= Len(accepted)
    /\ \A i \in DOMAIN exported : exported[i] = Frame(accepted[i].rec)

\* When the exporter thread has exited, everything offered in the session
\* was either exported or reported as lost, counting each kernel loss with
\* its weight: no record vanishes between the two counters and the ring.
LossesAccounted ==
    worker = "exited" =>
        /\ offered.events = delivered.events + told.events
        /\ offered.lost = delivered.lost + told.lost

\* The exporter never sleeps on queue.available while there is work:
\* signalling only on the empty to non-empty step loses no wakeup.
NoLostWakeup ==
    worker = "waiting" => used = 0 /\ ~stopping /\ ~tick

\* Once the exporter has left its loop the ring is empty and the producer is
\* in pthread_join, so reading kernel_lost and dropped without the lock is
\* safe and no record can be pushed behind its back.
ReportIsQuiet ==
    worker \in {"report_lost", "report_dropped", "exited"} =>
        used = 0 /\ producer = "joining"

\* The ring is freed only after the exporter thread has gone: no step of
\* either thread touches freed memory.
MemoryOutlivesThread == worker # "none" <=> data

\* The two threads agree at every point where the code relies on it without
\* holding the lock: no lost wakeup, a quiet final report, no use after free.
ThreadsAgree == NoLostWakeup /\ ReportIsQuiet /\ MemoryOutlivesThread

\* Every accepted record is eventually exported, without waiting for the
\* session to stop and however the producer behaves afterwards.
AcceptedIsExported ==
    \A i \in 1..MaxOffers : Len(accepted) >= i ~> Len(exported) >= i

\* capture_queue_stop returns: pthread_join is not left waiting for a thread
\* that sleeps.
StopReturns == producer = "joining" ~> producer = "off"

\* The queue keeps the promise of LossyQueue.
Abstract == INSTANCE LossyQueue WITH
    Message  <- Records,
    open     <- data,
    accepted <- [i \in DOMAIN accepted |-> accepted[i].rec],
    exported <- [i \in DOMAIN exported |-> exported[i].rec],
    refused  <- [events |-> dropped, lost |-> kernel_lost],
    reported <- told

\* Accepted records come out once each and in order, and what was refused is
\* reported after the last of them (capture_queue.h: "Joins the exporter
\* after draining all accepted records").
ImplementsLossyQueue == Abstract!LQSpec
===========================================================================
