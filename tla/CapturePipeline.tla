-------------------------- MODULE CapturePipeline --------------------------
(***************************************************************************)
(* The life of one capture: trace_poll of src/trace.c with its callbacks,  *)
(* the BPF programs that feed it on every CPU, the SIGINT handler and      *)
(* finish_trace of src/anettrace.c.  The export queue appears as the       *)
(* specification LossyQueue, which CaptureQueue implements.  The kernel's  *)
(* perf rings and libbpf's reader are external: they are modelled from     *)
(* what trace.c relies on.  args.traffic is not set.                       *)
(*                                                                         *)
(* A message is [cpu, seq, lost, late]: the seq-th output of a CPU, or a   *)
(* PERF_RECORD_LOST that stands for lost outputs.  late marks an output    *)
(* made after the gate was closed.  Sizes are counted in slots.            *)
(***************************************************************************)
EXTENDS Integers, Sequences, FiniteSets, Functions

CONSTANTS
    CPU,           \* CPUs with a perf ring
    NoCpu,         \* no ring is being read
    Modes,         \* subset of {"capture", "events", "terminal"}
    Slots,         \* records a perf ring holds
    DefaultPages,  \* pages per CPU tried first for a Perfetto export
    MinPages,      \* 64: no retry below
    Explicit,      \* --perf-buffer-pages was given
    Limit,         \* --count, 0 for none
    HasDuration,   \* --duration was given, without --ring-buffer
    MaxOutputs     \* bound: outputs of all CPUs together

ASSUME CpuAssumption == IsFiniteSet(CPU) /\ NoCpu \notin CPU
ASSUME ModeAssumption == Modes \subseteq {"capture", "events", "terminal"}
ASSUME SlotAssumption == Slots \in Nat \ {0} /\ MaxOutputs \in Nat /\ Limit \in Nat
\* Both sizes are powers of two times the same number: halving DefaultPages
\* leads to MinPages and not past it.
ASSUME PageAssumption ==
    /\ MinPages \in Nat \ {0} /\ DefaultPages \in Nat /\ DefaultPages >= MinPages
    /\ \E P \in SUBSET (MinPages..DefaultPages) :
          DefaultPages \in P /\ \A p \in P \ {MinPages} : p \div 2 \in P
ASSUME FlagAssumption == Explicit \in BOOLEAN /\ HasDuration \in BOOLEAN

VARIABLES
    mode,          \* --capture-trace, --perfetto-events or terminal output
    ready, event_count,       \* bpf_args in m_config
    stop,                     \* trace_ctx.stop
    expired,                  \* the clock has passed poll_deadline_ns
    prog, tmp,                \* per CPU: the BPF program and the count it read
    ring, klost,              \* per CPU: unread records, rb->lost
    pc, pages, err, rc,       \* trace_poll and its caller
    todo, cur, snap, pos, draining,   \* libbpf's reader
    saved,                    \* event_count in bpf_args_buf
    capture_async, queue_stopping, ended,
    direct,                   \* records exported by the polling thread itself
    final,                    \* the count finish_trace puts in trace_end
    open, accepted, exported, refused, reported,     \* the export queue
    \* history: outputs per CPU, outputs after the rings were freed, records
    \* a callback discarded
    outputs, unsent, discarded

bpf == <<ready, event_count, prog, tmp, ring, klost, outputs, unsent>>
reader == <<todo, cur, snap, pos, draining>>
queue == <<open, accepted, exported, refused, reported>>
export == <<queue, direct, discarded>>
control == <<pages, err, rc, saved, capture_async, queue_stopping, ended, final>>
vars == <<mode, bpf, stop, expired, pc, control, reader, export>>

Messages == [cpu : CPU, seq : 0..MaxOutputs, lost : 0..MaxOutputs, late : BOOLEAN]
Q == INSTANCE LossyQueue WITH Message <- Messages

Perfetto == mode \in {"capture", "events"}

Init ==
    /\ mode \in Modes
    /\ ready = FALSE /\ event_count = 0
    /\ stop = FALSE /\ expired = FALSE
    /\ prog = [c \in CPU |-> "idle"] /\ tmp = [c \in CPU |-> 0]
    /\ ring = [c \in CPU |-> <<>>] /\ klost = [c \in CPU |-> 0]
    /\ pc = "setup" /\ pages = DefaultPages /\ err = "none" /\ rc = "none"
    /\ todo = {} /\ cur = NoCpu /\ snap = 0 /\ pos = 0 /\ draining = FALSE
    /\ saved = 0
    /\ capture_async = FALSE /\ queue_stopping = FALSE /\ ended = FALSE
    /\ direct = <<>> /\ final = 0
    /\ Q!LQInit
    /\ outputs = [c \in CPU |-> 0] /\ unsent = 0
    /\ discarded = 0

---------------------------------------------------------------------------
(* The BPF programs *)

RingsOpen == pc \notin {"setup", "queue", "returned", "done"}

\* Outputs made and about to be made, for the bound.
Started == SumFunction([c \in CPU |-> outputs[c] + (IF prog[c] = "gated" THEN 1 ELSE 0)])

\* pre_handle_entry: the gate.  The system call programs, which report for an
\* export only, do not look at the limit.
Enter(c) ==
    /\ prog[c] = "idle" /\ pc # "done"
    /\ Started < MaxOutputs
    /\ ready
    /\ Perfetto \/ Limit = 0 \/ event_count < Limit
    /\ prog' = [prog EXCEPT ![c] = "gated"]
    /\ UNCHANGED <<mode, ready, event_count, tmp, ring, klost, outputs, unsent,
                   stop, expired, pc, control, reader, export>>

\* bpf_perf_event_output.  A pending loss is written with, and only with, the
\* next output that fits.  Without a ring the output fails.
Output(c) ==
    /\ prog[c] = "gated" /\ pc # "done"
    /\ prog' = [prog EXCEPT ![c] = "read"]
    /\ outputs' = [outputs EXCEPT ![c] = @ + 1]
    /\ LET event == [cpu |-> c, seq |-> outputs[c] + 1, lost |-> 0, late |-> ~ready]
           loss == [cpu |-> c, seq |-> 0, lost |-> klost[c], late |-> ~ready]
           new == IF klost[c] > 0 THEN <<loss, event>> ELSE <<event>>
       IN  IF ~RingsOpen
           THEN unsent' = unsent + 1 /\ UNCHANGED <<ring, klost>>
           ELSE IF Len(ring[c]) + Len(new) <= Slots
           THEN /\ ring' = [ring EXCEPT ![c] = @ \o new]
                /\ klost' = [klost EXCEPT ![c] = 0]
                /\ UNCHANGED unsent
           ELSE /\ klost' = [klost EXCEPT ![c] = @ + 1]
                /\ UNCHANGED <<ring, unsent>>
    /\ UNCHANGED <<mode, ready, event_count, tmp, stop, expired, pc, control,
                   reader, export>>

\* args->event_count++, a load and a store.
CountRead(c) ==
    /\ prog[c] = "read" /\ pc # "done"
    /\ tmp' = [tmp EXCEPT ![c] = event_count]
    /\ prog' = [prog EXCEPT ![c] = "write"]
    /\ UNCHANGED <<mode, ready, event_count, ring, klost, outputs, unsent, stop,
                   expired, pc, control, reader, export>>

\* Mutant: the value read is added to the count.
BugCountWrite(c) ==
    /\ prog[c] = "write" /\ pc # "done"
    /\ event_count' = event_count + tmp[c] + 1
    /\ prog' = [prog EXCEPT ![c] = "idle"]
    /\ UNCHANGED <<mode, ready, tmp, ring, klost, outputs, unsent, stop,
                   expired, pc, control, reader, export>>

CountWrite(c) ==
    /\ prog[c] = "write" /\ pc # "done"
    /\ event_count' = tmp[c] + 1
    /\ prog' = [prog EXCEPT ![c] = "idle"]
    /\ UNCHANGED <<mode, ready, tmp, ring, klost, outputs, unsent, stop,
                   expired, pc, control, reader, export>>

\* request_exit, the SIGINT and SIGTERM handler.
Signal ==
    /\ ~stop /\ pc # "done"
    /\ stop' = TRUE
    /\ UNCHANGED <<mode, bpf, expired, pc, control, reader, export>>

\* Time passes poll_deadline_ns, which is set just before trace_ready.
Deadline ==
    /\ HasDuration /\ ~expired
    /\ pc \notin {"setup", "queue", "done"}
    /\ expired' = TRUE
    /\ UNCHANGED <<mode, bpf, stop, pc, control, reader, export>>

---------------------------------------------------------------------------
(* trace_poll: setup *)

\* perf_buffer__new succeeded.  Nothing depends on the size any more: pages is
\* reset, so that it tells no later states apart.
SetupRings ==
    /\ pc = "setup"
    /\ pc' = IF mode = "capture" THEN "queue" ELSE "start"
    /\ pages' = DefaultPages
    /\ UNCHANGED <<mode, bpf, stop, expired, err, rc, saved, capture_async,
                   queue_stopping, ended, final, reader, export>>

\* Mutant: there is no lower limit.
BugMayRetry == ~Explicit /\ Perfetto

\* It failed with -ENOMEM and may be retried with half the pages.
MayRetry == pages > MinPages /\ ~Explicit /\ Perfetto

SetupRetry ==
    /\ pc = "setup" /\ MayRetry
    /\ pages' = pages \div 2
    /\ UNCHANGED <<mode, bpf, stop, expired, pc, err, rc, saved, capture_async,
                   queue_stopping, ended, final, reader, export>>

\* It failed with another error, or with -ENOMEM and no retry left.
SetupFails ==
    /\ pc = "setup"
    /\ rc' = "setup" /\ pc' = "returned"
    /\ UNCHANGED <<mode, bpf, stop, expired, pages, err, saved, capture_async,
                   queue_stopping, ended, final, reader, export>>

\* capture_queue_start; on failure the rings are freed.
StartQueue ==
    /\ pc = "queue"
    /\ Q!Open
    /\ IF open'
       THEN capture_async' = TRUE /\ pc' = "start" /\ UNCHANGED rc
       ELSE rc' = "queue" /\ pc' = "returned" /\ UNCHANGED capture_async
    /\ UNCHANGED <<mode, bpf, stop, expired, pages, err, saved, queue_stopping,
                   ended, final, reader, direct, discarded>>

\* ops->trace_ready: opens the gate.  No program has passed it before.
TraceReady ==
    /\ pc = "start"
    /\ ready' = TRUE
    /\ pc' = "poll"
    /\ UNCHANGED <<mode, event_count, prog, tmp, ring, klost, outputs, unsent,
                   stop, expired, control, reader, export>>

---------------------------------------------------------------------------
(* trace_poll: the loop.  err is the last result of perf_buffer__poll: "none" *)
(* for 0, "some" for a positive count, or the error.                         *)

\* Where the loop is left to.
AfterLoop == IF capture_async THEN "lookup" ELSE "free"

PollIdle ==
    /\ pc = "poll"
    /\ \A c \in CPU : ring[c] = <<>>
    /\ err' = "none" /\ pc' = "after"
    /\ UNCHANGED <<mode, bpf, stop, expired, pages, rc, saved, capture_async,
                   queue_stopping, ended, final, reader, export>>

PollData ==
    /\ pc = "poll"
    /\ \E c \in CPU : ring[c] # <<>>
    /\ err' = "some" /\ pc' = "read"
    /\ todo' = {c \in CPU : ring[c] # <<>>}
    /\ UNCHANGED <<mode, bpf, stop, expired, pages, rc, saved, capture_async,
                   queue_stopping, ended, final, cur, snap, pos, draining, export>>

\* epoll_wait was interrupted by the handler, or failed.
PollFails ==
    /\ pc = "poll"
    /\ err' \in {"poll"} \cup (IF stop THEN {"EINTR"} ELSE {})
    /\ pc' = AfterLoop
    /\ UNCHANGED <<mode, bpf, stop, expired, pages, rc, saved, capture_async,
                   queue_stopping, ended, final, reader, export>>

\* Mutant: a stop request is not looked at.
BugIgnoreStop == expired \/ (err = "none" /\ Limit > 0 /\ Limit <= event_count)

\* poll_timeout, after the tick.
PollTimeout ==
    \/ stop
    \/ expired
    \/ err = "none" /\ Limit > 0 /\ Limit <= event_count

AfterPoll ==
    /\ pc = "after"
    /\ pc' = IF PollTimeout THEN AfterLoop ELSE "poll"
    /\ UNCHANGED <<mode, bpf, stop, expired, control, reader, export>>

---------------------------------------------------------------------------
(* Reading a ring: libbpf takes the head once, calls back for every record *)
(* up to it, and gives the space back to the kernel only afterwards.       *)

ReadRing(c) ==
    /\ pc = "read" /\ cur = NoCpu /\ c \in todo
    /\ todo' = todo \ {c}
    /\ cur' = c /\ snap' = Len(ring[c]) /\ pos' = 0
    /\ UNCHANGED <<mode, bpf, stop, expired, pc, control, draining, export>>

\* Mutant: a queued sample is exported at once as well.
BugPollHandlerWrap(m) ==
    IF capture_async
    THEN (Q!Accept(m) \/ Q!Refuse(m)) /\ direct' = Append(direct, m) /\ UNCHANGED discarded
    ELSE IF stop
    THEN discarded' = discarded + 1 /\ UNCHANGED <<direct, queue>>
    ELSE direct' = Append(direct, m) /\ UNCHANGED <<discarded, queue>>

\* Mutant: a loss overtakes the samples that are in the queue.
BugLossOvertakes(m) ==
    /\ direct' = Append(direct, m)
    /\ stop' = (stop \/ ~Perfetto)
    /\ UNCHANGED queue

\* The sample callback.
PollHandlerWrap(m) ==
    IF capture_async
    THEN (Q!Accept(m) \/ Q!Refuse(m)) /\ UNCHANGED <<direct, discarded>>
    ELSE IF stop
    THEN discarded' = discarded + 1 /\ UNCHANGED <<direct, queue>>
    ELSE direct' = Append(direct, m) /\ UNCHANGED <<discarded, queue>>

\* The loss callback: only terminal tracing stops at a loss.
TraceOnLost(m) ==
    IF capture_async
    THEN (Q!Accept(m) \/ Q!Refuse(m)) /\ UNCHANGED <<stop, direct>>
    ELSE /\ direct' = Append(direct, m)
         /\ stop' = (stop \/ ~Perfetto)
         /\ UNCHANGED queue

ReadRecord ==
    /\ pc = "read" /\ cur # NoCpu /\ pos < snap
    /\ LET m == ring[cur][pos + 1]
       IN  IF m.lost > 0
           THEN TraceOnLost(m) /\ UNCHANGED discarded
           ELSE PollHandlerWrap(m) /\ UNCHANGED stop
    /\ pos' = pos + 1
    /\ UNCHANGED <<mode, bpf, expired, pc, control, todo, cur, snap, draining>>

\* The records read leave the ring.
AdvanceTail == [ring EXCEPT ![cur] = SubSeq(@, pos + 1, Len(@))]

ReadDone ==
    /\ pc = "read" /\ cur # NoCpu /\ pos = snap
    /\ ring' = AdvanceTail
    /\ cur' = NoCpu /\ snap' = 0 /\ pos' = 0
    /\ UNCHANGED <<mode, ready, event_count, prog, tmp, klost, outputs, unsent,
                   stop, expired, pc, control, todo, draining, export>>

\* What a later error may replace: err >= 0 || err == -EINTR, negated.
Keeps == err \notin {"none", "some", "EINTR"}

\* A record could not be processed: the call returns its error at once.
ReadFails ==
    /\ pc = "read" /\ cur # NoCpu /\ pos < snap
    /\ ring' = AdvanceTail
    /\ todo' = {} /\ cur' = NoCpu /\ snap' = 0 /\ pos' = 0
    /\ IF draining
       THEN pc' = "stop" /\ err' = (IF Keeps THEN err ELSE "drain")
       ELSE pc' = AfterLoop /\ err' = "poll"
    /\ UNCHANGED <<mode, ready, event_count, prog, tmp, klost, outputs, unsent,
                   stop, expired, pages, rc, saved, capture_async,
                   queue_stopping, ended, final, draining, export>>

ReadReturns ==
    /\ pc = "read" /\ cur = NoCpu /\ todo = {}
    /\ pc' = IF draining THEN "stop" ELSE "after"
    /\ UNCHANGED <<mode, bpf, stop, expired, control, reader, export>>

---------------------------------------------------------------------------
(* trace_poll: the end of a queued capture *)

\* Mutant: nothing is left to read once the gate is closed.
BugConsume ==
    /\ pc' = "stop" /\ draining' = TRUE
    /\ UNCHANGED <<todo, cur, snap, pos>>

\* perf_buffer__consume is entered: every ring is read.
Consume ==
    /\ pc' = "read" /\ draining' = TRUE /\ todo' = CPU
    /\ UNCHANGED <<cur, snap, pos>>

\* trace_disable_capture: m_config is looked up ...
DisableLookup ==
    /\ pc = "lookup"
    /\ saved' = event_count
    /\ pc' = "update"
    /\ UNCHANGED <<mode, bpf, stop, expired, pages, err, rc, capture_async,
                   queue_stopping, ended, final, reader, export>>

\* ... and written back as it was read, with ready cleared.
DisableUpdate ==
    /\ pc = "update"
    /\ ready' = FALSE /\ event_count' = saved
    /\ Consume
    /\ UNCHANGED <<mode, prog, tmp, ring, klost, outputs, unsent, stop, expired,
                   control, export>>

DisableFails ==
    /\ pc \in {"lookup", "update"}
    /\ err' = IF Keeps THEN err ELSE "disable"
    /\ Consume
    /\ UNCHANGED <<mode, bpf, stop, expired, pages, rc, saved, capture_async,
                   queue_stopping, ended, final, export>>

\* trace_capture_stop and perfetto_export_mark_capture_end.
StopChild ==
    /\ pc = "stop"
    /\ ended' = TRUE /\ pc' = "stop_queue"
    /\ UNCHANGED <<mode, bpf, stop, expired, pages, err, rc, saved,
                   capture_async, queue_stopping, final, reader, export>>

\* capture_queue_stop: the exporter is told, then joined.
StopQueue ==
    /\ pc = "stop_queue"
    /\ queue_stopping' = TRUE /\ pc' = "join"
    /\ UNCHANGED <<mode, bpf, stop, expired, pages, err, rc, saved,
                   capture_async, ended, final, reader, export>>

JoinQueue ==
    /\ pc = "join"
    /\ Q!Close
    /\ capture_async' = FALSE /\ pc' = "free"
    /\ UNCHANGED <<mode, bpf, stop, expired, pages, err, rc, saved,
                   queue_stopping, ended, final, reader, direct, discarded>>

FreeRings ==
    /\ pc = "free"
    /\ rc' = IF err \in {"none", "some", "EINTR"} THEN "ok" ELSE err
    /\ pc' = "returned"
    /\ UNCHANGED <<mode, bpf, stop, expired, pages, err, saved, capture_async,
                   queue_stopping, ended, final, reader, export>>

\* finish_trace: the count is read, then the programs are detached.
FinishTrace ==
    /\ pc = "returned"
    /\ final' = event_count /\ stop' = TRUE /\ pc' = "done"
    /\ UNCHANGED <<mode, bpf, expired, pages, err, rc, saved, capture_async,
                   queue_stopping, ended, reader, export>>

---------------------------------------------------------------------------
(* The exporter thread, as LossyQueue promises it *)

OnlyQueue == UNCHANGED <<mode, bpf, stop, expired, pc, control, reader, direct,
                         discarded>>

ExporterDeliver == Q!Deliver /\ OnlyQueue

ExporterReport ==
    /\ queue_stopping
    /\ (Q!ReportLost \/ Q!ReportEvents) /\ reported' # reported
    /\ OnlyQueue

Programs == \E c \in CPU : Enter(c) \/ Output(c) \/ CountRead(c) \/ CountWrite(c)

PollThread ==
    \/ SetupRings \/ SetupRetry \/ SetupFails \/ StartQueue \/ TraceReady
    \/ PollIdle \/ PollData \/ PollFails \/ AfterPoll
    \/ \E c \in CPU : ReadRing(c)
    \/ ReadRecord \/ ReadDone \/ ReadFails \/ ReadReturns
    \/ DisableLookup \/ DisableUpdate \/ DisableFails
    \/ StopChild \/ StopQueue \/ JoinQueue \/ FreeRings \/ FinishTrace

Exporter == ExporterDeliver \/ ExporterReport

Next == Programs \/ Signal \/ Deadline \/ PollThread \/ Exporter

Spec == Init /\ [][Next]_vars

\* Both threads are scheduled.  Nothing is assumed of the programs, of the
\* signal or of the deadline, which may never come.
Fairness == WF_vars(PollThread) /\ WF_vars(Exporter)
FairSpec == Spec /\ Fairness

---------------------------------------------------------------------------
(* Properties *)

Errors == {"poll", "disable", "drain"}

\* Types.  A retried allocation stays above the floor, and the reader within
\* the part of a ring it took a snapshot of.
TypeOK ==
    /\ mode \in Modes
    /\ ready \in BOOLEAN /\ stop \in BOOLEAN /\ expired \in BOOLEAN
    /\ event_count \in Nat /\ saved \in Nat /\ final \in Nat
    /\ prog \in [CPU -> {"idle", "gated", "read", "write"}]
    /\ tmp \in [CPU -> Nat] /\ klost \in [CPU -> Nat]
    /\ outputs \in [CPU -> 0..MaxOutputs] /\ unsent \in Nat
    /\ ring \in [CPU -> Seq(Messages)]
    /\ pc \in {"setup", "queue", "start", "poll", "after", "read", "lookup",
               "update", "stop", "stop_queue", "join", "free", "returned", "done"}
    /\ pages \in MinPages..DefaultPages
    /\ err \in {"none", "some", "EINTR"} \cup Errors
    /\ rc \in {"none", "ok", "setup", "queue"} \cup Errors
    /\ todo \subseteq CPU /\ cur \in CPU \cup {NoCpu}
    /\ snap \in Nat /\ pos \in 0..snap
    /\ cur # NoCpu => snap <= Len(ring[cur])
    /\ draining \in BOOLEAN /\ capture_async \in BOOLEAN
    /\ queue_stopping \in BOOLEAN /\ ended \in BOOLEAN
    /\ direct \in Seq(Messages) /\ discarded \in Nat
    /\ open \in BOOLEAN
    /\ accepted \in Seq(Messages) /\ exported \in Seq(Messages)
    /\ refused \in [events : Nat, lost : Nat]
    /\ reported \in [events : Nat, lost : Nat]

\* How many outputs a record, and a sequence of records, stands for.
Stands(m) == IF m.lost > 0 THEN m.lost ELSE 1
Weights(s) == [i \in DOMAIN s |-> Stands(s[i])]
Weight(s) == SumFunction(Weights(s))
\* The records of CPU c no callback has seen.
Unread(c) == IF cur = c THEN SubSeq(ring[c], pos + 1, Len(ring[c])) ELSE ring[c]

\* No output vanishes: each one is exported or queued, refused, discarded by
\* a stopped callback, still in a ring, a pending loss of its ring, or was
\* made after the rings were freed - and never in two of these places,
\* across all callbacks, the queue and the final drain.
EveryOutputIsSomewhere ==
    SumFunction(outputs) =
        Weight(accepted) + refused.events + refused.lost
        + Weight(direct) + discarded
        + SumFunction([c \in CPU |-> Weight(Unread(c)) + klost[c]])
        + unsent

\* How many outputs are missing in front of event i of the stream s, beyond
\* the losses that precede it there.
Gap(s, i) ==
    s[i].seq - 1
        - SumFunctionOnSet(Weights(s), {j \in 1..i - 1 : s[j].cpu = s[i].cpu})

\* The events of a CPU are exported in order, and a gap in them is explained
\* by the time it shows: exactly, by losses exported before it, or, behind
\* the queue, up to what the queue itself refused and will report.  Terminal
\* tracing exports no event at all after the first loss it was told of.
GapsExplained ==
    /\ \A i \in DOMAIN direct : direct[i].lost = 0 =>
           /\ Gap(direct, i) = 0
           /\ mode = "terminal" => \A j \in 1..i - 1 : direct[j].lost = 0
    /\ \A i \in DOMAIN accepted : accepted[i].lost = 0 =>
           Gap(accepted, i) \in 0..refused.events + refused.lost

\* A capture that returns 0 has closed the gate and read every ring without
\* an error: an interrupted poll masks neither failure.
SuccessMeansDrained ==
    rc = "ok" /\ mode = "capture" => ~ready /\ draining /\ todo = {}

\* When a queued capture ends without an error nothing that was output
\* before the gate closed is left behind, interrupted or not: a ring holds
\* at most the one record of a program that was past the gate (and the loss
\* written with it), and no accepted record was discarded.
DrainComplete ==
    /\ SuccessMeansDrained
    /\ pc \in {"free", "returned", "done"} /\ mode = "capture" /\ ended
       /\ err \notin Errors =>
           /\ discarded = 0
           /\ exported = accepted
           /\ \A c \in CPU : /\ \A i \in DOMAIN ring[c] : ring[c][i].late
                             /\ \A i, j \in DOMAIN ring[c] :
                                   ring[c][i].lost = 0 /\ ring[c][j].lost = 0 => i = j

\* The count written to trace_end never exceeds the outputs made, although
\* CPUs and trace_disable_capture overwrite each other's updates.
CountNeverOverstates == final <= SumFunction(outputs)

\* All losses the capture suffered are in the total it writes: those of the
\* kernel's rings and those of the queue (docs/capture-buffers.md).
LossesReported ==
    pc = "done" /\ rc = "ok" /\ mode = "capture" =>
        SumFunction(outputs) - SumFunction([c \in CPU |-> Weight(ring[c])]) - unsent
          = Weight(exported) + reported.events + reported.lost

\* A signal, and the end of the duration, end the capture, whatever the
\* programs go on doing.
CaptureEnds == (stop \/ expired) ~> pc = "done"
===========================================================================
