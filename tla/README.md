# Anettrace: TLA+ models, checks and proofs

Anettrace traces packets on Linux and Android with BPF programs and writes
terminal output, JSON events or a Perfetto trace that it merges with one of the
system Perfetto.  This directory models the parts of it where several actors
share state, where a step can fail half way, or where a bounded buffer fills,
checks them with TLC and proves the core for all sizes with TLAPS.
`PROJECT.json` lists every run, the mutants that show that each property can
fail, and the source lines each definition stands for.

## The system

| part | state it keeps | operations | interacts with |
|---|---|---|---|
| BPF programs (`progs/core.c`, `kprobe.c`, `tracing.c`) | `m_config` (`ready`, `event_count`, filters), identity and generation maps | one handler per probe: gate, match, `bpf_perf_event_output`, count | perf rings; `trace_disable_capture` rewrites `m_config` |
| perf rings and libbpf (external) | per-CPU ring, pending loss count | output, poll, consume | callbacks of `trace.c` |
| capture pipeline (`trace.c`) | poll loop, deadline, error code, `capture_async` | `trace_poll`, `poll_handler_wrap`, `trace_on_lost`, `trace_disable_capture` | all of the above, export queue, `trace_capture_stop` |
| export queue (`capture_queue.c`) | byte ring, counters, flags, exporter thread | `start`, `event`, `lost`, `tick`, `stop`, worker loop | pipeline (producer), `perfetto_export_*` (consumer) |
| exporter (`perfetto_export.c`) | pending system calls, flows, sockets, pending I/O, overview queue and its owner slots, native packet ring, loss totals | `perfetto_export_event/lost/tick/close` | called by exporter thread or poll loop |
| RX context (`rx_context.h`) | time-sorted list of unowned RX events, owner table, counters | `feed`, `expire`, `finish` | gate of `perfetto_export_event` |
| system capture (`trace_capture.c`) | child process, four temporary files, flags | `start`, `stop`, `wait_system`, `finish`, `abort` | `main`, `trace_poll`, system Perfetto, file system |
| trimming (`perfetto_trim.c`) | stream position, packet defaults | `perfetto_trim_stream` | merge of a ring capture |
| wakeup chain (`progs/network_wakeup.h`) | per-task record of the last wake | waking, wakeup, switch, snapshot | system call events |
| traffic mode (`progs/traffic.c`, `traffic.c`, `traffic_history.c`, `traffic_display.c`) | inflight calls, flow and process counters, samples, history | entry and exit probes; sample, prune, draw | shared BPF maps |
| analysis (`analysis.c`) | packet contexts of terminal mode | one handler per event kind | poll callbacks |
| probe selection (`trace.c`, `trace_probe.c`, `trace_tracing.c`), command line, output | tables | start-up, sequential | |
| host tools (`tools/`, `skills/`) | none shared with the program | offline conversion and reports | files |

What is hard in this code: BPF programs run on all CPUs while user space closes
the gate and drains; the kernel reports losses late; two threads share a byte
ring and rely on a few facts without the lock; events reach the exporter out of
time order and have to be paired all the same; BPF maps are updated field by
field, without a lock, and their elements are reused; a child process may exit, hang or be slow at any step; and other
programs use the same file system.  The `hazards` of `PROJECT.json` give each
of these at its line, with the properties that would catch it.

## Modules

| module | models | extended or used by |
|---|---|---|
| `LossyQueue` | what `capture_queue.h` promises: accepted messages come out once, in order, then the refusals are reported | `CaptureQueue` (refinement), `CapturePipeline` (as the queue) |
| `CaptureQueue` | `capture_queue.c` | `MCCaptureQueue`, `CaptureQueueProofs` |
| `CaptureQueueProofs` | theorems about `CaptureQueue`, and that it implements `LossyQueue` | |
| `CapturePipeline` | `trace_poll` and callbacks, BPF producers, signal, `finish_trace` | `MCCapturePipeline`, `CapturePipelineProofs` |
| `RxContext` | `rx_context.h` and its callers | `MCRxContext`, `RxContextProofs` |
| `TraceCapture` | `trace_capture.c` and `main` around it | `MCTraceCapture`, `TraceCaptureProofs` |
| `SyscallPairing` | `network_sys_enter/exit` of `progs/core.c`, `handle_network_syscall` and the close of `perfetto_export.c` | `MCSyscallPairing`, `SyscallPairingProofs` |
| `NativeExport` | overview queue, owner slots, flows of a tuple and native ring of `perfetto_export.c` | `MCNativeExport` |
| `NetworkWakeup` | `progs/network_wakeup.h` against the scheduler | `MCNetworkWakeup`, `NetworkWakeupProofs` |
| `Traffic` | `progs/traffic.c`, sampling in `traffic.c`, `traffic_history.c` | `MCTraffic`, `TrafficProofs` |
| `CapturePipelineProofs`, `RxContextProofs`, `TraceCaptureProofs`, `SyscallPairingProofs`, `NetworkWakeupProofs`, `TrafficProofs` | theorems about the module they extend | |
| `Sums` | laws of the community operator `SumFunctionOnSet` | `CapturePipelineProofs`, `RxContextProofs`, `TrafficProofs` |

Definitions named `Bug...` are mutants: what a plausible mistake would make of
the definition that follows.  No specification uses them.

### CaptureQueue

One action is one section under `queue.lock`, or one thing the exporter thread
does without it: `WorkerTakeTick` copies `stopping`, `WorkerTick` uses the copy
after `perfetto_export_tick`; `WorkerRead` takes a record, `WorkerExport` hands
it over unlocked; the two final reports are unlocked steps.
`pthread_cond_wait` is `WorkerWait` plus a wake by `Signal` or
`SpuriousWakeup`.  The two `memcpy` of `queue_write` and `queue_read` are
modelled byte by byte, because the wrap is what can go wrong.  A byte is the
record it belongs to and its number in the frame, so a misplaced byte shows.
A session can be restarted, and `pthread_create` can fail.

### CapturePipeline

Per CPU a BPF program passes the gate (`Enter`), outputs (`Output`) and
increments `event_count` in two steps, a load and a store.  The gate is `ready`
and the event limit; the system call programs of a Perfetto capture look at
`ready` only.  The perf ring holds
`Slots` records; an output that does not fit adds to the ring's pending loss,
which is written in front of the next output that fits: this is how the kernel
behaves, and why a loss at the very end is never seen.  The reader takes the
head once, calls back per record and frees the space afterwards.
`trace_poll` follows the source: set-up with retries, queue start, ready, poll
loop, `poll_timeout`, then for a queued capture lookup and update of
`m_config` (two steps; counts written in between are overwritten), final
consume, `trace_capture_stop`, queue stop and join, free.  Each call that can
fail has a failing branch, and the precedence of error codes is kept.  The
queue is `LossyQueue`, so that what is shown here holds for any queue that
implements it.  Left out: `raw_poll`, traffic mode in the same process, the
contents of events.

### RxContext

`ctx` is `struct rx_context`: the list is a sequence, `tail` the entry the C
pointer names, so a stale tail behaves as in C (it may name an entry that is
not linked; `broken` records such a dereference or an eviction from an empty
list).  The owner table has `Slots` slots and an arbitrary `Hash`.
`rx_context_lock` makes every call atomic.  `FeedUnowned` and `FeedOwned` are
the calls of `perfetto_export_event`, the tick and close those of the exporter.
A NULL from `malloc` is one of the outcomes of `FeedPending`.

### TraceCapture

`pc` is where `main` is; `then` and `back` are the return addresses of
`stop_perfetto` and `trace_capture_abort`, which are called from several
places (from `start` on failure, and then again from `main`).  Between any two
steps the Perfetto process may create its file, write, exit with or without
success; a signal may come; another program may create one of the files.  Time
is counted in polls of `wait_perfetto_stop`.  `stop_requested`, `started`,
`child_reaped`, `config_created` and `system_created` are the fields of
`capture_state`.

Assumed of other programs: they create at most one file, never the system
trace (which Perfetto opens by name) and, in the passing runs, not the output
between `access()` and `rename()`.  Nor do they create a file with the name of
the configuration after it was unlinked: `config_created` is not reset, and the
second abort of a failed start unlinks that name again.  The 250 ms wait of
`trace_capture_finish` is unreachable, because both callers request a stop
first; the cut-off clocks of a ring capture only matter to trimming and are
reduced to the possible failure of reading them.

### SyscallPairing

A task enters a call (`NetworkSysEnter`, which stores it in
`m_network_syscalls` and sends a begin record), may move data on a socket
(`SocketIo`, which binds the socket and sends an I/O record) and leaves
(`NetworkSysExit`, a self-contained end record).  Each record goes to the ring
of the CPU the task is on; `ExportEvent(c)` reads the oldest record of any ring,
so records of one call, and of successive calls, reach
`handle_network_syscall` in any order.  A record may be lost, an entry of the
LRU map may be evicted or not stored: `MaxFaults` of these.  `pending_syscalls`
has `TableSize` entries, which are never given back.  Times are per task, since
the code compares no others.  A call may be exported twice, as incomplete when
the next begin is read before its end, and then completely: `NoReopening`
allows that order only.

### NativeExport

The static variables of `perfetto_export.c` that matter are one record `x`, and
the operators follow the functions: `Flush`, `FlushOne`, `Observe`, `Queue`,
`FlowLookup`, `FlowFromPacket`, and `Evicted`, `Pruned` and `Write` for the ring.
An action is one call under `export_lock`: a packet stage that is shown, one
that compact mode hides, an event that flushes the queue and writes a record
(`ExportOther`: socket and I/O stages), one that writes without flushing
(`ExportRecord`: system calls, connects, returns, handoffs, losses), the tick,
the close.  Packets are of
one tuple; they differ in whether they have a generation (`Untracked`) and
whether their local endpoint is the one of the flow (`Local`).  `log` records
everything handed to `native_event_write`, before the ring decides.  Left out:
the tag mode (`trace_tags`, which writes no mirrors), failing allocations, track
descriptors (no time, never evicted), terminal stages, the idle time of flows,
and the JSON lines.

`ExportClose` keeps the order of `perfetto_export_close`, because every record
passes the ring and may evict: `StatusRecords` records of probes and RX context,
the rest of the queue, the ends of the flows, two records about the overview,
then `ring_buffer`, `trace_end` and `capture_queue`.  The ends of sockets, system
calls, connects and pending I/O, further records before `ring_buffer`, are left
out.  `FileIsWindow` says what the program knows of the file and when.  The
warning it prints at the very end is reliable: without it the file holds
everything written in the window.  The value `capacity_truncated` in the trace
was taken before its own record, `trace_end` and `capture_queue` entered the
ring.  It is right about what was written up to then; after it, packets of the
window may still be pushed out by these three, and then the file says that it
was not truncated and only the warning tells.  The flag may also be set although
everything evicted had already left the window.

`MirrorsAgree` says that a mirror is on the socket its event names, and if it
names none, that no evidence about the packet within the window names another;
mirrors by the flow are covered only while no evidence of the packet is more than
a window younger than the event.  `NoGuess` makes the claim of the documentation
without that restriction, and fails: see findings.

### NetworkWakeup

Each handler is split at its stores: `WakingStep`, `SwitchClear`, `SwitchNext`
and `SnapshotStep` write or read one field group, so two CPUs interleave inside
an entry.  `task` is the scheduler as far as it orders the tracepoints: wakers
of a task exclude each other, wakeup and switch of a task exclude each other.
`Fork` gives a thread id to a new task with a new birth time, `Evict` gives an
element to another key.  `truth` records what really preceded the present run,
and `SnapshotIsTrue` compares a report that claims a wake or a run with it.
Stores are seen in program order.  The waking CPU, the raw preempt count and the
name of the waker can be torn by a concurrent clear and are not part of the
claim; changes of uid or tgid are left out; a wakeup that a remote CPU completes
is merged with its waker.  The kernel skips a program when another one is active
on the CPU and both belong to the same guard (`bpf_prog_active`); such a skipped
handler is not modelled, and one of the waker would miss its wake.  Two cases are excluded from the claim, because the code cannot notice them: an
entry that a handler wrote through a pointer it found before the element was
reused (`foreign`), and a call entered while a waker that found the task about to
sleep is still in its handler (`early`); of the latter only the bound by the birth
of the task is claimed.  A wake counts as `whole` while its entry lasts:
`Forgetting` ends that when the element goes to another key, be it by `Evict` or
because `Current` inserts.  The second needs two thread ids, which the run does
not have; the theorems hold for any number, and an instance with two ids, one
CPU, one element and nine readings passes too.

### Traffic

`SocketCall` runs the entry and endpoint probes of a UDP call; a mapped IPv4 send
on an IPv6 socket runs both families'.  On return `TrafficAccount` adds to the
total, then process and flow are looked up, inserted (the loser of `BPF_NOEXIST`
adds to the winner's value, an insertion may fail) and added to in separate
steps, while `DeleteFlow` (pruning or LRU) frees the element at any moment.  The
sampler walks the map one element at a time, may be thrown back to the start,
merges duplicates, computes increments against `previous_rows` and updates the
retained records.  A walk may end before it has seen every element: the code
warns and uses what it has.  A process whose start time cannot be read has no
entry, which is the failing insertion.  One counter stands for receive and transmit; a missed return
probe is left out.  Bytes added through a pointer to a reused element land in
another flow: the properties bound the sums, not the attribution.

## Runs

| run | shows | bounds |
|---|---|---|
| `capture_queue` | no unread byte is overwritten, records come out once, whole and in order, losses add up, the unlocked steps are safe, the queue implements `LossyQueue`, accepted records are exported and `capture_queue_stop` returns | rings of 5 and 7 bytes (2 is refused), header 2, samples of 1, 3 and 4 (too large), losses of 2, four records, two sessions |
| `capture_pipeline` | in every mode: a successful capture closed its gate and read the ring; what stays behind is at most the record of a program already past the gate; the final count never exceeds the outputs; each output is in exactly one place, every gap in the exported events is explained by losses exported before it or refusals, terminal tracing exports no event after a loss, and a signal or the deadline ends the capture | one CPU, two slots, four outputs, a retried allocation, `--count 4`, a duration |
| `capture_losses` | **violation**: see findings | one CPU, four outputs |
| `rx_context` | list, tail, limits, expiry and counters; release only by, once, and whenever there is evidence | two addresses and generations in one slot, four times, four events, sizes 1, 2 and 4 against a limit of 3, two entries |
| `trace_capture` | signals only to our child, which is not abandoned; justified kills; originals and user files kept; clean end; a signal ends the program even if Perfetto hangs | grace of three polls, idle limit of two, three writes |
| `trace_capture_overwrite` | **violation**: see findings | as above, with the race allowed |
| `syscall_pairing` | every end becomes one complete slice with the right socket, a late begin reopens nothing, no call seen in order is forgotten | two threads, two rings, three calls, one fault, a table of one entry |
| `syscall_file_io` | **violation**: see findings | one thread, one ring, three calls, two faults |
| `native_export` | accounts and limits of both buffers; every packet event is written once and in order; a mirror agrees with what is known of its packet, by the flow as long as nothing much younger is known; the file is the promised window as far as warning and `ring_buffer` record say so | three packets in one slot, two sockets, three times, three events, a queue of two events or three bytes, a ring of eight bytes, one record ahead of the closing flush, windows of one |
| `native_conflict` | **violation**: see findings | one packet, two sockets, three times, four events |
| `network_wakeup` | a reported wake and run are those that preceded the call; a wake with an entry is not missed | one thread id, two CPUs, two elements, seven readings of the clock |
| `traffic` | I/O is counted once; what the screen shows never exceeds what was accounted, and increments explain totals | two threads, one endpoint and the unknown one, one element, two calls of 0, 1 or 2 bytes, two samples, a history of one record |

Why the bounds are enough.  In the queue, frames of 3 and 5 bytes on rings of 5
and 7 start and wrap at every offset, fill the ring exactly and overflow it;
the second session starts from every final state of the first; the safety
properties are in addition proved for all sizes.  In the pipeline a ring of two slots is the
smallest in which a loss record and its event fit together, three outputs in a
row overflow it, and the fourth carries the loss.  One CPU is enough for a program
to be past the gate, or between load and store of the counter, while the polling
thread rewrites `m_config` and drains; that several CPUs, their lost updates
included, change nothing is proved, with the other safety properties of the
pipeline, for any number of them (an instance with two CPUs, three outputs and
the queued mode only passes too).  In the RX context two entries are the fewest that have
a wrong order, and one slot for two generations makes every lookup collide.
In `TraceCapture` a grace period longer than the idle limit lets a write defer
the kill beyond it.  For `SyscallPairing` three calls and two rings give every
order of the records of a call and its neighbours, and the table is full with
the second thread.  In `NativeExport` three times with a window of one let an
event be too old, due and pending at once; sizes are chosen so that the limit on
events, the limit on bytes and an event larger than the queue all occur, and the
one slot makes every pair of packets collide; the ring of eight bytes can be
filled by events and, when it was not, by the records of the close.  Seven clock readings are a sleep,
a wake, a run and a second wake, or the reuse of the id, with a handler still
open; `network_wakeup` also passes with eight.  One element makes every insertion
of `Traffic` take the element of the other flow.  `CHECK_DEADLOCK FALSE` is set because each of these
programs ends, and the models stop where it does.

Fairness.  The exporter thread and the polling thread run when they can
(the scheduler); a join returns when its thread has exited.  The BPF programs,
the producer, signals and the Perfetto process get none: nothing obliges them
to move.  `SpuriousWakeup` gets none, so no wakeup is repaired by luck.  In
`TraceCapture`, `main` itself is fair, and `trace_poll` is taken to return once
told to stop, which `capture_pipeline` shows.  System call failures are
possible, never required.  The modules of the exporter and of the BPF maps state
no fairness: their properties are about what is written when something is.

## Findings

* `capture_losses`: `docs/capture-buffers.md:36` says that
  `trace_end.lost_events` includes kernel and queue losses.  The kernel hands
  over a pending loss only with the next output that fits in that ring.  A loss
  that is last on its CPU is in no total, and the capture reports success.
* `trace_capture_overwrite`: `docs/capture-buffers.md:77` says that existing
  user files are not overwritten.  `merge_traces` checks with `access()` and
  then calls `rename()`; a file created in between is replaced.
* `syscall_file_io`: `progs/core.c:1983` says that ordinary file I/O must never
  appear as network I/O.  `pending_io_start` gives the socket of an I/O record to
  whatever call of the thread is open, without comparing the start times.  If
  the end of a file read and the begin of the next `recv` are lost, the file read
  gets the socket of the `recv` and is exported as an incomplete network call.
* `native_conflict`: `docs/socket-packet-overview.md:38` says that a packet of
  unknown or conflicting ownership stays on the thread track, and the comment at
  `perfetto_export.c:2388` that ambiguity must never become a guess.
  `native_packet_overview_observe` raises the time of the packet's slot before it
  flushes.  When two sockets have claimed the packet and a later, hidden stage
  moves that time past the window, the slot no longer counts for the event that
  waits, the conflict is forgotten, and the event is mirrored on the socket of
  its flow.

## Proofs

`CaptureQueueProofs` proves, for every capacity, header size, set of sample
sizes and loss counts, and any number of records and sessions, that every
behaviour of `CaptureQueue!Spec` satisfies `TypeOK` (`TypeCorrectness`),
`UnreadIntact` (`UnreadBytesSafe`), `ExportsAcceptedInOrder` (`ExportCorrect`),
`LossesAccounted` (`AccountingCorrect`) and `ThreadsAgree` (`ControlCorrect`).
Assumed are only the types of the constants and a header of at least one byte.

The argument.  None of the properties is inductive: `head`, `tail` and `used`
alone do not say which bytes are where.  The invariant `IInv` gives every
record the absolute position `at` of its first byte and states
 - `InvLayout`: records lie end to end, and their counts add up;
 - `InvRing`: `head` and `tail` are the write and read position modulo the
   capacity, `used` is their difference, and every unread byte is in the cell
   of its position (`InvUnread`);
 - `InvExport`: what was exported, and what the exporter holds, are the frames
   accepted;
 - `InvCounts`: offered = accepted + refused, delivered = taken;
 - `InvControl`: where each thread may be, given the flags.

A write of a frame at position w touches only cells of positions in
[w, w + length); the admission test keeps w + length - capacity at most the read
position, so these cells hold no unread byte.  That is `WriteStores`,
`WriteKeeps` and `ReadReturns` for a single copy, `FrameStored` for header and
sample together, and they rest on a fact on `%`: two positions less than a lap
apart share a cell only if they are equal.  Then there is one lemma per action,
and `Invariance` joins them.

`QueueImplementsLossyQueue` is the refinement.  The histories of accepted and
exported records map to those of the abstract queue, the drop counters to what it
refused.  Writing a frame is `Accept`, a refusal `Refuse`, the unlocked hand-over
`Deliver`, the two final reports `ReportLost` and `ReportEvents`, start and join
`Open` and `Close`; every other step (waiting, signalling, ticking, reading the
frame out of the ring) leaves the mapped state unchanged.  It needs `IInv` and
`InvTold`: nothing was reported before the loop ends.
What `CapturePipeline` shows with `LossyQueue` in place of the queue therefore
holds for the byte ring of any size, as far as safety goes.

`CapturePipelineProofs` proves for any number of CPUs, ring slots and outputs,
and for every mode, all safety properties of `CapturePipeline` but the violated
one: `TypeOK`, `DrainComplete`, `CountNeverOverstates`, `EveryOutputIsSomewhere`
and `GapsExplained`.  The assumption on the pages is that halving the first size
leads to the floor and not past it.  That holds for the source: 16 MiB divided
by a page size, and 64, are powers of two (an explicit size is never halved).
`IInv` is one invariant for the five theorems:

 - `InvControl` and `InvBefore` say what a place in `trace_poll` implies for the
   gate, the queue, the reader and the error codes, `InvModes` which of the ways
   to the trace a mode uses;
 - `InvLate` and `InvDrained` carry `DrainComplete`.  A ring gets records after
   the gate was closed only from the one program of its CPU that was past it,
   and a ring taken by the final drain holds nothing older behind the part taken;
 - `InvCount` carries `CountNeverOverstates`.  The outputs made are too weak a
   bound: a program increments after its output.  `event_count`, the copy of
   `trace_disable_capture` and every value loaded by a program are bounded by
   the outputs whose increment is complete (`Counted`), which no lost update
   and no write-back can exceed;
 - `EveryOutputIsSomewhere` is inductive with the types alone: an output, a
   callback and the freeing of ring space each move a record between two places;
 - `InvStream` carries `GapsExplained`.  For each CPU the next event in its
   ring has the number that follows what the reader has passed, and what it has
   passed is what is in the trace, or behind the queue that and at most the
   refusals.

These accounts are sums over CPUs and over the records of a sequence.  `Sums`
proves the laws they need of `SumFunctionOnSet` (adding, removing and changing
an index, agreement, disjoint unions, renaming of indices, order) from its
definition.  Induction theorems cannot be instantiated by the provers at hand;
each law is shown by taking a smallest set that violates it (`MinimalSubset`).

`TraceCaptureProofs` proves for any grace period, idle limit and number of
writes `TypeOK`, `ChildAccounted` (`ChildCorrect`), `EndsClean` (`EndCorrect`)
and the action properties `KillJustified` (`KillCorrect`) and `FilesKept`
(`FilesCorrect`).  The last has the hypothesis `CreateAtRename = FALSE`, no other
program creates the output between `access()` and `rename()`: without it the
finding `trace_capture_overwrite` applies.  The invariant adds to the properties
what `main` knows at each place (`InvControl`), that a child no longer tracked
was asked to stop and given up (`InvChild`), which flag or place accounts for
each file (`InvFiles`: a staging file exists exactly from the copy to the
rename), and that the idle counter never runs ahead of the time without a write
(`InvIdle`).

`SyscallPairingProofs` proves for any number of threads, rings, calls, losses
and table entries `TypeOK`, `EndsExportedOnce` (`EndsCorrect`), `NoReopening`
(`ReopeningCorrect`) and `NoCallForgotten` (`ForgottenCorrect`).  The records of
a thread are read in any order, so what the table says has to be related to the
set of records handled, not to the last one: an active entry has had no end
handled, and no end handled is newer than `completed_ts`, unless the table was
full (`InvEntries`).  Complete slices and handled ends correspond one to one
(`InvSlices`), for which a call may have one end record only, in one ring or
handled (`InvOneEnd`); every record tells the truth about its call (`InvKernel`,
`InvRecords`); a call whose begin came in time is open or has a slice
(`InvTimely`).  Assumed: `None` is no call, record or entry.

`NetworkWakeupProofs` proves for any number of thread ids, CPUs, elements and
readings of the clock `TypeOK`, `SnapshotIsTrue` (`SnapshotCorrect`) and
`WakeNotMissed` (`WakeCorrect`).  The handlers store field by field without a
lock, so the invariant says for every place of every handler which fields are
already right.  `InvSched` has what the scheduler excludes, `InvHold` which
element a handler found and whether it is still its own; `InvOn` and `InvOff`
say what the entry of a task on and off its CPU may hold while wakers are at
work in it, `InvAsleep` that a waker that found its task asleep is undisturbed,
`InvWhole` where a whole wake is until the task leaves its CPU, and
`InvSnapshot` that what a snapshot has copied so far is true.  Two facts carry
the argument.  Only the task itself makes its entry, so the entry cannot appear
behind a handler that runs for the task.  And a wake is `WakeKnown` only when
waking, wakeup and run are in order, which no prefix of a waker's stores
achieves on an entry that was cleared.  Assumed: `None` is distinct from ids,
CPUs and elements, CPUs from the names of the other places, and the clock has a
first reading.

`RxContextProofs` proves for any hash, number of slots, limits, window, keys and
times all five invariants of `RxContext`: `TypeOK` (`TypeCorrect`), `ListIntact`
(`ListStaysIntact`), `PendingAccounted` (`PendingIsAccounted`),
`ReleasedByEvidence` (`OnlyEvidenceReleases`) and `NoneWaitsInVain`
(`NothingWaitsInVain`).  Every call of `rx_context.h` is a composition of a few
operations on `struct rx_context`, so the proof is one lemma per operation:
expiry, release by evidence, eviction of the oldest and insertion by time each
keep `ListOK` and say what they move out of the list.  `ListOK` is stronger than
the properties: the list is sorted by time and without repetition, the tail is
its last entry, count and bytes are those of the entries, no entry is younger
than the watermark, and no entry matches the evidence in its slot.  The last is
what makes `NoneWaitsInVain` inductive, and it is why evidence has to be looked
for before an entry is linked, and entries after evidence is stored.

`TrafficProofs` proves for any threads, endpoints, sizes, elements and capacity
of the history all four invariants of `Traffic`: `TypeOK` (`TypeCorrect`),
`EveryIoCountedOnce` (`IoCountedOnce`), `HistoryNeverOverstates`
(`NeverOverstates`) and `DeltasExplainTotals` (`TotalsExplained`).  Assumed:
finitely many threads and endpoints, and that `None` is none of the values.

 - `InvCounted` carries `EveryIoCountedOnce`: bytes are counted, dropped, owed by
   a thread that has not reached `traffic_account`, or late for the process entry
   because its thread is about to insert it.
 - `InvReach` carries `HistoryNeverOverstates`.  The totals of the records alone
   say nothing of the next sample.  For each flow take what its record comes to
   when the row the walk has seen and the element of the map are applied to it
   in turn, or the element only (`Reach`): the sum of this over all flows, and
   the bytes threads have yet to add to a flow, is at most the bytes accounted.
   An addition through a stale pointer moves bytes from a thread to a flow, if
   not to its own; a read, a restart, an eviction and the end of a sample never
   raise the sum.
 - That needs what is known of a single flow (`KeyOK`): the record, the previous
   sample, the row and the element are in the order of their generations, and
   within one of their bytes.  A new generation is always later than all that
   was seen of the flow (`InvOlder`), since only one thread inserts a flow, with
   a time taken before it looked the flow up, and it found it gone.
 - `InvSampled` carries `DeltasExplainTotals`: the record agrees with the previous
   sample, or was never updated because the history was full, and then it stays
   full.  `UpdateSound` shows that an increment that is not a gap is what the
   update adds to the total.

Every part of these invariants was checked with TLC, on the instances of the
runs or smaller ones, before it was proved.

With this, every invariant of the passing runs is proved except those of
`NativeExport`.  Only model-checked are
 - liveness (`AcceptedIsExported`, `StopReturns`, `SignalEnds` and the like):
   the prover has neither fairness nor `ENABLED`;
 - `BuffersIntact`, `OriginalsOnce`, `FileIsWindow` and `MirrorsAgree` of
   `NativeExport`.  They
   compare sequences that are filtered, merged and cut (`SelectSeq`, folds) with
   a reference computed from the whole input; what such a definition yields for
   every input needs induction over data.

## Not modelled

Encoding (protobuf, JSON, text), argument parsing, the rewriting of user
configurations, probe selection and symbol lookup, the terminal display, and
the host tools: sequential code without state that outlives a call, or layout.
Not modelled although it has state: trimming (`perfetto_trim.c`, one sequential
pass over a stream whose difficulty is the wire format), the lifetimes of skbs and
sockets in `progs/core.c`, pending I/O and the idle and terminal end of flows in
the exporter (their end at the close is modelled), and
the packet contexts of terminal mode (`analysis.c`).

## Plan

What is left, in the order of what it would add:

1. In `NativeExport`, the bounds of its buffers could be proved by themselves;
   the order of the native ring needs a proof that a filtered sequence is
   a subsequence, by induction over data.
2. If the model grows further: `PerfettoTrim` as operators checked against a
   reference definition, pending I/O and idle flows in `NativeExport`, and
   the identity of skbs in `progs/core.c`.
