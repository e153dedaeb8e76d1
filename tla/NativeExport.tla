---------------------------- MODULE NativeExport ----------------------------
(* The native Perfetto trace of perfetto_export.c: packet events wait in the *)
(* overview queue for evidence of the socket they belong to, and everything  *)
(* that is written passes the ring that keeps the last RingWindow.           *)
(*                                                                           *)
(* Events of several CPUs arrive with their times out of order.  A packet    *)
(* event is held, in arrival order, until the newest time seen is Window     *)
(* ahead of it or the queue is full, and is then written on its thread's     *)
(* track; if its socket is known by then, a mirror follows on the socket's   *)
(* track.  The socket is that of the event itself, or the one that other     *)
(* events of the same packet name (a table of slots which packets share), or *)
(* the one of its flow.  The operators act on the exporter's state as one    *)
(* record; each action is one call under export_lock.                        *)
EXTENDS Naturals, FiniteSets, Sequences, SequencesExt

CONSTANTS
    Packets,        \* (packet id, direction); all of one tuple
    Untracked,      \* packets without a generation
    Local,          \* packets whose local endpoint is that of the flow
    Sockets,        \* socket instances
    SlotOf,         \* packet -> slot of native_packet_owners
    None,
    Times,          \* bound: times of events
    SizesOf,        \* bound: packet -> encoded sizes of its events
    Window,         \* NATIVE_OVERVIEW_WINDOW_NS
    MaxQueued,      \* NATIVE_OVERVIEW_MAX_EVENTS
    MaxBytes,       \* NATIVE_OVERVIEW_MAX_BYTES
    RingWindow,     \* native_ring_window_ns
    RingBytes,      \* NATIVE_RING_MAX_BYTES
    StatusRecords,  \* records of probe_status and rx_context at the end
    MaxEvents       \* bound: events of a capture

ASSUME ExportAssumption ==
    /\ Untracked \subseteq Packets /\ Local \subseteq Packets
    /\ None \notin Packets \cup Sockets
    /\ Times \subseteq Nat \ {0} /\ SizesOf \in [Packets -> SUBSET (Nat \ {0})]
    /\ {Window, MaxQueued, MaxBytes, RingWindow, RingBytes} \subseteq Nat \ {0}
    /\ StatusRecords \in Nat /\ MaxEvents \in Nat

VARIABLES
    x,          \* the static variables of perfetto_export.c
    arrived,    \* history: the packet events exported, in order
    evidence,   \* history: which packet named which socket, and when
    events,     \* history: how many events there were
    file        \* what perfetto_export_close wrote and said, or None

vars == <<x, arrived, evidence, events, file>>

Larger(a, b) == IF a > b THEN a ELSE b
Sum(s) ==
    LET upto[i \in 0..Len(s)] == IF i = 0 THEN 0 ELSE upto[i - 1] + s[i].size
    IN upto[Len(s)]

Init ==
    /\ x = [queue |-> <<>>, count |-> 0, bytes |-> 0, latest |-> 0,
            owners |-> [i \in {SlotOf[p] : p \in Packets} |-> None], flows |-> <<>>,
            emitted |-> 0, ambiguous |-> 0, unresolved |-> 0, capacity_flushes |-> 0,
            ring |-> <<>>, ring_bytes |-> 0, ring_latest |-> 0, truncated |-> FALSE,
            log |-> <<>>]       \* history: everything given to native_event_write
    /\ arrived = <<>> /\ evidence = {} /\ events = 0 /\ file = None

-----------------------------------------------------------------------------
(* The ring.                                                                 *)

Cutoff(latest) == IF latest > RingWindow THEN latest - RingWindow ELSE 0

\* native_ring_evict: from the head, what is too old or too much.
Evicted(s) ==
    LET bytes(k) == s.ring_bytes - Sum(SubSeq(s.ring, 1, k))
        stay(k) == \/ k = Len(s.ring)
                   \/ s.ring[k + 1].ts >= Cutoff(s.ring_latest) /\ bytes(k) <= RingBytes
        k == CHOOSE i \in 0..Len(s.ring) : stay(i) /\ \A j \in 0..i - 1 : ~stay(j)
    IN [s EXCEPT !.ring = SubSeq(@, k + 1, Len(@)), !.ring_bytes = bytes(k),
                 !.truncated = @ \/ (k > 0 /\ s.ring_bytes > RingBytes)]

\* native_ring_prune_all
BugPruned(s) == Evicted(s)
Pruned(s) ==
    LET kept == SelectSeq(s.ring, LAMBDA p : p.ts >= Cutoff(s.ring_latest))
    IN [s EXCEPT !.ring = kept, !.ring_bytes = Sum(kept)]

\* native_write_packet_at with a time.
Write(s, p) ==
    LET logged == [s EXCEPT !.log = Append(@, p)]
    IN IF p.ts < Cutoff(s.ring_latest) THEN logged
       ELSE Evicted([logged EXCEPT !.ring = Append(@, p), !.ring_bytes = @ + p.size,
                                   !.ring_latest = Larger(@, p.ts)])

\* A record that is not a packet event and does not wait.
Other(ts) == [id |-> 0, ts |-> ts, size |-> 1, mirror |-> None, via |-> "none"]

-----------------------------------------------------------------------------
(* The overview.                                                             *)

\* The socket of a waiting event, from the best evidence there is, and
\* whether it stays open because the evidence conflicts.
Unavailable(o, e) == o # None /\ (o.collided \/ o.pkt # e.pkt)
Resolve(s, e) ==
    LET o == s.owners[SlotOf[e.pkt]]
        near == /\ o # None /\ o.pkt = e.pkt
                /\ o.ts <= e.ts + Window /\ e.ts <= o.ts + Window
        flow == IF e.flow = 0 THEN None ELSE s.flows[e.flow]
    IN CASE e.sock # None ->
              [sock |-> e.sock, via |-> "event", ambiguous |-> FALSE]
         [] e.sock = None /\ near /\ o.ambiguous ->
              [sock |-> None, via |-> "none", ambiguous |-> TRUE]
         [] e.sock = None /\ near /\ ~o.ambiguous /\ ~Unavailable(o, e) ->
              [sock |-> o.sock, via |-> "packet", ambiguous |-> FALSE]
         [] OTHER ->
              IF ~Unavailable(o, e) /\ flow # None /\ e.pkt \in Local
              THEN [sock |-> IF flow.ambiguous THEN None ELSE flow.sock,
                    via |-> "flow", ambiguous |-> flow.ambiguous]
              ELSE [sock |-> None, via |-> "none", ambiguous |-> FALSE]

\* native_packet_overview_flush_one: the annotations that lead to the mirror
\* enlarge the event after it left the account of the queue.
FlushOne(s) ==
    LET e == Head(s.queue)
        r == Resolve(s, e)
        mirrored == r.sock # None
        out == [id |-> e.id, ts |-> e.ts, size |-> e.size + IF mirrored THEN 1 ELSE 0,
                mirror |-> None, via |-> "none"]
        left == [s EXCEPT !.queue = Tail(@), !.count = @ - 1, !.bytes = @ - e.size]
    IN IF mirrored
       THEN Write(Write([left EXCEPT !.emitted = @ + 1], out),
                  [out EXCEPT !.size = 1, !.mirror = r.sock, !.via = r.via])
       ELSE Write(IF r.ambiguous THEN [left EXCEPT !.ambiguous = @ + 1]
                  ELSE [left EXCEPT !.unresolved = @ + 1], out)

BugFlushFirst(s, k) ==
    [s EXCEPT !.queue = SubSeq(@, k + 1, Len(@)), !.count = @ - k,
              !.bytes = @ - Sum(SubSeq(s.queue, 1, k)), !.unresolved = @ + k]
FlushFirst(s, k) == FoldLeft(LAMBDA acc, e : FlushOne(acc), s, SubSeq(s.queue, 1, k))

\* native_packet_overview_flush: the head waits for the window to pass.
Flush(s, ts, all) ==
    LET latest == Larger(s.latest, ts)
        due(e) == all \/ (latest >= Window /\ e.ts <= latest - Window)
        k == CHOOSE i \in 0..Len(s.queue) :
                /\ \A j \in 1..i : due(s.queue[j])
                /\ i = Len(s.queue) \/ ~due(s.queue[i + 1])
    IN FlushFirst([s EXCEPT !.latest = latest], k)

\* native_packet_overview_slot_pending
SlotPending(s, slot) == \E i \in DOMAIN s.queue : SlotOf[s.queue[i].pkt] = slot

\* The entry after evidence from d: a second socket makes it ambiguous, and
\* another packet in the same slot makes it unusable for both.
BugNamed(o, d) ==
    IF o = None
    THEN [pkt |-> d.pkt, sock |-> d.sock, ts |-> d.ts, ambiguous |-> FALSE, collided |-> FALSE]
    ELSE [o EXCEPT !.collided = @ \/ o.pkt # d.pkt,
                   !.sock = IF o.pkt = d.pkt THEN d.sock ELSE @, !.ts = Larger(@, d.ts)]
Named(o, d) ==
    IF o = None
    THEN [pkt |-> d.pkt, sock |-> d.sock, ts |-> d.ts, ambiguous |-> FALSE, collided |-> FALSE]
    ELSE [o EXCEPT !.collided = @ \/ o.pkt # d.pkt,
                   !.ambiguous = @ \/ (o.pkt = d.pkt /\ o.sock # d.sock),
                   !.ts = Larger(@, d.ts)]

\* native_packet_overview_observe: an old entry is given up once no waiting
\* event refers to it.
Observe(s, d) ==
    LET slot == SlotOf[d.pkt]
        o == s.owners[slot]
        old == o # None /\ d.ts > o.ts + Window
        s1 == IF old THEN Flush(s, d.ts, FALSE) ELSE s
        rest == IF old /\ ~SlotPending(s1, slot) THEN None ELSE o
        s2 == [s1 EXCEPT !.owners[slot] = IF d.sock = None THEN rest ELSE Named(rest, d)]
    IN Flush(IF d.pkt \in Untracked THEN s ELSE s2, d.ts, FALSE)

\* native_packet_overview_queue
BugFits(s, d) == s.count <= MaxQueued /\ s.bytes + d.size <= MaxBytes
Fits(s, d) == s.count < MaxQueued /\ s.bytes + d.size <= MaxBytes
Queue(s, d, id, flow) ==
    LET k == CHOOSE i \in 0..Len(s.queue) :
                LET room == [s EXCEPT !.count = @ - i, !.bytes = @ - Sum(SubSeq(s.queue, 1, i))]
                IN /\ i = Len(s.queue) \/ Fits(room, d)
                   /\ i > 0 => ~Fits([s EXCEPT !.count = @ - (i - 1),
                                               !.bytes = @ - Sum(SubSeq(s.queue, 1, i - 1))], d)
        s1 == FlushFirst([s EXCEPT !.capacity_flushes = @ + k], k)
        e == [id |-> id, pkt |-> d.pkt, sock |-> d.sock, ts |-> d.ts, size |-> d.size,
              flow |-> flow]
    IN IF d.size <= MaxBytes
       THEN Flush([s1 EXCEPT !.queue = Append(@, e), !.count = @ + 1, !.bytes = @ + d.size],
                  s1.latest, FALSE)
       ELSE Write([Flush(s1, 0, TRUE) EXCEPT !.unresolved = @ + 1],
                  [id |-> id, ts |-> d.ts, size |-> d.size, mirror |-> None, via |-> "none"])

-----------------------------------------------------------------------------
(* Flows of the tuple.                                                       *)

\* flow_lookup: the flow with the event's socket, else the only one that has
\* none, or any if the event has none; 0 if there is none or no telling.
FlowLookup(s, d) ==
    LET live == {i \in DOMAIN s.flows : d.ts >= s.flows[i].first}
        exact == {i \in live : d.sock # None /\ s.flows[i].sock = d.sock}
        candidates == {i \in live : d.sock = None \/ s.flows[i].sock = None}
        found == IF Cardinality(exact) = 1 THEN exact ELSE candidates
    IN [id |-> IF Cardinality(found) = 1 /\ Cardinality(exact) <= 1
               THEN CHOOSE i \in found : TRUE ELSE 0,
        ambiguous |-> Cardinality(exact) # 1 /\ (exact # {} \/ Cardinality(candidates) > 1)]

\* flow_set_owner
FlowSetOwner(f, sock) ==
    IF sock = None THEN f
    ELSE [f EXCEPT !.sock = sock, !.ambiguous = @ \/ f.sock \notin {None, sock}]

\* flow_link_socket: a record for every socket that is new to the flow.
FlowLinkSocket(s, before, d) ==
    IF d.sock \in {None, before} THEN s ELSE Write(s, Other(d.ts))

\* flow_emit_start
FlowEmitStart(s, d) == Write(FlowLinkSocket(s, None, d), Other(d.ts))

\* flow_from_packet, with flow_create.
FlowFromPacket(s, d) ==
    LET f == FlowLookup(s, d)
        new == [sock |-> d.sock, first |-> d.ts, last |-> d.ts, ambiguous |-> FALSE]
    IN CASE f.id # 0 -> [FlowLinkSocket(s, s.flows[f.id].sock, d) EXCEPT
                            !.flows[f.id] = FlowSetOwner([@ EXCEPT !.last = Larger(@, d.ts)],
                                                         d.sock)]
         [] f.id = 0 /\ ~f.ambiguous -> [FlowEmitStart(s, d) EXCEPT !.flows = Append(@, new)]
         [] OTHER -> s

\* flow_finish of every flow at the end of the trace, not before its last packet.
FlowsFinish(s, ts) ==
    FoldLeft(LAMBDA acc, f : Write(acc, Other(Larger(ts, f.last))), s, s.flows)

-----------------------------------------------------------------------------
(* Calls of the exporter.                                                    *)

Seen(d) ==
    evidence' = IF d.sock = None \/ d.pkt \in Untracked THEN evidence
                ELSE evidence \cup {[pkt |-> d.pkt, sock |-> d.sock, ts |-> d.ts]}
Another == file = None /\ events < MaxEvents /\ events' = events + 1
Event(pkt, sock, ts, size) == [pkt |-> pkt, sock |-> sock, ts |-> ts, size |-> size]

\* native_export_packet_event
NativeExportPacket(s, d, id) == Queue(Observe(s, d), d, id, FlowLookup(s, d).id)

\* perfetto_export_event for a packet stage that is shown.
ExportPacket(d) ==
    /\ Another
    /\ x' = NativeExportPacket(FlowFromPacket(Flush(x, d.ts, FALSE), d), d, Len(arrived) + 1)
    /\ arrived' = Append(arrived, d)
    /\ Seen(d)
    /\ UNCHANGED file

\* The same for a stage that compact mode hides.
ExportHidden(d) ==
    /\ Another
    /\ x' = FlowFromPacket(Observe(x, d), d)
    /\ Seen(d)
    /\ UNCHANGED <<arrived, file>>

\* The same for the stages of sockets and I/O: their records do not wait.
ExportOther(ts) ==
    /\ Another
    /\ x' = Write(Flush(x, ts, FALSE), Other(ts))
    /\ UNCHANGED <<arrived, evidence, file>>

\* System calls, connects, returns, handoffs and losses leave the queue alone.
ExportRecord(ts) ==
    /\ Another
    /\ x' = Write(x, Other(ts))
    /\ UNCHANGED <<arrived, evidence, file>>

\* perfetto_export_tick
ExportTick(ts) ==
    /\ file = None
    /\ x' = Flush(x, ts, FALSE)
    /\ UNCHANGED <<arrived, evidence, events, file>>

\* native_export_meta, n times.
Metas(s, ts, n) ==
    LET after[i \in 0..n] == IF i = 0 THEN s ELSE Write(after[i - 1], Other(ts))
    IN after[n]

\* perfetto_export_close: probe_status and rx_context; the rest of the
\* queue; the ends of the flows; the two records of the overview; ring_buffer,
\* which says whether the ring was truncated so far; trace_end and
\* capture_queue.  Then the file is written, and a warning printed if the ring
\* was truncated by then.
ExportClose(ts) ==
    LET rest == Flush(Metas(x, ts, StatusRecords), ts, TRUE)
        said == Metas(FlowsFinish(rest, ts), ts, 2)
    IN /\ file = None
       /\ x' = Pruned(Metas(said, ts, 3))
       /\ file' = [packets |-> x'.ring, warned |-> x'.truncated,
                   capacity_truncated |-> said.truncated,
                   held |-> said.ring, written |-> Len(said.log)]   \* history
       /\ UNCHANGED <<arrived, evidence, events>>

Next ==
    \/ \E pkt \in Packets, sock \in Sockets \cup {None}, ts \in Times :
          \/ \E size \in SizesOf[pkt] : ExportPacket(Event(pkt, sock, ts, size))
          \/ ExportHidden(Event(pkt, sock, ts, 0))
    \/ \E ts \in Times :
          \/ ExportOther(ts)
          \/ ExportRecord(ts)
          \/ ExportTick(ts)
          \/ ExportClose(ts)

Spec == Init /\ [][Next]_vars

-----------------------------------------------------------------------------
(* Properties.                                                               *)

\* The account of both buffers is exact and within its limits, and the head of
\* the queue is never overdue.
BuffersIntact ==
    /\ x.count = Len(x.queue) /\ x.count <= MaxQueued
    /\ x.bytes = Sum(x.queue) /\ x.bytes <= MaxBytes
    /\ x.ring_bytes = Sum(x.ring) /\ x.ring_bytes <= RingBytes
    /\ x.queue # <<>> => x.latest < Window \/ x.queue[1].ts > x.latest - Window

\* Originals: what packet events became in the trace.
Originals == SelectSeq(x.log, LAMBDA p : p.id # 0 /\ p.mirror = None)
Mirrors == {i \in DOMAIN x.log : x.log[i].mirror # None}

\* Whatever the pressure and the order of the times, every packet event is
\* written exactly once and in the order of arrival or still waits; a mirror
\* comes right after its original with the same time; and the counters of the
\* trace account for every event.
OriginalsOnce ==
    /\ [i \in DOMAIN Originals |-> Originals[i].id] \o [i \in DOMAIN x.queue |-> x.queue[i].id]
         = [i \in DOMAIN arrived |-> i]
    /\ \A i \in Mirrors : /\ i > 1 /\ x.log[i - 1].mirror = None
                          /\ x.log[i - 1].id = x.log[i].id /\ x.log[i - 1].ts = x.log[i].ts
    /\ x.emitted = Cardinality(Mirrors)
    /\ x.emitted + x.ambiguous + x.unresolved = Len(Originals)

\* What is known of packet event e before it is written: evidence of the same
\* packet, not older than the window and within the window of e.
KnownOf(e) ==
    {v \in evidence : /\ v.pkt = e.pkt /\ v.ts + Window >= x'.latest
                      /\ v.ts <= e.ts + Window /\ e.ts <= v.ts + Window}
Written == Len(x.log) + 1..Len(x'.log)

\* Ambiguity never turns into a guess (native_packet_overview_observe): an event
\* that names no socket itself has no mirror if what is known of its packet
\* names two.
NoGuess ==
    [][\A i \in Written :
          LET p == x'.log[i]
              e == arrived'[p.id]
          IN p.mirror # None /\ e.sock = None =>
                \A v, w \in KnownOf(e) : v.sock = w.sock]_vars

\* A mirror is on the track of the socket that the event itself names, and if
\* it names none, nothing that is known of its packet names another, however
\* the packets share their slots.  This holds of every mirror by evidence of
\* the packet, and of a mirror by the flow as long as no evidence of the packet
\* is more than a window younger than the event: the code forgets then what it
\* knew, and NoGuess shows where that leads.
MirrorsAgree ==
    [][\A i \in Written :
          LET p == x'.log[i]
              e == arrived'[p.id]
              younger == {v \in evidence' : v.pkt = e.pkt /\ v.ts > e.ts + Window}
          IN p.mirror # None =>
                IF e.sock # None THEN p.mirror = e.sock
                ELSE \/ p.via = "flow" /\ younger # {}
                     \/ \A v \in KnownOf(e) : v.sock = p.mirror]_vars

\* The file holds, in order, what was written from some point on and lies in
\* the window that ends with the newest time; all of it unless the program
\* warned.  The trace itself says less: capacity_truncated is right about what
\* was written before its record, which with the two records that follow may
\* still push out more.
FileIsWindow ==
    LET InWindow(packets) == SelectSeq(packets, LAMBDA p : p.ts >= Cutoff(x.ring_latest))
    IN file # None =>
          /\ \E k \in 1..Len(x.log) :
                /\ file.packets = InWindow(SubSeq(x.log, k, Len(x.log)))
                /\ ~file.warned => k = 1
          /\ ~file.capacity_truncated =>
                InWindow(file.held) = InWindow(SubSeq(x.log, 1, file.written))
=============================================================================
