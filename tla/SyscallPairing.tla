--------------------------- MODULE SyscallPairing ---------------------------
(* Network system calls, from the tracepoints to the exported slices.        *)
(*                                                                           *)
(* progs/core.c keeps the call a task is in (m_network_syscalls), sends a    *)
(* begin record at sys_enter and a self-contained end record at sys_exit,    *)
(* and the socket probes send an I/O record in between.  Each goes to the    *)
(* perf ring of the CPU the task runs on at that moment, so a task that      *)
(* migrates spreads one call over several rings; a full ring loses records.  *)
(* perfetto_export.c reads the rings in any order and pairs the records in   *)
(* pending_syscalls, one entry per thread, never removed.                    *)
EXTENDS Naturals, FiniteSets, Sequences, SequencesExt

CONSTANTS
    Threads,        \* traced tasks, (tgid, tid)
    CPU,            \* perf rings
    Kinds,          \* "recv", "read" (on a socket), "file" (read of a file)
    Sockets,        \* socket instances
    None,           \* no call, no entry
    TableSize,      \* ARRAY_SIZE(pending_syscalls)
    MaxCalls,       \* bound: system calls of the whole run
    MaxFaults       \* bound: records lost by full rings, entries evicted or not stored

ASSUME PairingAssumption ==
    /\ None \notin Sockets
    /\ TableSize \in Nat /\ MaxCalls \in Nat /\ MaxFaults \in Nat

VARIABLES
    clock,      \* per task: bpf_ktime_get_ns; only times of one task are compared
    call,       \* per task: the call it is in, in truth
    pend,       \* per task: m_network_syscalls
    ring,       \* per CPU: records not read yet
    table,      \* per task: its entry of pending_syscalls
    exported,   \* per task: the slices export_network_syscall wrote
    faults,     \* history: how many of the faults above happened
    calls,      \* history: every call that was entered
    handled,    \* history: records the exporter was given
    timely,     \* history: calls whose begin was given before anything newer
    closed      \* perfetto_export_close has run

kernel == <<clock, call, pend, ring, faults, calls>>
export == <<table, exported, handled, timely, closed>>
vars == <<kernel, export>>

Types == {"begin", "io", "end"}
Time == Nat
MaybeSocket == Sockets \cup {None}
Calls == [tid: Threads, start: Time, kind: Kinds, sock: MaybeSocket, over: BOOLEAN]
Records == [type: Types, tid: Threads, start: Time, ts: Time,
            kind: Kinds, sock: MaybeSocket]
Entries == [event: Records, active: BOOLEAN, completed: Time]
Slices == [tid: Threads, start: Time, ts: Time, kind: Kinds,
           sock: MaybeSocket, incomplete: BOOLEAN]

ASSUME NoneAssumption == None \notin Calls \cup Records \cup Entries

\* "Ordinary file I/O must never appear as network I/O."
RequireSocket(kind) == kind # "recv"

Init ==
    /\ clock = [t \in Threads |-> 1]
    /\ call = [t \in Threads |-> None]
    /\ pend = [t \in Threads |-> None]
    /\ ring = [c \in CPU |-> <<>>]
    /\ table = [t \in Threads |-> None]
    /\ exported = [t \in Threads |-> <<>>]
    /\ faults = 0
    /\ calls = {} /\ handled = {} /\ timely = {}
    /\ closed = FALSE

-----------------------------------------------------------------------------
(* The kernel side.                                                          *)

Fault == faults < MaxFaults /\ faults' = faults + 1

\* EVENT_OUTPUT_PTR on the CPU the task happens to run on.
Emit(rec) ==
    \E c \in CPU :
        \/ ring' = [ring EXCEPT ![c] = Append(@, rec)] /\ UNCHANGED faults
        \/ Fault /\ UNCHANGED ring

\* network_sys_enter: a stale entry is dropped, the new one stored, then sent.
\* Without an entry (the update failed) nothing is sent.
NetworkSysEnter(t, kind) ==
    /\ ~closed /\ call[t] = None /\ Cardinality(calls) < MaxCalls
    /\ LET c == [tid |-> t, start |-> clock[t], kind |-> kind, sock |-> None, over |-> FALSE]
           e == [type |-> "begin", tid |-> t, start |-> clock[t], ts |-> clock[t],
                 kind |-> kind, sock |-> None]
       IN /\ call' = [call EXCEPT ![t] = c]
          /\ calls' = calls \cup {c}
          /\ \/ pend' = [pend EXCEPT ![t] = e] /\ Emit(e)
             \/ pend' = [pend EXCEPT ![t] = None] /\ Fault /\ UNCHANGED ring
    /\ clock' = [clock EXCEPT ![t] = @ + 1]
    /\ UNCHANGED export

\* The entry probe of a protocol's sendmsg or recvmsg: network_syscall_bind
\* notes the socket in the task's entry, and the probe sends its own record.
SocketIo(t, s) ==
    /\ ~closed /\ call[t] # None
    /\ call[t].kind # "file" /\ call[t].sock = None
    /\ call' = [call EXCEPT ![t].sock = s]
    /\ calls' = (calls \ {call[t]}) \cup {call'[t]}
    /\ pend' = IF pend[t] = None THEN pend ELSE [pend EXCEPT ![t].sock = s]
    /\ Emit([type |-> "io", tid |-> t, start |-> clock[t], ts |-> clock[t],
             kind |-> call[t].kind, sock |-> s])
    /\ clock' = [clock EXCEPT ![t] = @ + 1]
    /\ UNCHANGED export

\* network_sys_exit: the entry is sent as the end record and deleted.
NetworkSysExit(t) ==
    /\ ~closed /\ call[t] # None
    /\ call' = [call EXCEPT ![t] = None]
    /\ calls' = (calls \ {call[t]}) \cup {[call[t] EXCEPT !.over = TRUE]}
    /\ \/ pend[t] = None /\ UNCHANGED <<ring, faults>>
       \/ pend[t] # None /\ Emit([pend[t] EXCEPT !.type = "end", !.ts = clock[t]])
    /\ pend' = [pend EXCEPT ![t] = None]
    /\ clock' = [clock EXCEPT ![t] = @ + 1]
    /\ UNCHANGED export

\* m_network_syscalls is an LRU map: other tasks can push an entry out.
EvictEntry(t) ==
    /\ ~closed /\ pend[t] # None
    /\ pend' = [pend EXCEPT ![t] = None]
    /\ Fault
    /\ UNCHANGED <<clock, call, ring, calls, export>>

-----------------------------------------------------------------------------
(* The exporter.                                                             *)

\* What export_network_syscall writes for a record: nothing if a socket is
\* required and unknown.
SlicesOf(e, incomplete) ==
    IF e.ts < e.start \/ (RequireSocket(e.kind) /\ e.sock = None)
    THEN <<>>
    ELSE <<[tid |-> e.tid, start |-> e.start, ts |-> e.ts, kind |-> e.kind,
            sock |-> e.sock, incomplete |-> incomplete]>>

Written(e, incomplete) == [exported EXCEPT ![e.tid] = @ \o SlicesOf(e, incomplete)]

InTable == {t \in Threads : table[t] # None}
Entry(e) == IF table[e.tid] = None THEN [event |-> e, active |-> FALSE, completed |-> 0]
                                   ELSE table[e.tid]
BugFull(e) == table[e.tid] = None /\ Cardinality(InTable) > TableSize
Full(e) == table[e.tid] = None /\ Cardinality(InTable) = TableSize

\* handle_network_syscall, end record: closes the call if it is the open one,
\* and is exported as it is, whatever was paired.
BugHandleEnd(e) ==
    LET p == Entry(e)
    IN /\ table' = [table EXCEPT ![e.tid] = [p EXCEPT !.active = FALSE, !.completed = e.start]]
       /\ exported' = IF p.active /\ p.event.start # e.start THEN exported ELSE Written(e, FALSE)
HandleEnd(e) ==
    LET p == Entry(e)
    IN /\ table' = [table EXCEPT ![e.tid] =
              [p EXCEPT !.active = @ /\ p.event.start # e.start,
                        !.completed = IF e.start > @ THEN e.start ELSE @]]
       /\ exported' = Written(e, FALSE)

\* handle_network_syscall, begin record: a begin that is no newer than what is
\* known is ignored; a newer one ends the open call as incomplete.
BugTooLate(p, e) == p.active /\ e.start <= p.event.start
TooLate(p, e) == e.start <= p.completed \/ (p.active /\ e.start <= p.event.start)
HandleBegin(e) ==
    LET p == Entry(e)
    IN \/ /\ TooLate(p, e)
          /\ table' = [table EXCEPT ![e.tid] = p]
          /\ UNCHANGED exported
       \/ /\ ~TooLate(p, e)
          /\ table' = [table EXCEPT ![e.tid] = [p EXCEPT !.event = e, !.active = TRUE]]
          /\ exported' = IF p.active THEN Written([p.event EXCEPT !.ts = e.start], TRUE)
                                     ELSE exported

\* The table is full: an end needs no entry, a begin is lost.
HandleFull(e) ==
    /\ exported' = IF e.type = "end" THEN Written(e, FALSE) ELSE exported
    /\ UNCHANGED table

\* pending_io_start binds the socket to the open call of the thread, if that
\* began no later.
HandleIo(e) ==
    LET p == table[e.tid]
    IN /\ table' = IF p # None /\ p.active /\ p.event.start <= e.ts
                   THEN [table EXCEPT ![e.tid].event.sock = e.sock]
                   ELSE table
       /\ UNCHANGED exported

\* perfetto_export_event for the oldest record of some ring.
ExportEvent(c) ==
    /\ ~closed /\ ring[c] # <<>>
    /\ LET e == Head(ring[c])
       IN /\ \/ e.type = "io" /\ HandleIo(e)
             \/ e.type # "io" /\ Full(e) /\ HandleFull(e)
             \/ e.type = "end" /\ ~Full(e) /\ HandleEnd(e)
             \/ e.type = "begin" /\ ~Full(e) /\ HandleBegin(e)
          /\ handled' = handled \cup {e}
          /\ timely' = IF /\ e.type = "begin" /\ ~Full(e)
                          /\ \A h \in handled : h.tid = e.tid => h.start < e.start
                       THEN timely \cup {[tid |-> e.tid, start |-> e.start]}
                       ELSE timely
    /\ ring' = [ring EXCEPT ![c] = Tail(@)]
    /\ UNCHANGED <<clock, call, pend, faults, calls, closed>>

\* perfetto_export_close: after the rings were drained, open calls are
\* exported as incomplete.
BugSlicesAtClose(t) == <<>>
SlicesAtClose(t) ==
    IF table[t] = None \/ ~table[t].active THEN <<>>
    ELSE SlicesOf([table[t].event EXCEPT !.ts = clock[t]], TRUE)
PerfettoExportClose ==
    /\ ~closed /\ \A c \in CPU : ring[c] = <<>>
    /\ closed' = TRUE
    /\ exported' = [t \in Threads |-> exported[t] \o SlicesAtClose(t)]
    /\ table' = [t \in Threads |-> None]
    /\ UNCHANGED <<kernel, handled, timely>>

Next ==
    \/ \E t \in Threads :
          \/ \E k \in Kinds : NetworkSysEnter(t, k)
          \/ \E s \in Sockets : SocketIo(t, s)
          \/ NetworkSysExit(t)
          \/ EvictEntry(t)
    \/ \E c \in CPU : ExportEvent(c)
    \/ PerfettoExportClose

Spec == Init /\ [][Next]_vars

-----------------------------------------------------------------------------
(* Properties.                                                               *)

Slots(c, incomplete) ==
    {i \in DOMAIN exported[c.tid] :
        exported[c.tid][i].start = c.start /\ exported[c.tid][i].incomplete = incomplete}
Complete(c) == Slots(c, FALSE)
Incomplete(c) == Slots(c, TRUE)
Exported == UNION {Range(exported[t]) : t \in Threads}

\* Types; no more threads have an entry than the table has room for.
TypeOK ==
    /\ clock \in [Threads -> Time] /\ faults \in 0..MaxFaults
    /\ \A t \in Threads :
          /\ call[t] \in Calls \cup {None}
          /\ pend[t] \in Records \cup {None}
          /\ table[t] \in Entries \cup {None}
    /\ \A c \in CPU : \A i \in DOMAIN ring[c] : ring[c][i] \in Records
    /\ Exported \subseteq Slices
    /\ calls \subseteq Calls /\ handled \subseteq Records
    /\ closed \in BOOLEAN
    /\ Cardinality(InTable) <= TableSize

\* Every end record that reached the exporter became exactly one complete
\* slice, with the socket the call really used, whatever the order in which
\* the rings were read, whatever was lost and however full the table was; and
\* no complete slice has another origin.
EndsExportedOnce ==
    /\ \A e \in {h \in handled : h.type = "end"} :
          Cardinality(Complete(e)) = IF RequireSocket(e.kind) /\ e.sock = None THEN 0 ELSE 1
    /\ \A x \in Exported :
          ~x.incomplete =>
              \E c \in calls : /\ c.tid = x.tid /\ c.start = x.start
                               /\ c.over /\ c.sock = x.sock

\* A call is never exported as incomplete once its end was exported: a begin
\* record that arrives late does not reopen the call.
NoReopening ==
    \A c \in calls : \A i \in Complete(c), j \in Incomplete(c) : j < i

\* After close, every call whose begin was read before anything newer of its
\* thread is in the trace, complete or not, even if its end record was lost or
\* never sent.
NoCallForgotten ==
    closed => \A c \in calls :
        ([tid |-> c.tid, start |-> c.start] \in timely /\ ~RequireSocket(c.kind))
            => Complete(c) \cup Incomplete(c) # {}

\* progs/core.c: ordinary file I/O must never appear as network I/O.
FileIoNeverExported == \A x \in Exported : x.kind # "file"
=============================================================================
