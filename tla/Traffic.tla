------------------------------ MODULE Traffic ------------------------------
(* Traffic mode: the socket probes of progs/traffic.c account bytes in BPF   *)
(* maps while traffic.c walks the maps and traffic_history.c keeps what it   *)
(* saw.  Nothing locks the maps as a whole: a lookup, an insertion and an    *)
(* addition are separate steps, the flow map is an LRU map whose elements    *)
(* are reused at once, and a walk sees the map at many different moments.    *)
(*                                                                           *)
(* Receive and transmit counters are treated alike everywhere, so there is   *)
(* one counter; the process map is sampled by the same code as the flow map. *)
EXTENDS Naturals, FiniteSets, Sequences, FiniteSetsExt, Functions

CONSTANTS
    Threads,        \* threads of one process
    Endpoints,      \* what the UDP endpoint probes may find
    Unknown,        \* TRAFFIC_ENDPOINT_UNKNOWN
    None,
    Sizes,          \* return values of sendmsg and recvmsg; 0 stands for <= 0
    Elements,       \* elements of the flow map
    HistoryCapacity,
    MaxIo,          \* bound: socket calls of the whole run
    MaxSamples      \* bound: samples of the whole run

ASSUME TrafficAssumption ==
    /\ IsFiniteSet(Threads) /\ IsFiniteSet(Endpoints)
    /\ Sizes \subseteq Nat
    /\ HistoryCapacity \in Nat /\ MaxIo \in Nat /\ MaxSamples \in Nat

VARIABLES
    now,        \* bpf_ktime_get_ns, CLOCK_MONOTONIC
    owed,       \* per thread: flows its returning calls have yet to account
    acct,       \* per thread: where in traffic_account it is
    totals,     \* traffic_totals
    process,    \* the process's counter in traffic_processes, or None
    flows,      \* per element: the flow it holds, with its counters
    ios,        \* history: socket calls begun
    moved,      \* history: bytes that socket calls returned
    dropped,    \* history: bytes not accounted in totals, in the process
    walk,       \* the sample being taken, or None
    report,     \* last_report_ns
    previous,   \* previous_rows: per flow the value last sampled
    history,    \* per flow: its record of traffic_history
    samples

kernel == <<owed, acct, totals, process, flows, ios, moved, dropped>>
sampler == <<walk, report, previous, history, samples>>
vars == <<now, kernel, sampler>>

Ops == {"udp4", "udp6"}
Keys == Threads \X (Endpoints \cup {Unknown})
Values == [first: Nat, last: Nat, bytes: Nat]
Accounts == [key: Keys, size: Sizes, at: Nat, element: Elements \cup {None},
             step: {"process", "flow", "newflow", "add"}]
Walks == [time: Nat, todo: SUBSET Elements, rows: [Keys -> Values \cup {None}], shaken: BOOLEAN]
Records == [total: Nat, base: Nat, counter: Nat, generation: Nat,
            deltas: Nat, valid: BOOLEAN]

\* None is an absent entry, and not one of the values an entry has.
ASSUME NoneAssumption ==
    /\ None \notin Endpoints \cup {Unknown} /\ None \notin Keys
    /\ None \notin Nat /\ None \notin Values /\ None \notin Records
    /\ None \notin Accounts /\ None \notin Walks

NoRecord == [total |-> 0, base |-> 0, counter |-> 0, generation |-> 0,
             deltas |-> 0, valid |-> TRUE]

Init ==
    /\ now = 1
    /\ owed = [t \in Threads |-> <<>>]
    /\ acct = [t \in Threads |-> None]
    /\ totals = 0 /\ process = None
    /\ flows = [e \in Elements |-> [key |-> None, value |-> [first |-> 0, last |-> 0, bytes |-> 0]]]
    /\ ios = 0 /\ moved = 0
    /\ dropped = [total |-> 0, process |-> 0]
    /\ walk = None /\ report = 1
    /\ previous = [k \in Keys |-> None]
    /\ history = [k \in Keys |-> None]
    /\ samples = 0

-----------------------------------------------------------------------------
(* The probes.                                                               *)

(* traffic_inflight is keyed by thread and operation, and a thread's entries *)
(* are gone when its call has returned; so the probes of one call up to its  *)
(* returns are one step, in which the entries are a value i.                 *)

\* traffic_enter.  udpv6_sendmsg calls udp_sendmsg for a mapped address: the
\* inner probe sees a socket of the wrong family and leaves it alone.
BugFamilyMatches(op, sock) == TRUE
FamilyMatches(op, sock) == op = sock
TrafficEnter(i, op, sock) == IF FamilyMatches(op, sock) THEN [i EXCEPT ![op] = Unknown] ELSE i

\* The endpoint probes fill in the entry of the operation of the socket's family.
TrafficEndpoints(i, sock, e) == IF i[sock] = None THEN i ELSE [i EXCEPT ![sock] = e]

\* The return of an operation accounts its entry, if there is one.
Returned(i, op) == IF i[op] = None THEN <<>> ELSE <<i[op]>>

\* A call on a socket of family sock; mapped: through the function of the other
\* family as well; e: what the endpoint probe found, if it ran; full: no room
\* in traffic_inflight.  Each return accounts the entry of its operation.
SocketCall(t, sock, mapped, e, full, size) ==
    LET empty == [o \in Ops |-> None]
        outer == TrafficEnter(empty, sock, sock)
        entered == IF mapped THEN TrafficEnter(outer, "udp4", sock) ELSE outer
        i == TrafficEndpoints(IF full THEN empty ELSE entered, sock, e)
        counted == (IF mapped THEN Returned(i, "udp4") ELSE <<>>) \o Returned(i, sock)
    IN /\ owed[t] = <<>> /\ acct[t] = None /\ ios < MaxIo
       /\ mapped => sock = "udp6"
       /\ ios' = ios + 1
       /\ moved' = moved + size
       /\ owed' = [owed EXCEPT ![t] =
             IF size > 0 THEN [n \in DOMAIN counted |-> [key |-> <<t, counted[n]>>, size |-> size]]
                         ELSE <<>>]
       /\ dropped' = IF full THEN [dropped EXCEPT !.total = @ + size, !.process = @ + size]
                             ELSE dropped
       /\ UNCHANGED <<now, acct, totals, process, flows, sampler>>

\* traffic_exit and traffic_account: the totals, then the process if it has an
\* entry.
TrafficAccount(t) ==
    /\ acct[t] = None /\ owed[t] # <<>>
    /\ LET io == Head(owed[t])
       IN /\ totals' = totals + io.size
          /\ process' = IF process = None THEN None ELSE process + io.size
          /\ acct' = [acct EXCEPT ![t] =
                [key |-> io.key, size |-> io.size, at |-> now, element |-> None,
                 step |-> IF process = None THEN "process" ELSE "flow"]]
    /\ owed' = [owed EXCEPT ![t] = Tail(@)]
    /\ now' = now + 1
    /\ UNCHANGED <<flows, ios, moved, dropped, sampler>>

Continue(t, step, element) ==
    acct' = [acct EXCEPT ![t].step = step, ![t].element = element]

\* Insert with BPF_NOEXIST, look up again: "Another thread can win the
\* insertion; add this I/O to its value."  The insertion may fail; and a process
\* whose start time cannot be read, which is so for all its calls, gets no entry.
Inserted(old) == IF old = None THEN {0, None} ELSE {old}
InsertProcess(t) ==
    /\ acct[t] # None /\ acct[t].step = "process"
    /\ \E value \in Inserted(process) :
          \/ value # None /\ process' = value + acct[t].size /\ UNCHANGED dropped
          \/ /\ value = None /\ UNCHANGED process
             /\ dropped' = [dropped EXCEPT !.process = @ + acct[t].size]
    /\ Continue(t, "flow", None)
    /\ UNCHANGED <<now, owed, totals, flows, ios, moved, sampler>>

\* traffic_account, lookup of the flow.
Holding(k) == {e \in Elements : flows[e].key = k}
AccountFlow(t) ==
    /\ acct[t] # None /\ acct[t].step = "flow"
    /\ \/ \E e \in Holding(acct[t].key) : Continue(t, "add", e)
       \/ Holding(acct[t].key) = {} /\ Continue(t, "newflow", None)
    /\ UNCHANGED <<now, owed, totals, process, flows, ios, moved, dropped, sampler>>

\* A new element is a free one, or the one of a flow the LRU map pushes out.
\* Its lookup may find it gone again: the detail is lost, the totals are not.
FreshElements == IF Holding(None) # {} THEN Holding(None) ELSE Elements
InsertFlow(t) ==
    /\ acct[t] # None /\ acct[t].step = "newflow"
    /\ \/ \E e \in FreshElements :
             /\ flows' = [flows EXCEPT ![e] =
                   [key |-> acct[t].key, value |-> [first |-> acct[t].at, last |-> 0, bytes |-> 0]]]
             /\ Continue(t, "add", e)
       \/ acct' = [acct EXCEPT ![t] = None] /\ UNCHANGED flows
    /\ UNCHANGED <<now, owed, totals, process, ios, moved, dropped, sampler>>

\* traffic_counter_add through the pointer the lookup returned.  If the element
\* was freed the bytes vanish; if it was reused they land in another flow.
AddFlow(t) ==
    /\ acct[t] # None /\ acct[t].step = "add"
    /\ flows' = [flows EXCEPT ![acct[t].element].value.bytes = @ + acct[t].size,
                              ![acct[t].element].value.last = acct[t].at]
    /\ acct' = [acct EXCEPT ![t] = None]
    /\ UNCHANGED <<now, owed, totals, process, ios, moved, dropped, sampler>>

\* A flow leaves the map: the LRU map shrinks, or traffic_collect_rows deletes
\* an idle one.
DeleteFlow(e) ==
    /\ flows[e].key # None
    /\ flows' = [flows EXCEPT ![e].key = None]
    /\ walk' = IF walk = None THEN None ELSE [walk EXCEPT !.shaken = TRUE]
    /\ UNCHANGED <<now, owed, acct, totals, process, ios, moved, dropped,
                   report, previous, history, samples>>

-----------------------------------------------------------------------------
(* The sampler.                                                              *)

NoRows == [k \in Keys |-> None]

\* traffic_sample_display takes the time first, then walks the map.
SampleBegin ==
    /\ walk = None /\ samples < MaxSamples
    /\ samples' = samples + 1
    /\ walk' = [time |-> now, todo |-> Elements, rows |-> NoRows, shaken |-> FALSE]
    /\ now' = now + 1
    /\ UNCHANGED <<kernel, report, previous, history>>

\* traffic_unique_flows: of two rows of a flow the newer generation, then the
\* one seen last.
Newer(a, b) ==
    IF \/ a = None
       \/ b.first > a.first
       \/ b.first = a.first /\ b.last >= a.last
    THEN b ELSE a

\* One round of traffic_collect_flow_sample.
Collected(rows, f) ==
    IF f.key = None THEN rows ELSE [rows EXCEPT ![f.key] = Newer(@, f.value)]
SampleRow(e) ==
    /\ walk # None /\ e \in walk.todo
    /\ walk' = [walk EXCEPT !.todo = @ \ {e}, !.rows = Collected(@, flows[e])]
    /\ UNCHANGED <<now, kernel, report, previous, history, samples>>

\* bpf_map_get_next_key starts over when the key it is given was deleted, so a
\* walk may meet flows twice.
SampleRestart ==
    /\ walk # None /\ walk.shaken /\ walk.todo # Elements
    /\ walk' = [walk EXCEPT !.todo = Elements, !.shaken = FALSE]
    /\ UNCHANGED <<now, kernel, report, previous, history, samples>>

\* traffic_sample_deltas: the bytes since the last sample, or None for a gap.
BugDelta(value, prev) ==
    IF prev # None /\ value.bytes >= prev.bytes THEN value.bytes - prev.bytes
    ELSE IF value.first >= report THEN value.bytes
    ELSE None
Delta(value, prev) ==
    IF prev # None /\ value.first = prev.first
    THEN IF value.bytes < prev.bytes THEN None ELSE value.bytes - prev.bytes
    ELSE IF value.first >= report THEN value.bytes ELSE None

\* traffic_history_update of one record.
BugRebase(r, value) ==
    IF r.generation # 0 /\ r.generation # value.first THEN [r EXCEPT !.base = r.total] ELSE r
Rebase(r, value) ==
    IF r.generation # 0 /\ r.generation # value.first
    THEN [r EXCEPT !.base = r.total, !.counter = 0]
    ELSE r
Total(base, counter) == base + counter
Updated(old, value, delta) ==
    LET r == Rebase(IF old = None THEN NoRecord ELSE old, value)
        counter == IF value.bytes > r.counter THEN value.bytes ELSE r.counter
        valid == delta # None /\ value.bytes >= r.counter
    IN IF r.generation # 0 /\ value.first < r.generation
       THEN [old EXCEPT !.valid = FALSE]
       ELSE [total |-> Total(r.base, counter), base |-> r.base, counter |-> counter,
             generation |-> value.first,
             deltas |-> r.deltas + (IF valid THEN delta ELSE 0),
             valid |-> r.valid /\ valid]

\* The rows are compared with the previous sample and go into the history; an
\* identity beyond the capacity is not retained.  A walk may have been cut
\* short, by an error or by the limit on its rounds: that is a warning only.
Shown == {k \in Keys : walk.rows[k] # None /\ walk.rows[k].last # 0}
Known == {k \in Keys : history[k] # None}
BugRoom == Cardinality(Keys)
Room == HistoryCapacity - Cardinality(Known)
SampleEnd ==
    /\ walk # None
    /\ \E kept \in SUBSET (Shown \ Known) :
          /\ Cardinality(kept) = Min({Cardinality(Shown \ Known), Room})
          /\ history' = [k \in Keys |->
                IF k \in kept \cup (Shown \cap Known)
                THEN Updated(history[k], walk.rows[k], Delta(walk.rows[k], previous[k]))
                ELSE history[k]]
    /\ previous' = walk.rows
    /\ report' = walk.time
    /\ walk' = None
    /\ UNCHANGED <<now, kernel, samples>>

Next ==
    \/ \E t \in Threads :
          \/ \E sock \in Ops, mapped \in BOOLEAN, e \in Endpoints \cup {Unknown},
                full \in BOOLEAN, size \in Sizes : SocketCall(t, sock, mapped, e, full, size)
          \/ TrafficAccount(t)
          \/ InsertProcess(t)
          \/ AccountFlow(t)
          \/ InsertFlow(t)
          \/ AddFlow(t)
    \/ \E e \in Elements : DeleteFlow(e) \/ SampleRow(e)
    \/ SampleBegin
    \/ SampleRestart
    \/ SampleEnd

Spec == Init /\ [][Next]_vars

-----------------------------------------------------------------------------
(* Properties.                                                               *)

\* Types; the history keeps within its array.
TypeOK ==
    /\ now \in Nat /\ totals \in Nat /\ moved \in Nat /\ ios \in 0..MaxIo
    /\ process \in Nat \cup {None} /\ dropped \in [total: Nat, process: Nat]
    /\ owed \in [Threads -> Seq([key: Keys, size: Sizes])]
    /\ acct \in [Threads -> Accounts \cup {None}]
    /\ flows \in [Elements -> [key: Keys \cup {None}, value: Values]]
    /\ walk \in Walks \cup {None} /\ report \in Nat /\ samples \in 0..MaxSamples
    /\ previous \in [Keys -> Values \cup {None}]
    /\ history \in [Keys -> Records \cup {None}]
    /\ Cardinality(Known) <= HistoryCapacity

Bytes(k) == IF history[k] = None THEN 0 ELSE history[k].total

\* When no probe is running, every byte a socket call returned is in the total
\* and in its process exactly once, or was dropped for want of an entry: a
\* mapped IPv4 send, which runs two pairs of probes, counts once, and of two
\* threads that create the process entry neither loses its bytes.
EveryIoCountedOnce ==
    (\A t \in Threads : owed[t] = <<>> /\ acct[t] = None) =>
        /\ totals + dropped.total = moved
        /\ (IF process = None THEN 0 ELSE process) + dropped.process = moved

\* The totals on the screen never exceed the bytes accounted, although entries
\* are evicted, created again and read in the middle of an update.
HistoryNeverOverstates == SumFunction([k \in Keys |-> Bytes(k)]) <= totals

\* The increments shown never add up to more than the total shown, and to
\* exactly that as long as no sample of the flow was marked as a gap.
DeltasExplainTotals ==
    \A k \in Known :
        /\ history[k].deltas <= history[k].total
        /\ history[k].valid => history[k].deltas = history[k].total
=============================================================================
