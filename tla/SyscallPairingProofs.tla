------------------------ MODULE SyscallPairingProofs ------------------------
(* Proofs about SyscallPairing, for any number of threads, rings, calls,     *)
(* sockets and faults and any table size.                                    *)
(*                                                                           *)
(* None of the properties is inductive.  That an end record is exported      *)
(* once rests on the kernel side: a call has one end record, which is in one *)
(* place of one ring or was handled (InvOneEnd), and tells the truth about a *)
(* call that is over (InvRecords, from InvKernel: a task's entry describes   *)
(* the call it is in, and its calls start at different times).  That a late  *)
(* begin record does not reopen a call rests on the entry of its thread:     *)
(* every end handled is at or below completed, or the table is full and will *)
(* not take the thread any more (InvEntries).  Then the exporter writes an   *)
(* incomplete slice only for a call without an end (Fits), and the slices of *)
(* a thread stay in one-to-one correspondence with its ends (InvSlices).     *)
(* InvTimely carries a call from its begin to its slice: open, or seen.      *)
EXTENDS SyscallPairing, FiniteSetTheorems, SequenceTheorems, TLAPS

\* The records still in a ring.
Flight == UNION {Range(ring[c]) : c \in CPU}

\* A record or slice of call c.
Of(x, c) == x.tid = c.tid /\ x.start = c.start

\* The type invariant, with what the proofs need beside it: functions and
\* sequences, and a table with finitely many entries.
InvTypes ==
    /\ clock \in [Threads -> Time]
    /\ call \in [Threads -> Calls \cup {None}]
    /\ pend \in [Threads -> Records \cup {None}]
    /\ ring \in [CPU -> Seq(Records)]
    /\ table \in [Threads -> Entries \cup {None}]
    /\ exported \in [Threads -> Seq(Slices)]
    /\ faults \in 0..MaxFaults
    /\ calls \subseteq Calls /\ handled \subseteq Records
    /\ timely \subseteq [tid : Threads, start : Time]
    /\ closed \in BOOLEAN
InvTable ==
    /\ IsFiniteSet(InTable)
    /\ Cardinality(InTable) <= TableSize

\* What the kernel knows: a task's calls start at different times, it is in
\* one that is not over, and its entry describes that call.
InvKernel ==
    /\ \A t \in Threads : clock[t] >= 1
    /\ \A c \in calls : 1 <= c.start /\ c.start < clock[c.tid]
    /\ \A c, d \in calls : Of(c, d) => c = d
    /\ \A t \in Threads :
          call[t] # None => call[t] \in calls /\ call[t].tid = t /\ ~call[t].over
    /\ \A t \in Threads :
          pend[t] # None =>
             /\ call[t] # None /\ Of(pend[t], call[t])
             /\ pend[t].kind = call[t].kind /\ pend[t].sock = call[t].sock

\* Every record tells the truth about a call.
Truthful(r) ==
    /\ r.type = "begin" => \E c \in calls : Of(r, c) /\ r.kind = c.kind
    /\ r.type = "end" =>
          /\ r.start <= r.ts
          /\ \E c \in calls : Of(r, c) /\ c.over /\ c.sock = r.sock /\ c.kind = r.kind
InvRecords == \A r \in Flight \cup handled : Truthful(r)

\* A call has one end record: once in one ring, or handled.
InvOneEnd ==
    /\ \A c, d \in CPU : \A i \in 1..Len(ring[c]), j \in 1..Len(ring[d]) :
          /\ ring[c][i].type = "end" /\ ring[d][j].type = "end"
          /\ Of(ring[c][i], ring[d][j])
          => c = d /\ i = j
    /\ \A r \in Flight, e \in handled :
          r.type = "end" /\ e.type = "end" => ~Of(r, e)
    /\ \A e, f \in handled :
          e.type = "end" /\ f.type = "end" /\ Of(e, f) => e = f

\* Call c has a slice.
Seen(slices, c) == \E i \in 1..Len(slices[c.tid]) : slices[c.tid][i].start = c.start

Shown(e) == ~(RequireSocket(e.kind) /\ e.sock = None)

\* Complete slices and handled end records correspond one to one: s are the
\* slices of thread t, hs the records handled.
HasOrigin(x, hs) ==
    \E e \in hs : e.type = "end" /\ Of(x, e) /\ Shown(e) /\ x.sock = e.sock
ThreadSlices(t, s, hs) ==
    /\ \A i \in 1..Len(s) :
          s[i].tid = t /\ (~s[i].incomplete => HasOrigin(s[i], hs))
    /\ \A e \in hs : e.type = "end" /\ Shown(e) /\ e.tid = t =>
          \E i \in 1..Len(s) : s[i].start = e.start /\ ~s[i].incomplete
    /\ \A i, j \in 1..Len(s) : s[i].start = s[j].start /\ ~s[i].incomplete =>
          IF s[j].incomplete THEN j < i ELSE i = j
InvSlices == \A t \in Threads : ThreadSlices(t, exported[t], handled)

\* What the entry of a thread says about what was handled: the open call has
\* no end yet, and no call is newer than the last completed one but the open.
Open(t, s) == table[t] # None /\ table[t].active /\ table[t].event.start = s
EntryTrue(t) ==
    LET p == table[t]
    IN  /\ p.event.tid = t
        /\ p.completed = 0 \/ \E e \in handled : e.tid = t /\ e.start = p.completed
        /\ p.active =>
             /\ p.event.type = "begin" /\ Truthful(p.event)
             /\ \E e \in handled : Of(e, p.event)
             /\ \A e \in handled : e.type = "end" => ~Of(e, p.event)
EndKnown(e) ==
    IF table[e.tid] = None THEN Cardinality(InTable) = TableSize
                           ELSE e.start <= table[e.tid].completed
InvEntries ==
    /\ \A t \in Threads : table[t] # None => EntryTrue(t)
    /\ ~closed => \A e \in handled : e.type = "end" => EndKnown(e)

\* A call whose begin came in time is open, or has a slice.
InvTimely ==
    \A m \in timely :
        /\ \E c \in calls : Of(m, c)
        /\ \A c \in calls : Of(m, c) /\ ~RequireSocket(c.kind) =>
              \/ Seen(exported, c)
              \/ ~closed /\ Open(c.tid, c.start)

IInv ==
    /\ InvTypes /\ InvTable /\ InvKernel /\ InvRecords /\ InvOneEnd
    /\ InvSlices /\ InvEntries /\ InvTimely

---------------------------------------------------------------------------
(* Sequences *)

\* One more record in a ring, or one more slice of a thread.
LEMMA AppendOne ==
    ASSUME NEW S, NEW s \in Seq(S), NEW x \in S
    PROVE  /\ Append(s, x) \in Seq(S)
           /\ Len(Append(s, x)) = Len(s) + 1 /\ Len(s) \in Nat
           /\ \A i \in 1..Len(s) + 1 : Append(s, x)[i] = IF i <= Len(s) THEN s[i] ELSE x
BY AppendProperties

\* What Append does, as a concatenation with one slice.
LEMMA ConcatOne ==
    ASSUME NEW S, NEW s \in Seq(S), NEW x \in S
    PROVE  s \o <<x>> = Append(s, x) /\ s \o <<>> = s
OBVIOUS

\* Reading the oldest record of a ring.
LEMMA TakeOne ==
    ASSUME NEW S, NEW s \in Seq(S), s # <<>>
    PROVE  /\ Len(s) \in Nat \ {0} /\ Head(s) = s[1] /\ Head(s) \in S
           /\ Tail(s) \in Seq(S) /\ Len(Tail(s)) = Len(s) - 1
           /\ \A i \in 1..Len(s) - 1 : Tail(s)[i] = s[i + 1]
BY HeadTailProperties

\* The records in flight, by their place.
LEMMA FlightPlaces ==
    ASSUME InvTypes, NEW r
    PROVE  r \in Flight <=> \E c \in CPU : \E i \in 1..Len(ring[c]) : r = ring[c][i]
<1>1. \A c \in CPU : DOMAIN ring[c] = 1..Len(ring[c])
  BY DEF InvTypes
<1>2. \A c \in CPU : Range(ring[c]) = {ring[c][i] : i \in 1..Len(ring[c])}
  BY <1>1 DEF Range
<1>. QED
  BY <1>2 DEF Flight

---------------------------------------------------------------------------
(* The kernel side *)

\* Calls stay, over or not; one that is over stays as it is.
CallsKept ==
    \A c \in calls : \E d \in calls' :
        Of(c, d) /\ c.kind = d.kind /\ (c.over => d = c)

\* At most one record is added to a ring: it tells the truth, and no end
\* record of its call was sent before.
Sends(rec) ==
    /\ rec \in Records /\ Truthful(rec)'
    /\ rec.type = "end" => \A r \in Flight \cup handled : r.type = "end" => ~Of(r, rec)
    /\ \E c \in CPU : ring' = [ring EXCEPT ![c] = Append(@, rec)]

\* A record that told the truth still does.
LEMMA TruthKept ==
    ASSUME CallsKept, NEW r, Truthful(r)
    PROVE  Truthful(r)'
BY DEF CallsKept, Truthful, Of

\* What the exporter relies on survives every step of the kernel.
LEMMA KernelFrame ==
    ASSUME IInv, InvTypes', InvKernel', UNCHANGED export, CallsKept,
           ring' = ring \/ \E rec \in Records : Sends(rec)
    PROVE  IInv'
<1>0. UNCHANGED <<table, exported, handled, timely, closed>>
  BY DEF export
<1>1. InvTable' /\ InvSlices'
  <2>1. InvSlices'
    BY <1>0 DEF IInv, InvSlices
  <2>. QED
    BY <1>0, <2>1 DEF IInv, InvTable, InTable
<1>2. InvEntries'
  <2>1. ASSUME NEW t \in Threads, table[t] # None PROVE EntryTrue(t)'
    <3>1. EntryTrue(t)
      BY <2>1 DEF IInv, InvEntries
    <3>2. table[t].active => Truthful(table[t].event)'
      BY <3>1, <1>0, TruthKept DEF EntryTrue
    <3>. QED
      BY <1>0, <3>1, <3>2 DEF EntryTrue, Of
  <2>2. ASSUME NEW e \in handled, ~closed, e.type = "end" PROVE EndKnown(e)'
    BY <2>2, <1>0 DEF IInv, InvEntries, EndKnown, InTable
  <2>. QED
    BY <1>0, <2>1, <2>2 DEF InvEntries
<1>3. InvTimely'
  <2>. SUFFICES ASSUME NEW m \in timely
                PROVE  /\ \E d \in calls' : Of(m, d)
                       /\ \A d \in calls' : Of(m, d) /\ ~RequireSocket(d.kind) =>
                            \/ Seen(exported, d)
                            \/ ~closed /\ Open(d.tid, d.start)
    BY <1>0 DEF InvTimely, Open
  <2>1. PICK c \in calls : Of(m, c)
    BY DEF IInv, InvTimely
  <2>2. PICK d \in calls' : Of(c, d) /\ c.kind = d.kind
    BY DEF CallsKept
  <2>3. ASSUME NEW x \in calls', Of(m, x) PROVE x = d
    <3>1. Of(x, d)
      BY <2>1, <2>2, <2>3 DEF Of
    <3>. QED
      BY <3>1 DEF InvKernel
  <2>4. c.tid = d.tid /\ c.start = d.start /\ Of(m, d)
    BY <2>1, <2>2 DEF Of
  <2>5. ~RequireSocket(c.kind) =>
           \/ Seen(exported, c)
           \/ ~closed /\ Open(c.tid, c.start)
    BY <2>1 DEF IInv, InvTimely
  <2>. QED
    BY <2>2, <2>3, <2>4, <2>5 DEF Seen
<1>4. CASE ring' = ring
  <2>1. Flight' = Flight
    BY <1>4 DEF Flight
  <2>2. InvRecords'
    BY <1>0, <2>1, TruthKept DEF IInv, InvRecords
  <2>3. InvOneEnd'
    BY <1>0, <1>4, <2>1 DEF IInv, InvOneEnd
  <2>. QED
    BY <1>1, <1>2, <1>3, <2>2, <2>3 DEF IInv
<1>5. ASSUME NEW rec \in Records, Sends(rec) PROVE IInv'
  <2>1. PICK c \in CPU : ring' = [ring EXCEPT ![c] = Append(@, rec)]
    BY <1>5 DEF Sends
  <2>2. /\ ring[c] \in Seq(Records) /\ Len(ring'[c]) = Len(ring[c]) + 1 /\ Len(ring[c]) \in Nat
        /\ \A i \in 1..Len(ring[c]) + 1 :
              ring'[c][i] = IF i <= Len(ring[c]) THEN ring[c][i] ELSE rec
        /\ \A d \in CPU \ {c} : ring'[d] = ring[d]
    <3>1. ring[c] \in Seq(Records) /\ ring'[c] = Append(ring[c], rec)
            /\ \A d \in CPU \ {c} : ring'[d] = ring[d]
      BY <2>1 DEF IInv, InvTypes
    <3>. QED
      BY <3>1, AppendOne
  <2>3. ASSUME NEW d \in CPU, NEW i \in 1..Len(ring'[d])
        PROVE  \/ i \in 1..Len(ring[d]) /\ ring'[d][i] = ring[d][i]
               \/ d = c /\ i = Len(ring[c]) + 1 /\ ring'[d][i] = rec
    BY <2>2
  <2>4. ASSUME NEW r \in Flight' PROVE r \in Flight \/ r = rec
    <3>1. PICK d \in CPU : \E i \in 1..Len(ring'[d]) : r = ring'[d][i]
      <4>1. \A d \in CPU : DOMAIN ring'[d] = 1..Len(ring'[d])
        BY DEF InvTypes
      <4>2. PICK d \in CPU : r \in Range(ring'[d])
        BY DEF Flight
      <4>. QED
        BY <4>1, <4>2 DEF Range
    <3>. QED
      BY <2>3, <3>1, FlightPlaces DEF IInv
  <2>5. InvRecords'
    BY <1>0, <1>5, <2>4, TruthKept DEF IInv, InvRecords, Sends
  <2>6. InvOneEnd'
    <3>1. ASSUME NEW a \in CPU, NEW b \in CPU,
                 NEW i \in 1..Len(ring'[a]), NEW j \in 1..Len(ring'[b]),
                 ring'[a][i].type = "end", ring'[b][j].type = "end",
                 Of(ring'[a][i], ring'[b][j])
          PROVE  a = b /\ i = j
      <4>1. ASSUME NEW d \in CPU, NEW k \in 1..Len(ring[d]),
                   rec.type = "end", ring[d][k].type = "end"
            PROVE  ~Of(ring[d][k], rec) /\ ~Of(rec, ring[d][k])
        <5>1. ring[d][k] \in Flight
          BY FlightPlaces DEF IInv
        <5>. QED
          BY <1>5, <4>1, <5>1 DEF Sends, Of
      <4>2. CASE i \in 1..Len(ring[a]) /\ ring'[a][i] = ring[a][i]
                 /\ j \in 1..Len(ring[b]) /\ ring'[b][j] = ring[b][j]
        BY <3>1, <4>2 DEF IInv, InvOneEnd
      <4>. QED
        BY <2>3, <3>1, <4>1, <4>2
    <3>2. ASSUME NEW r \in Flight', NEW e \in handled, r.type = "end", e.type = "end"
          PROVE  ~Of(r, e)
      BY <1>5, <2>4, <3>2 DEF IInv, InvOneEnd, Sends, Of
    <3>. QED
      BY <1>0, <3>1, <3>2 DEF IInv, InvOneEnd
  <2>. QED
    BY <1>1, <1>2, <1>3, <2>5, <2>6 DEF IInv
<1>. QED
  BY <1>4, <1>5

\* Emit puts the record on one ring or loses it.
LEMMA EmitSends ==
    ASSUME NEW rec \in Records, Emit(rec), Truthful(rec)',
           rec.type = "end" => \A r \in Flight \cup handled : r.type = "end" => ~Of(r, rec)
    PROVE  ring' = ring \/ Sends(rec)
BY DEF Emit, Sends

\* Emit keeps the types.
LEMMA EmitTypes ==
    ASSUME InvTypes, NEW rec \in Records, Emit(rec)
    PROVE  ring' \in [CPU -> Seq(Records)] /\ faults' \in 0..MaxFaults
<1>1. PICK c \in CPU :
        \/ ring' = [ring EXCEPT ![c] = Append(@, rec)] /\ UNCHANGED faults
        \/ Fault /\ UNCHANGED ring
  BY DEF Emit
<1>2. faults' \in 0..MaxFaults
  BY <1>1, PairingAssumption DEF Fault, InvTypes
<1>3. Append(ring[c], rec) \in Seq(Records)
  BY AppendOne DEF InvTypes
<1>. QED
  BY <1>1, <1>2, <1>3 DEF InvTypes

\* sys_enter: the call starts later than all calls of the task before it.
LEMMA EnterInv ==
    ASSUME IInv, NEW t \in Threads, NEW kind \in Kinds, NetworkSysEnter(t, kind)
    PROVE  IInv'
<1>a. PICK c : c = [tid |-> t, start |-> clock[t], kind |-> kind, sock |-> None, over |-> FALSE]
  OBVIOUS
<1>b. PICK e : e = [type |-> "begin", tid |-> t, start |-> clock[t], ts |-> clock[t],
                    kind |-> kind, sock |-> None]
  OBVIOUS
<1>0. /\ call[t] = None /\ call' = [call EXCEPT ![t] = c] /\ calls' = calls \cup {c}
      /\ clock' = [clock EXCEPT ![t] = @ + 1] /\ UNCHANGED export
      /\ \/ pend' = [pend EXCEPT ![t] = e] /\ Emit(e)
         \/ pend' = [pend EXCEPT ![t] = None] /\ Fault /\ UNCHANGED ring
  BY <1>a, <1>b DEF NetworkSysEnter
<1>1. InvTypes /\ InvKernel
  BY DEF IInv
<1>2. clock[t] \in Nat /\ clock[t] >= 1 /\ clock' \in [Threads -> Time]
        /\ \A u \in Threads : clock'[u] = IF u = t THEN clock[t] + 1 ELSE clock[u]
  BY <1>0, <1>1 DEF InvTypes, InvKernel, Time
<1>3. c \in Calls /\ e \in Records
  BY <1>2, <1>a, <1>b DEF Calls, Records, MaybeSocket, Time, Types
<1>4. \A d \in calls : d \in Calls /\ d.tid \in Threads /\ d.start \in Nat
  BY <1>1 DEF InvTypes, Calls, Time
<1>5. \A d \in calls : d.tid = t => d.start # clock[t] /\ d.start < clock[t]
  BY <1>1, <1>2, <1>4 DEF InvKernel
<1>6. c.tid = t /\ c.start = clock[t] /\ c.kind = kind /\ c.sock = None /\ c.over = FALSE
  BY <1>a
<1>7. e.tid = t /\ e.start = clock[t] /\ e.kind = kind /\ e.sock = None /\ e.type = "begin"
  BY <1>b
<1>8. InvTypes'
  <2>1. ring' \in [CPU -> Seq(Records)] /\ faults' \in 0..MaxFaults
    BY <1>0, <1>1, <1>3, EmitTypes, PairingAssumption DEF InvTypes, Fault
  <2>2. call' \in [Threads -> Calls \cup {None}] /\ pend' \in [Threads -> Records \cup {None}]
          /\ calls' \subseteq Calls
    BY <1>0, <1>1, <1>3 DEF InvTypes
  <2>. QED
    BY <1>0, <1>1, <1>2, <2>1, <2>2 DEF InvTypes, export
<1>9. InvKernel'
  <2>1. \A u \in Threads : clock'[u] >= 1
    BY <1>1, <1>2 DEF InvKernel
  <2>2. \A d \in calls' : 1 <= d.start /\ d.start < clock'[d.tid]
    <3>1. ASSUME NEW d \in calls PROVE 1 <= d.start /\ d.start < clock'[d.tid]
      <4>1. d.tid \in Threads /\ d.start \in Nat /\ 1 <= d.start /\ d.start < clock[d.tid]
        BY <1>1, <1>4 DEF InvKernel
      <4>. QED
        BY <1>2, <4>1
    <3>2. 1 <= c.start /\ c.start < clock'[c.tid]
      BY <1>2, <1>6
    <3>. QED
      BY <1>0, <3>1, <3>2
  <2>3. \A x, y \in calls' : Of(x, y) => x = y
    BY <1>0, <1>1, <1>5, <1>6 DEF InvKernel, Of
  <2>4. \A u \in Threads :
          /\ call'[u] = IF u = t THEN c ELSE call[u]
          /\ u # t => pend'[u] = pend[u]
          /\ pend'[t] \in {None, e}
    BY <1>0, <1>1 DEF InvTypes
  <2>5. \A u \in Threads :
          call'[u] # None => call'[u] \in calls' /\ call'[u].tid = u /\ ~call'[u].over
    BY <1>0, <1>1, <1>6, <2>4 DEF InvKernel
  <2>6. \A u \in Threads :
          pend'[u] # None =>
             /\ call'[u] # None /\ Of(pend'[u], call'[u])
             /\ pend'[u].kind = call'[u].kind /\ pend'[u].sock = call'[u].sock
    <3>1. ASSUME NEW u \in Threads, u # t, pend'[u] # None
          PROVE  /\ call'[u] # None /\ Of(pend'[u], call'[u])
                 /\ pend'[u].kind = call'[u].kind /\ pend'[u].sock = call'[u].sock
      BY <3>1, <1>1, <2>4 DEF InvKernel
    <3>2. c # None
      BY <1>3, NoneAssumption
    <3>. QED
      BY <3>1, <3>2, <1>6, <1>7, <2>4 DEF Of
  <2>. QED
    BY <2>1, <2>2, <2>3, <2>5, <2>6 DEF InvKernel
<1>10. CallsKept
  BY <1>0 DEF CallsKept, Of
<1>11. ring' = ring \/ Sends(e)
  <2>1. Truthful(e)'
    BY <1>0, <1>6, <1>7 DEF Truthful, Of
  <2>. QED
    BY <1>0, <1>3, <1>7, <2>1, EmitSends
<1>. QED
  BY <1>0, <1>3, <1>8, <1>9, <1>10, <1>11, KernelFrame

\* The socket probe: the call and its entry learn the socket together.
LEMMA SocketIoInv ==
    ASSUME IInv, NEW t \in Threads, NEW s \in Sockets, SocketIo(t, s)
    PROVE  IInv'
<1>a. PICK old, new : old = call[t] /\ new = [call[t] EXCEPT !.sock = s]
  OBVIOUS
<1>b. PICK e : e = [type |-> "io", tid |-> t, start |-> clock[t], ts |-> clock[t],
                    kind |-> call[t].kind, sock |-> s]
  OBVIOUS
<1>1. InvTypes /\ InvKernel
  BY DEF IInv
<1>0. /\ call[t] # None /\ call' = [call EXCEPT ![t] = new] /\ call'[t] = new
      /\ calls' = (calls \ {old}) \cup {new}
      /\ pend' = IF pend[t] = None THEN pend ELSE [pend EXCEPT ![t].sock = s]
      /\ clock' = [clock EXCEPT ![t] = @ + 1] /\ Emit(e) /\ UNCHANGED export
  BY <1>1, <1>a, <1>b DEF SocketIo, InvTypes
<1>2. clock[t] \in Nat /\ clock[t] >= 1 /\ clock' \in [Threads -> Time]
        /\ \A u \in Threads : clock'[u] = IF u = t THEN clock[t] + 1 ELSE clock[u]
  BY <1>0, <1>1 DEF InvTypes, InvKernel, Time
<1>3. old \in Calls /\ old \in calls /\ old.tid = t /\ ~old.over
  BY <1>0, <1>1, <1>a DEF InvTypes, InvKernel
<1>4. new \in Calls /\ new.tid = t /\ new.start = old.start /\ new.kind = old.kind
        /\ new.sock = s /\ ~new.over /\ old.start \in Nat
  BY <1>3, <1>a DEF Calls, MaybeSocket, Time
<1>5. e \in Records /\ e.type = "io"
  BY <1>2, <1>3, <1>a, <1>b DEF Calls, Records, MaybeSocket, Time, Types
<1>6. \A d \in calls : d \in Calls /\ d.tid \in Threads /\ d.start \in Nat
  BY <1>1 DEF InvTypes, Calls, Time
<1>7. pend[t] # None => /\ pend[t] \in Records /\ pend'[t] = [pend[t] EXCEPT !.sock = s]
                        /\ pend'[t] \in Records /\ Of(pend'[t], pend[t])
                        /\ pend'[t].kind = pend[t].kind /\ pend'[t].sock = s
  <2>. SUFFICES ASSUME pend[t] # None
                PROVE  /\ pend[t] \in Records /\ pend'[t] = [pend[t] EXCEPT !.sock = s]
                       /\ pend'[t] \in Records /\ Of(pend'[t], pend[t])
                       /\ pend'[t].kind = pend[t].kind /\ pend'[t].sock = s
    OBVIOUS
  <2>1. pend[t] \in Records /\ pend'[t] = [pend[t] EXCEPT !.sock = s]
    BY <1>0, <1>1 DEF InvTypes
  <2>. QED
    BY <2>1 DEF Records, Of, MaybeSocket
<1>8. \A u \in Threads : /\ call'[u] = IF u = t THEN new ELSE call[u]
                         /\ u # t \/ pend[t] = None => pend'[u] = pend[u]
  BY <1>0, <1>1 DEF InvTypes
<1>9. InvTypes'
  <2>1. ring' \in [CPU -> Seq(Records)] /\ faults' \in 0..MaxFaults
    BY <1>0, <1>1, <1>5, EmitTypes
  <2>2. call' \in [Threads -> Calls \cup {None}] /\ calls' \subseteq Calls
    BY <1>0, <1>1, <1>4 DEF InvTypes
  <2>3. pend' \in [Threads -> Records \cup {None}]
    BY <1>0, <1>1, <1>7, <1>8 DEF InvTypes
  <2>. QED
    BY <1>0, <1>1, <1>2, <2>1, <2>2, <2>3 DEF InvTypes, export
<1>10. InvKernel'
  <2>1. \A u \in Threads : clock'[u] >= 1
    BY <1>1, <1>2 DEF InvKernel
  <2>2. ASSUME NEW d \in calls PROVE 1 <= d.start /\ d.start < clock'[d.tid]
    <3>1. d.tid \in Threads /\ d.start \in Nat /\ 1 <= d.start /\ d.start < clock[d.tid]
      BY <1>1, <1>6 DEF InvKernel
    <3>. QED
      BY <1>2, <3>1
  <2>3. \A d \in calls' : 1 <= d.start /\ d.start < clock'[d.tid]
    BY <1>0, <1>3, <1>4, <2>2
  <2>4. \A x, y \in calls' : Of(x, y) => x = y
    BY <1>0, <1>1, <1>3, <1>4 DEF InvKernel, Of
  <2>5. \A u \in Threads :
          call'[u] # None => call'[u] \in calls' /\ call'[u].tid = u /\ ~call'[u].over
    BY <1>0, <1>1, <1>3, <1>4, <1>8 DEF InvKernel
  <2>6. ASSUME NEW u \in Threads, pend'[u] # None
        PROVE  /\ call'[u] # None /\ Of(pend'[u], call'[u])
               /\ pend'[u].kind = call'[u].kind /\ pend'[u].sock = call'[u].sock
    <3>1. CASE u # t
      BY <2>6, <3>1, <1>1, <1>8 DEF InvKernel
    <3>2. CASE u = t
      <4>1. pend[t] # None /\ new # None
        BY <2>6, <3>2, <1>4, <1>8, NoneAssumption
      <4>2. Of(pend[t], old) /\ pend[t].kind = old.kind
        BY <1>1, <1>a, <4>1 DEF InvKernel
      <4>3. call'[t] = new
        BY <1>8
      <4>4. Of(pend'[t], pend[t]) /\ pend'[t].kind = pend[t].kind /\ pend'[t].sock = s
        BY <1>7, <4>1
      <4>5. Of(pend'[t], new)
        BY <1>3, <1>4, <4>2, <4>4 DEF Of
      <4>. QED
        BY <3>2, <4>1, <4>2, <4>3, <4>4, <4>5, <1>4
    <3>. QED
      BY <3>1, <3>2
  <2>. QED
    BY <2>1, <2>3, <2>4, <2>5, <2>6 DEF InvKernel
<1>11. CallsKept
  BY <1>0, <1>3, <1>4 DEF CallsKept, Of
<1>12. ring' = ring \/ Sends(e)
  <2>1. Truthful(e)'
    BY <1>5 DEF Truthful
  <2>. QED
    BY <1>0, <1>5, <2>1, EmitSends
<1>. QED
  BY <1>0, <1>5, <1>9, <1>10, <1>11, <1>12, KernelFrame

\* sys_exit: the only end record of the call, with the socket of the call.
LEMMA ExitInv ==
    ASSUME IInv, NEW t \in Threads, NetworkSysExit(t)
    PROVE  IInv'
<1>a. PICK old, new : old = call[t] /\ new = [call[t] EXCEPT !.over = TRUE]
  OBVIOUS
<1>b. PICK e : e = [pend[t] EXCEPT !.type = "end", !.ts = clock[t]]
  OBVIOUS
<1>0. /\ call[t] # None /\ call' = [call EXCEPT ![t] = None]
      /\ calls' = (calls \ {old}) \cup {new}
      /\ pend' = [pend EXCEPT ![t] = None]
      /\ \/ pend[t] = None /\ UNCHANGED <<ring, faults>>
         \/ pend[t] # None /\ Emit(e)
      /\ clock' = [clock EXCEPT ![t] = @ + 1] /\ UNCHANGED export
  BY <1>a, <1>b DEF NetworkSysExit
<1>1. InvTypes /\ InvKernel
  BY DEF IInv
<1>2. clock[t] \in Nat /\ clock[t] >= 1 /\ clock' \in [Threads -> Time]
        /\ \A u \in Threads : clock'[u] = IF u = t THEN clock[t] + 1 ELSE clock[u]
  BY <1>0, <1>1 DEF InvTypes, InvKernel, Time
<1>3. old \in Calls /\ old \in calls /\ old.tid = t /\ ~old.over
  BY <1>0, <1>1, <1>a DEF InvTypes, InvKernel
<1>4. new \in Calls /\ new.tid = t /\ new.start = old.start /\ new.kind = old.kind
        /\ new.sock = old.sock /\ new.over /\ old.start \in Nat
  BY <1>3, <1>a DEF Calls, MaybeSocket, Time
<1>5. pend[t] # None => /\ e \in Records /\ e.type = "end" /\ e.ts = clock[t]
                        /\ e.tid = t /\ e.start = old.start
                        /\ e.kind = old.kind /\ e.sock = old.sock
  <2>. SUFFICES ASSUME pend[t] # None
                PROVE  /\ e \in Records /\ e.type = "end" /\ e.ts = clock[t]
                       /\ e.tid = t /\ e.start = old.start
                       /\ e.kind = old.kind /\ e.sock = old.sock
    OBVIOUS
  <2>1. pend[t] \in Records /\ Of(pend[t], old) /\ pend[t].kind = old.kind
          /\ pend[t].sock = old.sock
    BY <1>1, <1>a DEF InvTypes, InvKernel
  <2>. QED
    BY <1>2, <1>3, <1>b, <2>1 DEF Records, Of, Types, Time
<1>6. \A d \in calls : d \in Calls /\ d.tid \in Threads /\ d.start \in Nat
  BY <1>1 DEF InvTypes, Calls, Time
<1>7. \A u \in Threads : /\ call'[u] = IF u = t THEN None ELSE call[u]
                         /\ pend'[u] = IF u = t THEN None ELSE pend[u]
  BY <1>0, <1>1 DEF InvTypes
<1>8. InvTypes'
  <2>1. ring' \in [CPU -> Seq(Records)] /\ faults' \in 0..MaxFaults
    <3>1. CASE UNCHANGED <<ring, faults>>
      BY <1>1, <3>1 DEF InvTypes
    <3>2. CASE pend[t] # None /\ Emit(e)
      BY <1>1, <1>5, <3>2, EmitTypes
    <3>. QED
      BY <1>0, <3>1, <3>2
  <2>2. call' \in [Threads -> Calls \cup {None}] /\ calls' \subseteq Calls
          /\ pend' \in [Threads -> Records \cup {None}]
    BY <1>0, <1>1, <1>4 DEF InvTypes
  <2>. QED
    BY <1>0, <1>1, <1>2, <2>1, <2>2 DEF InvTypes, export
<1>9. InvKernel'
  <2>1. \A u \in Threads : clock'[u] >= 1
    BY <1>1, <1>2 DEF InvKernel
  <2>2. ASSUME NEW d \in calls PROVE 1 <= d.start /\ d.start < clock'[d.tid]
    <3>1. d.tid \in Threads /\ d.start \in Nat /\ 1 <= d.start /\ d.start < clock[d.tid]
      BY <1>1, <1>6 DEF InvKernel
    <3>. QED
      BY <1>2, <3>1
  <2>3. \A d \in calls' : 1 <= d.start /\ d.start < clock'[d.tid]
    BY <1>0, <1>3, <1>4, <2>2
  <2>4. \A x, y \in calls' : Of(x, y) => x = y
    BY <1>0, <1>1, <1>3, <1>4 DEF InvKernel, Of
  <2>5. ASSUME NEW u \in Threads, call'[u] # None
        PROVE  call'[u] \in calls' /\ call'[u].tid = u /\ ~call'[u].over
    <3>1. u # t /\ call'[u] = call[u] /\ call[u] \in calls /\ call[u].tid = u /\ ~call[u].over
      BY <2>5, <1>1, <1>7 DEF InvKernel
    <3>. QED
      BY <3>1, <1>0, <1>3
  <2>6. \A u \in Threads :
          pend'[u] # None =>
             /\ call'[u] # None /\ Of(pend'[u], call'[u])
             /\ pend'[u].kind = call'[u].kind /\ pend'[u].sock = call'[u].sock
    BY <1>1, <1>7 DEF InvKernel
  <2>. QED
    BY <2>1, <2>3, <2>4, <2>5, <2>6 DEF InvKernel
<1>10. CallsKept
  BY <1>0, <1>3, <1>4 DEF CallsKept, Of
<1>11. CASE pend[t] = None
  BY <1>0, <1>8, <1>9, <1>10, <1>11, KernelFrame
<1>12. CASE pend[t] # None
  <2>1. e.start <= e.ts
    BY <1>1, <1>2, <1>3, <1>4, <1>5, <1>12 DEF InvKernel
  <2>2. Truthful(e)'
    BY <1>0, <1>4, <1>5, <1>12, <2>1 DEF Truthful, Of
  <2>3. ASSUME NEW r \in Flight \cup handled, r.type = "end", Of(r, e) PROVE FALSE
    <3>1. PICK d \in calls : Of(r, d) /\ d.over
      BY <2>3 DEF IInv, InvRecords, Truthful
    <3>2. Of(d, old)
      BY <1>3, <1>5, <1>12, <2>3, <3>1 DEF Of
    <3>3. d = old
      BY <1>1, <1>3, <3>2 DEF InvKernel
    <3>. QED
      BY <1>3, <3>1, <3>3
  <2>4. ring' = ring \/ Sends(e)
    BY <1>0, <1>5, <1>12, <2>2, <2>3, EmitSends
  <2>. QED
    BY <1>0, <1>5, <1>8, <1>9, <1>10, <1>12, <2>4, KernelFrame
<1>. QED
  BY <1>11, <1>12

\* An evicted entry only means that the call sends no end record.
LEMMA EvictInv ==
    ASSUME IInv, NEW t \in Threads, EvictEntry(t)
    PROVE  IInv'
<1>0. pend' = [pend EXCEPT ![t] = None] /\ Fault
        /\ UNCHANGED <<clock, call, ring, calls, export>>
  BY DEF EvictEntry
<1>1. InvTypes /\ InvKernel
  BY DEF IInv
<1>2. \A u \in Threads : pend'[u] = IF u = t THEN None ELSE pend[u]
  BY <1>0, <1>1 DEF InvTypes
<1>3. InvTypes'
  BY <1>0, <1>1, PairingAssumption DEF InvTypes, Fault, export
<1>4. InvKernel'
  BY <1>0, <1>1, <1>2 DEF InvKernel
<1>5. CallsKept
  BY <1>0 DEF CallsKept, Of
<1>. QED
  BY <1>0, <1>3, <1>4, <1>5, KernelFrame

---------------------------------------------------------------------------
(* The exporter *)

\* The slice of record e.
SliceOf(e, inc) == [tid |-> e.tid, start |-> e.start, ts |-> e.ts, kind |-> e.kind,
                    sock |-> e.sock, incomplete |-> inc]

\* A record becomes one more slice of its thread, or none.
LEMMA SlicesShape ==
    ASSUME NEW e \in Records, NEW inc \in BOOLEAN, NEW s \in Seq(Slices)
    PROVE  /\ SliceOf(e, inc) \in Slices
           /\ s \o SlicesOf(e, inc) =
                IF e.start <= e.ts /\ Shown(e) THEN Append(s, SliceOf(e, inc)) ELSE s
<1>1. SliceOf(e, inc) \in Slices /\ e.start \in Nat /\ e.ts \in Nat
  BY DEF Records, Slices, SliceOf, Time
<1>2. s \o <<SliceOf(e, inc)>> = Append(s, SliceOf(e, inc)) /\ s \o <<>> = s
  BY <1>1, ConcatOne
<1>3. SlicesOf(e, inc) = IF e.start <= e.ts /\ Shown(e) THEN <<SliceOf(e, inc)>> ELSE <<>>
  BY <1>1 DEF SlicesOf, SliceOf, Shown
<1>. QED
  BY <1>1, <1>2, <1>3

\* Records that are no end of a call of thread t leave its slices explained.
LEMMA SlicesStay ==
    ASSUME NEW t, NEW s, NEW H, NEW G, ThreadSlices(t, s, H), H \subseteq G,
           \A h \in G : h.type = "end" /\ Shown(h) /\ h.tid = t => h \in H
    PROVE  ThreadSlices(t, s, G)
<1>1. \A x : HasOrigin(x, H) => HasOrigin(x, G)
  BY DEF HasOrigin
<1>. QED
  BY <1>1 DEF ThreadSlices

\* x is the first complete slice of its call, or an incomplete one of a call
\* without an end: H and G are the records handled before and after.
Fits(x, H, G) ==
    /\ H \subseteq G
    /\ ~x.incomplete => HasOrigin(x, G)
    /\ \A h \in H : h.type = "end" => ~Of(h, x)
    /\ \A h \in G : h.type = "end" /\ Shown(h) /\ h.tid = x.tid =>
          h \in H \/ (Of(h, x) /\ ~x.incomplete)

\* A slice of a call that has no complete slice yet keeps the slices of its
\* thread in order and their origins known.
LEMMA SliceAdded ==
    ASSUME NEW H, NEW G, NEW t \in Threads, NEW s \in Seq(Slices), NEW x \in Slices,
           ThreadSlices(t, s, H), x.tid = t, Fits(x, H, G)
    PROVE  ThreadSlices(t, Append(s, x), G)
<1>. DEFINE n == Len(s)
            a == Append(s, x)
<1>1. /\ Len(a) = n + 1 /\ n \in Nat
      /\ \A i \in 1..n + 1 : a[i] = IF i <= n THEN s[i] ELSE x
  BY AppendOne
<1>. HIDE DEF n, a
<1>2. /\ \A i \in 1..Len(a) : (i \in 1..n /\ a[i] = s[i]) \/ (i = n + 1 /\ a[i] = x)
      /\ \A i \in 1..n : i \in 1..Len(a) /\ a[i] = s[i] /\ i < n + 1
      /\ n + 1 \in 1..Len(a) /\ a[n + 1] = x
  BY <1>1
<1>3. ASSUME NEW i \in 1..n, s[i].start = x.start
      PROVE  s[i].incomplete
  <2>. SUFFICES ASSUME ~s[i].incomplete PROVE FALSE
    OBVIOUS
  <2>1. PICK h \in H : h.type = "end" /\ Of(s[i], h) /\ s[i].tid = t
    BY DEF ThreadSlices, HasOrigin, n
  <2>. QED
    BY <1>3, <2>1 DEF Of, Fits
<1>4. ASSUME NEW i \in 1..Len(a)
      PROVE  a[i].tid = t /\ (~a[i].incomplete => HasOrigin(a[i], G))
  <2>1. CASE i \in 1..n /\ a[i] = s[i]
    <3>1. s[i].tid = t /\ (~s[i].incomplete => HasOrigin(s[i], H))
      BY <2>1 DEF ThreadSlices, n
    <3>. QED
      BY <2>1, <3>1 DEF HasOrigin, Fits
  <2>2. CASE a[i] = x
    BY <2>2 DEF Fits
  <2>. QED
    BY <1>2, <2>1, <2>2
<1>5. ASSUME NEW h \in G, h.type = "end", Shown(h), h.tid = t
      PROVE  \E i \in 1..Len(a) : a[i].start = h.start /\ ~a[i].incomplete
  <2>1. CASE h \in H
    <3>1. PICK i \in 1..n : s[i].start = h.start /\ ~s[i].incomplete
      BY <1>5, <2>1 DEF ThreadSlices, n
    <3>. QED
      BY <1>2, <3>1
  <2>2. CASE Of(h, x) /\ ~x.incomplete
    BY <1>2, <2>2 DEF Of
  <2>. QED
    BY <1>5, <2>1, <2>2 DEF Fits
<1>6. ASSUME NEW i \in 1..Len(a), NEW j \in 1..Len(a),
             a[i].start = a[j].start, ~a[i].incomplete
      PROVE  IF a[j].incomplete THEN j < i ELSE i = j
  <2>1. CASE i \in 1..n /\ a[i] = s[i] /\ j \in 1..n /\ a[j] = s[j]
    BY <1>6, <2>1 DEF ThreadSlices, n
  <2>2. CASE i = n + 1 /\ a[i] = x /\ j \in 1..n /\ a[j] = s[j]
    BY <1>2, <1>3, <1>6, <2>2
  <2>3. CASE i \in 1..n /\ a[i] = s[i] /\ j = n + 1 /\ a[j] = x
    BY <1>3, <1>6, <2>3
  <2>4. CASE i = n + 1 /\ j = n + 1
    BY <1>6, <2>4
  <2>. QED
    BY <1>2, <2>1, <2>2, <2>3, <2>4
<1>. QED
  BY <1>4, <1>5, <1>6 DEF ThreadSlices, a

\* Slices are only added.
Grown(E, F) == \A c : c.tid \in Threads /\ Seen(E, c) => Seen(F, c)

\* A thread's slices with the slice of record e, or without.
LEMMA OneMore ==
    ASSUME NEW e \in Records, NEW inc \in BOOLEAN, NEW s \in Seq(Slices)
    PROVE  LET a == s \o SlicesOf(e, inc)
           IN  /\ a \in Seq(Slices)
               /\ \A c : (\E i \in 1..Len(s) : s[i].start = c) =>
                         (\E i \in 1..Len(a) : a[i].start = c)
               /\ e.start <= e.ts /\ Shown(e) => \E i \in 1..Len(a) : a[i].start = e.start
<1>1. CASE e.start <= e.ts /\ Shown(e)
  <2>. DEFINE n == Len(s)
              x == SliceOf(e, inc)
              a == Append(s, x)
  <2>1. x \in Slices /\ s \o SlicesOf(e, inc) = a /\ x.start = e.start
    BY <1>1, SlicesShape DEF SliceOf
  <2>. HIDE DEF x
  <2>2. /\ a \in Seq(Slices) /\ Len(a) = n + 1 /\ n \in Nat
        /\ \A i \in 1..n + 1 : a[i] = IF i <= n THEN s[i] ELSE x
    BY <2>1, AppendOne
  <2>. HIDE DEF a, n
  <2>3. /\ \A i \in 1..n : i \in 1..Len(a) /\ a[i] = s[i]
        /\ n + 1 \in 1..Len(a) /\ a[n + 1] = x
    BY <2>2
  <2>. QED
    BY <2>1, <2>2, <2>3 DEF n
<1>2. CASE ~(e.start <= e.ts /\ Shown(e))
  <2>1. s \o SlicesOf(e, inc) = s
    BY <1>2, SlicesShape
  <2>. QED
    BY <1>2, <2>1
<1>. QED
  BY <1>1, <1>2

\* Writing a record of a call with no end so far: an end record, or the begin
\* record of a call that is given up as incomplete.
LEMMA WrittenInv ==
    ASSUME IInv, NEW e \in Records, NEW inc \in BOOLEAN,
           \A h \in handled : h.type = "end" => ~Of(h, e),
           exported' = Written(e, inc),
           NEW r \in Records, handled' = handled \cup {r},
           IF inc THEN r.type # "end" ELSE r = e /\ e.type = "end" /\ e.start <= e.ts
    PROVE  /\ exported' \in [Threads -> Seq(Slices)] /\ InvSlices'
           /\ e.start <= e.ts /\ Shown(e) => Seen(exported', e)
           /\ Grown(exported, exported')
<1>a. PICK s, H, G : s = exported[e.tid] /\ H = handled /\ G = handled'
  OBVIOUS
<1>b. PICK a : a = s \o SlicesOf(e, inc)
  OBVIOUS
<1>1. e.tid \in Threads /\ e.start \in Nat /\ e.ts \in Nat /\ s \in Seq(Slices)
        /\ exported \in [Threads -> Seq(Slices)] /\ ThreadSlices(e.tid, s, H)
  BY <1>a DEF IInv, InvTypes, InvSlices, Records, Time
<1>2. exported' = [exported EXCEPT ![e.tid] = a] /\ exported'[e.tid] = a
        /\ \A u \in Threads \ {e.tid} : exported'[u] = exported[u]
  BY <1>a, <1>b, <1>1 DEF Written
<1>3. /\ a \in Seq(Slices)
      /\ \A c : (\E i \in 1..Len(s) : s[i].start = c) => (\E i \in 1..Len(a) : a[i].start = c)
      /\ e.start <= e.ts /\ Shown(e) => \E i \in 1..Len(a) : a[i].start = e.start
  BY <1>b, <1>1, OneMore
<1>4. exported' \in [Threads -> Seq(Slices)]
  BY <1>1, <1>2, <1>3
<1>5. Grown(exported, exported')
  <2>. SUFFICES ASSUME NEW c, c.tid \in Threads, Seen(exported, c)
                PROVE  Seen(exported', c)
    BY DEF Grown
  <2>1. CASE c.tid = e.tid
    <3>1. \E i \in 1..Len(s) : s[i].start = c.start
      BY <1>a, <2>1 DEF Seen
    <3>2. \E i \in 1..Len(a) : a[i].start = c.start
      BY <1>3, <3>1
    <3>. QED
      BY <1>2, <2>1, <3>2 DEF Seen
  <2>2. CASE c.tid # e.tid
    <3>1. exported'[c.tid] = exported[c.tid]
      BY <1>2, <2>2
    <3>. QED
      BY <3>1 DEF Seen
  <2>. QED
    BY <2>1, <2>2
<1>6. e.start <= e.ts /\ Shown(e) => Seen(exported', e)
  BY <1>2, <1>3 DEF Seen
<1>7. ThreadSlices(e.tid, a, G)
  <2>1. CASE e.start <= e.ts /\ Shown(e)
    <3>. DEFINE x == SliceOf(e, inc)
    <3>1. x \in Slices /\ a = Append(s, x)
      BY <1>b, <1>1, <2>1, SlicesShape
    <3>2. x.tid = e.tid /\ x.start = e.start /\ x.sock = e.sock /\ x.incomplete = inc
      BY DEF SliceOf
    <3>. HIDE DEF x
    <3>3. Fits(x, H, G)
      <4>1. ~x.incomplete => HasOrigin(x, G)
        BY <1>a, <2>1, <3>2 DEF HasOrigin, Of
      <4>2. \A h \in H : h.type = "end" => ~Of(h, x)
        BY <1>a, <3>2 DEF Of
      <4>. QED
        BY <1>a, <3>2, <4>1, <4>2 DEF Fits, Of
    <3>. QED
      BY <1>1, <3>1, <3>2, <3>3, SliceAdded
  <2>2. CASE ~(e.start <= e.ts /\ Shown(e))
    <3>1. a = s
      BY <1>b, <1>1, <2>2, SlicesShape
    <3>2. H \subseteq G /\ \A h \in G : h.type = "end" /\ Shown(h) /\ h.tid = e.tid => h \in H
      BY <1>a, <2>2
    <3>. QED
      BY <1>1, <3>1, <3>2, SlicesStay
  <2>. QED
    BY <2>1, <2>2
<1>8. ASSUME NEW u \in Threads, u # e.tid PROVE ThreadSlices(u, exported[u], G)
  <2>1. ThreadSlices(u, exported[u], H)
    BY <1>a DEF IInv, InvSlices
  <2>2. H \subseteq G /\ \A h \in G : h.type = "end" /\ Shown(h) /\ h.tid = u => h \in H
    BY <1>a, <1>8
  <2>. QED
    BY <2>1, <2>2, SlicesStay
<1>9. InvSlices'
  BY <1>a, <1>2, <1>7, <1>8 DEF InvSlices
<1>. QED
  BY <1>4, <1>5, <1>6, <1>9

\* The exporter is given record e: a true one, and the first end of its call.
Given(e) ==
    /\ e \in Records /\ Truthful(e)
    /\ e.type = "end" => \A h \in handled : h.type = "end" => ~Of(h, e)
    /\ ~closed /\ handled' = handled \cup {e} /\ UNCHANGED <<calls, closed>>

\* What a step of the exporter has to keep.
ExporterInv ==
    /\ table \in [Threads -> Entries \cup {None}]
    /\ exported \in [Threads -> Seq(Slices)]
    /\ InvTable /\ InvSlices /\ InvEntries /\ InvTimely

\* Reading a record moves it from its ring to those handled.
LEMMA TakeRecord ==
    ASSUME IInv, NEW c \in CPU, ExportEvent(c), NEW e, e = Head(ring[c])
    PROVE  /\ Given(e)
           /\ ring' \in [CPU -> Seq(Records)]
           /\ InvKernel' /\ InvRecords' /\ InvOneEnd'
<1>0. /\ ~closed /\ ring[c] # <<>> /\ handled' = handled \cup {e}
      /\ ring' = [ring EXCEPT ![c] = Tail(@)]
      /\ UNCHANGED <<clock, call, pend, faults, calls, closed>>
  BY DEF ExportEvent
<1>1. InvTypes /\ ring[c] \in Seq(Records) /\ ring \in [CPU -> Seq(Records)]
  BY DEF IInv, InvTypes
<1>2. /\ Len(ring[c]) \in Nat \ {0} /\ e = ring[c][1] /\ e \in Records
      /\ Tail(ring[c]) \in Seq(Records) /\ Len(Tail(ring[c])) = Len(ring[c]) - 1
      /\ \A i \in 1..Len(ring[c]) - 1 : Tail(ring[c])[i] = ring[c][i + 1]
  BY <1>0, <1>1, TakeOne
<1>3. /\ ring' \in [CPU -> Seq(Records)] /\ ring'[c] = Tail(ring[c])
      /\ \A d \in CPU \ {c} : ring'[d] = ring[d]
  BY <1>0, <1>1, <1>2
<1>. DEFINE Was(d, i) == IF d = c THEN i + 1 ELSE i
<1>4. ASSUME NEW d \in CPU, NEW i \in 1..Len(ring'[d])
      PROVE  /\ Was(d, i) \in 1..Len(ring[d]) /\ ring'[d][i] = ring[d][Was(d, i)]
             /\ d = c => Was(d, i) # 1
  <2>1. CASE d = c
    <3>1. i \in 1..Len(ring[c]) - 1 /\ ring'[d][i] = ring[c][i + 1]
      BY <1>2, <1>3, <2>1
    <3>2. Was(d, i) = i + 1 /\ i + 1 \in 1..Len(ring[c]) /\ i + 1 # 1
      BY <1>2, <2>1, <3>1
    <3>. QED
      BY <2>1, <3>1, <3>2
  <2>2. CASE d # c
    BY <1>3, <2>2
  <2>. QED
    BY <2>1, <2>2
<1>5. ASSUME NEW d \in CPU, NEW i \in Nat, NEW j \in Nat, Was(d, i) = Was(d, j)
      PROVE  i = j
  BY <1>5
<1>. HIDE DEF Was
<1>6. ASSUME NEW r \in Flight'
      PROVE  \E d \in CPU : \E i \in 1..Len(ring[d]) : r = ring[d][i] /\ ~(d = c /\ i = 1)
  <2>1. \A d \in CPU : DOMAIN ring'[d] = 1..Len(ring'[d])
    BY <1>3
  <2>2. PICK d \in CPU : r \in Range(ring'[d])
    BY DEF Flight
  <2>3. PICK i \in 1..Len(ring'[d]) : r = ring'[d][i]
    BY <2>1, <2>2 DEF Range
  <2>. QED
    BY <1>4, <2>3
<1>7. \A r \in Flight' : r \in Flight
  BY <1>1, <1>6, FlightPlaces
<1>8. e \in Flight /\ Truthful(e)
  <2>1. e \in Flight
    BY <1>1, <1>2, FlightPlaces
  <2>. QED
    BY <2>1 DEF IInv, InvRecords
<1>9. Given(e)
  BY <1>0, <1>2, <1>8 DEF Given, IInv, InvOneEnd, Of
<1>10. InvKernel'
  BY <1>0 DEF IInv, InvKernel
<1>11. InvRecords'
  <2>1. CallsKept
    BY <1>0 DEF CallsKept, Of
  <2>. QED
    BY <1>0, <1>7, <1>8, <2>1, TruthKept DEF IInv, InvRecords
<1>12. InvOneEnd'
  <2>1. ASSUME NEW a \in CPU, NEW b \in CPU,
               NEW i \in 1..Len(ring'[a]), NEW j \in 1..Len(ring'[b]),
               ring'[a][i].type = "end", ring'[b][j].type = "end",
               Of(ring'[a][i], ring'[b][j])
        PROVE  a = b /\ i = j
    <3>1. PICK k, l : k = Was(a, i) /\ l = Was(b, j)
      OBVIOUS
    <3>2. /\ k \in 1..Len(ring[a]) /\ ring'[a][i] = ring[a][k]
          /\ l \in 1..Len(ring[b]) /\ ring'[b][j] = ring[b][l]
      BY <1>4, <3>1
    <3>3. a = b /\ k = l
      BY <2>1, <3>2 DEF IInv, InvOneEnd
    <3>4. i \in Nat /\ j \in Nat
      BY <1>3
    <3>. QED
      BY <1>5, <3>1, <3>3, <3>4
  <2>2. ASSUME NEW r \in Flight', NEW h \in handled', r.type = "end", h.type = "end"
        PROVE  ~Of(r, h)
    <3>1. CASE h \in handled
      BY <1>7, <2>2, <3>1 DEF IInv, InvOneEnd
    <3>2. CASE h = e
      <4>1. PICK d \in CPU : \E i \in 1..Len(ring[d]) : r = ring[d][i] /\ ~(d = c /\ i = 1)
        BY <1>6
      <4>2. PICK i \in 1..Len(ring[d]) : r = ring[d][i] /\ ~(d = c /\ i = 1)
        BY <4>1
      <4>3. 1 \in 1..Len(ring[c])
        BY <1>2
      <4>. QED
        BY <1>2, <2>2, <3>2, <4>2, <4>3 DEF IInv, InvOneEnd
    <3>. QED
      BY <1>0, <3>1, <3>2
  <2>3. ASSUME NEW g \in handled', NEW h \in handled', g.type = "end", h.type = "end", Of(g, h)
        PROVE  g = h
    <3>1. CASE g \in handled /\ h \in handled
      BY <2>3, <3>1 DEF IInv, InvOneEnd
    <3>. QED
      BY <1>0, <1>9, <2>3, <3>1 DEF Given, Of
  <2>. QED
    BY <2>1, <2>2, <2>3 DEF InvOneEnd
<1>. QED
  BY <1>3, <1>9, <1>10, <1>11, <1>12

\* The exporter stores entry q for the thread of record e.
Stores(e, q) ==
    /\ ~Full(e) /\ q \in Entries /\ table' = [table EXCEPT ![e.tid] = q]
    /\ q.event.tid = e.tid
    /\ q.completed = Entry(e).completed \/ q.completed = e.start
    /\ Entry(e).completed <= q.completed
    /\ e.type = "end" => e.start <= q.completed
    /\ q.active => /\ q.event.type = "begin" /\ Truthful(q.event)
                   /\ \E h \in handled' : Of(h, q.event)
                   /\ \A h \in handled' : h.type = "end" => ~Of(h, q.event)

\* The entry a record is paired with: the one of its thread, or a fresh one.
LEMMA EntryFacts ==
    ASSUME IInv, NEW e \in Records
    PROVE  /\ e.tid \in Threads /\ e.start \in Nat /\ e.ts \in Nat
           /\ Entry(e) \in Entries /\ Entry(e).completed \in Nat
           /\ Entry(e).event \in Records /\ Entry(e).event.start \in Nat
           /\ Entry(e).event.tid = e.tid
           /\ table[e.tid] # None => Entry(e) = table[e.tid] /\ EntryTrue(e.tid)
           /\ table[e.tid] = None => Entry(e).completed = 0 /\ ~Entry(e).active
<1>1. e.tid \in Threads /\ e.start \in Nat /\ e.ts \in Nat
  BY DEF Records, Time
<1>2. CASE table[e.tid] = None
  <2>1. Entry(e) = [event |-> e, active |-> FALSE, completed |-> 0]
    BY <1>2 DEF Entry
  <2>. QED
    BY <1>1, <1>2, <2>1 DEF Entries, Time
<1>3. CASE table[e.tid] # None
  <2>1. Entry(e) = table[e.tid] /\ table[e.tid] \in Entries
    BY <1>1, <1>3 DEF Entry, IInv, InvTypes
  <2>2. EntryTrue(e.tid)
    BY <1>1, <1>3 DEF IInv, InvEntries
  <2>. QED
    BY <1>1, <1>3, <2>1, <2>2 DEF Entries, Records, Time, EntryTrue
<1>. QED
  BY <1>2, <1>3

\* A stored entry is true, the other threads' entries stay true.
LEMMA EntryStored ==
    ASSUME IInv, NEW e, Given(e), NEW q, Stores(e, q)
    PROVE  table' \in [Threads -> Entries \cup {None}] /\ InvTable' /\ InvEntries'
<1>0. /\ e \in Records /\ e.tid \in Threads /\ e.start \in Nat /\ Entry(e).completed \in Nat
      /\ q \in Entries /\ q # None /\ q.completed \in Nat
      /\ table \in [Threads -> Entries \cup {None}]
      /\ table[e.tid] # None => Entry(e) = table[e.tid] /\ EntryTrue(e.tid)
      /\ table[e.tid] = None => Entry(e).completed = 0
  BY EntryFacts, NoneAssumption DEF Given, Stores, IInv, InvTypes, Entries, Time
<1>1. table' \in [Threads -> Entries \cup {None}]
        /\ \A u \in Threads : table'[u] = IF u = e.tid THEN q ELSE table[u]
  BY <1>0 DEF Stores
<1>2. InTable' = InTable \cup {e.tid}
  BY <1>0, <1>1 DEF InTable
<1>3. IsFiniteSet(InTable) /\ Cardinality(InTable) <= TableSize /\ Cardinality(InTable) \in Nat
  BY FS_CardinalityType DEF IInv, InvTable
<1>4. table[e.tid] # None => InTable' = InTable
  BY <1>0, <1>2 DEF InTable
<1>5. InvTable'
  <2>1. CASE table[e.tid] # None
    BY <1>3, <1>4, <2>1 DEF InvTable
  <2>2. CASE table[e.tid] = None
    <3>1. Cardinality(InTable) # TableSize /\ e.tid \notin InTable
      BY <2>2 DEF Stores, Full, InTable
    <3>2. IsFiniteSet(InTable') /\ Cardinality(InTable') = Cardinality(InTable) + 1
      BY <1>2, <1>3, <3>1, FS_AddElement
    <3>. QED
      BY <1>3, <3>1, <3>2, PairingAssumption DEF InvTable
  <2>. QED
    BY <2>1, <2>2
<1>6. CallsKept
  BY DEF CallsKept, Given, Of
<1>7. ASSUME NEW u \in Threads, table'[u] # None PROVE EntryTrue(u)'
  <2>1. CASE u = e.tid
    <3>1. q.completed = 0 \/ \E h \in handled' : h.tid = u /\ h.start = q.completed
      BY <1>0, <2>1 DEF Stores, Given, EntryTrue
    <3>2. q.active => Truthful(q.event)'
      BY <1>6, TruthKept DEF Stores
    <3>3. table'[u] = q
      BY <1>1, <2>1
    <3>. QED
      BY <2>1, <3>1, <3>2, <3>3 DEF Stores, EntryTrue
  <2>2. CASE u # e.tid
    <3>1. table'[u] = table[u] /\ EntryTrue(u)
      BY <1>1, <1>7, <2>2 DEF IInv, InvEntries
    <3>2. table[u].active => Truthful(table[u].event)'
      BY <1>6, <3>1, TruthKept DEF EntryTrue
    <3>. QED
      BY <2>2, <3>1, <3>2 DEF EntryTrue, Given, Of
  <2>. QED
    BY <2>1, <2>2
<1>8. ASSUME NEW h \in handled', h.type = "end" PROVE EndKnown(h)'
  <2>0. h \in Records /\ h.tid \in Threads /\ h.start \in Nat
    BY <1>0 DEF Given, IInv, InvTypes, Records, Time
  <2>1. h # e => EndKnown(h)
    BY <1>8 DEF Given, IInv, InvEntries
  <2>2. CASE h.tid = e.tid
    <3>1. h.start <= q.completed
      <4>1. CASE h = e
        BY <1>8, <4>1 DEF Stores
      <4>2. CASE h # e
        <5>1. table[e.tid] # None /\ h.start <= Entry(e).completed
          BY <1>0, <2>1, <2>2, <4>2 DEF EndKnown, Stores, Full
        <5>. QED
          BY <1>0, <2>0, <5>1 DEF Stores
      <4>. QED
        BY <4>1, <4>2
    <3>2. table'[h.tid] = q
      BY <1>1, <2>0, <2>2
    <3>. QED
      BY <1>0, <3>1, <3>2 DEF EndKnown
  <2>3. CASE h.tid # e.tid
    <3>1. table'[h.tid] = table[h.tid] /\ EndKnown(h)
      BY <1>1, <2>0, <2>1, <2>3
    <3>2. table[h.tid] = None => InTable' = InTable
      BY <1>4, <3>1 DEF EndKnown, Stores, Full
    <3>. QED
      BY <3>1, <3>2 DEF EndKnown
  <2>. QED
    BY <2>2, <2>3
<1>. QED
  BY <1>1, <1>5, <1>7, <1>8 DEF InvEntries

\* A record that stores nothing: it is no end, or there is no room for it.
LEMMA EntriesSame ==
    ASSUME IInv, NEW e, Given(e), table' = table, e.type = "end" => Full(e)
    PROVE  table' \in [Threads -> Entries \cup {None}] /\ InvTable' /\ InvEntries'
<1>1. table' \in [Threads -> Entries \cup {None}] /\ InvTable' /\ InTable' = InTable
  BY DEF IInv, InvTypes, InvTable, InTable
<1>2. CallsKept
  BY DEF CallsKept, Given, Of
<1>3. ASSUME NEW u \in Threads, table[u] # None PROVE EntryTrue(u)'
  <2>1. EntryTrue(u)
    BY <1>3 DEF IInv, InvEntries
  <2>2. table[u].active => Truthful(table[u].event)'
    BY <1>2, <2>1, TruthKept DEF EntryTrue
  <2>3. e.type = "end" => e.tid # u
    BY <1>3 DEF Full
  <2>. QED
    BY <2>1, <2>2, <2>3 DEF EntryTrue, Given, Of
<1>4. ASSUME NEW h \in handled', h.type = "end" PROVE EndKnown(h)'
  <2>1. EndKnown(h)
    BY <1>4 DEF Given, IInv, InvEntries, EndKnown, Full
  <2>. QED
    BY <1>1, <2>1 DEF EndKnown
<1>. QED
  BY <1>1, <1>3, <1>4 DEF InvEntries

\* A record that is no end and writes nothing leaves the slices explained.
LEMMA SlicesSame ==
    ASSUME IInv, NEW e, Given(e), exported' = exported, e.type # "end"
    PROVE  exported' \in [Threads -> Seq(Slices)] /\ InvSlices' /\ Grown(exported, exported')
<1>a. PICK H, G : H = handled /\ G = handled'
  OBVIOUS
<1>1. ASSUME NEW u \in Threads PROVE ThreadSlices(u, exported[u], G)
  <2>1. ThreadSlices(u, exported[u], H)
    BY <1>a DEF IInv, InvSlices
  <2>2. H \subseteq G /\ \A h \in G : h.type = "end" /\ Shown(h) /\ h.tid = u => h \in H
    BY <1>a DEF Given
  <2>. QED
    BY <2>1, <2>2, SlicesStay
<1>2. InvSlices'
  BY <1>a, <1>1 DEF InvSlices
<1>. QED
  BY <1>2 DEF IInv, InvTypes, Grown

\* Calls in time stay open until they have a slice.
LEMMA TimelyKept ==
    ASSUME IInv, NEW e, Given(e), Grown(exported, exported'),
           \A c \in calls : Open(c.tid, c.start) /\ ~RequireSocket(c.kind) =>
              Open(c.tid, c.start)' \/ Seen(exported', c),
           \/ timely' = timely
           \/ /\ timely' = timely \cup {[tid |-> e.tid, start |-> e.start]}
              /\ e.type = "begin" /\ Open(e.tid, e.start)'
    PROVE  InvTimely'
<1>1. ASSUME NEW m \in timely
      PROVE  /\ \E c \in calls : Of(m, c)
             /\ \A c \in calls : Of(m, c) /\ ~RequireSocket(c.kind) =>
                   Seen(exported', c) \/ Open(c.tid, c.start)'
  <2>1. \A c \in calls : c.tid \in Threads
    BY DEF IInv, InvTypes, Calls
  <2>. QED
    BY <2>1 DEF IInv, InvTimely, Given, Grown
<1>2. ASSUME NEW m, m = [tid |-> e.tid, start |-> e.start],
             e.type = "begin", Open(e.tid, e.start)'
      PROVE  /\ \E c \in calls : Of(m, c)
             /\ \A c \in calls : Of(m, c) /\ ~RequireSocket(c.kind) =>
                   Seen(exported', c) \/ Open(c.tid, c.start)'
  <2>1. m.tid = e.tid /\ m.start = e.start
    BY <1>2
  <2>2. \E c \in calls : Of(m, c)
    BY <1>2, <2>1 DEF Given, Truthful, Of
  <2>3. ASSUME NEW c \in calls, Of(m, c) PROVE Open(c.tid, c.start)'
    <3>1. c.tid = e.tid /\ c.start = e.start
      BY <2>1, <2>3 DEF Of
    <3>. QED
      BY <1>2, <3>1
  <2>. QED
    BY <2>2, <2>3
<1>. QED
  BY <1>1, <1>2 DEF InvTimely, Given

\* pending_io_start changes at most the socket of the open call.
LEMMA IoInv ==
    ASSUME IInv, NEW e, Given(e), e.type = "io", HandleIo(e), timely' = timely
    PROVE  ExporterInv'
<1>0. /\ e \in Records /\ e.tid \in Threads /\ exported' = exported /\ e.sock \in MaybeSocket
      /\ table \in [Threads -> Entries \cup {None}]
  BY DEF Given, HandleIo, Records, IInv, InvTypes
<1>1. exported' \in [Threads -> Seq(Slices)] /\ InvSlices' /\ Grown(exported, exported')
  BY <1>0, SlicesSame
<1>2. CASE table' = table
  <2>1. table' \in [Threads -> Entries \cup {None}] /\ InvTable' /\ InvEntries'
    BY <1>2, EntriesSame
  <2>2. InvTimely'
    <3>1. \A c \in calls : Open(c.tid, c.start) => Open(c.tid, c.start)'
      BY <1>2 DEF Open
    <3>. QED
      BY <1>1, <3>1, TimelyKept
  <2>. QED
    BY <1>1, <2>1, <2>2 DEF ExporterInv
<1>3. CASE /\ table[e.tid] # None /\ table[e.tid].active
           /\ table' = [table EXCEPT ![e.tid].event.sock = e.sock]
  <2>a. PICK p, q : p = table[e.tid] /\ q = [table[e.tid] EXCEPT !.event.sock = e.sock]
    OBVIOUS
  <2>1. p \in Entries /\ Entry(e) = p /\ EntryTrue(e.tid)
    BY <1>0, <1>3, <2>a, EntryFacts DEF IInv, InvTypes
  <2>2. table' = [table EXCEPT ![e.tid] = q]
    BY <1>0, <1>3, <2>a
  <2>3. p.event \in Records /\ p.completed \in Nat
    BY <2>1 DEF Entries, Time
  <2>4. q = [p EXCEPT !.event = [p.event EXCEPT !.sock = e.sock]]
    BY <2>a, <2>1 DEF Entries
  <2>5. [p.event EXCEPT !.sock = e.sock] \in Records
    BY <1>0, <2>3 DEF Records
  <2>6. q \in Entries /\ q.completed = p.completed /\ q.active = p.active
          /\ q.event = [p.event EXCEPT !.sock = e.sock]
    BY <2>1, <2>4, <2>5 DEF Entries
  <2>7. q.event.tid = p.event.tid /\ q.event.start = p.event.start
          /\ q.event.kind = p.event.kind /\ q.event.type = p.event.type
    BY <2>3, <2>6 DEF Records
  <2>8. /\ p.event.tid = e.tid /\ p.event.type = "begin" /\ Truthful(p.event)
        /\ \E h \in handled : Of(h, p.event)
        /\ \A h \in handled : h.type = "end" => ~Of(h, p.event)
    BY <1>3, <2>1, <2>a DEF EntryTrue
  <2>9. Truthful(q.event)
    BY <2>7, <2>8 DEF Truthful, Of
  <2>10. Stores(e, q)
    <3>1. ~Full(e) /\ p.completed <= q.completed
      BY <1>3, <2>3, <2>6 DEF Full
    <3>2. /\ \E h \in handled' : Of(h, q.event)
          /\ \A h \in handled' : h.type = "end" => ~Of(h, q.event)
      BY <2>7, <2>8 DEF Given, Of
    <3>. QED
      BY <2>1, <2>2, <2>6, <2>7, <2>8, <2>9, <3>1, <3>2 DEF Stores
  <2>11. table' \in [Threads -> Entries \cup {None}] /\ InvTable' /\ InvEntries'
    BY <2>10, EntryStored
  <2>12. InvTimely'
    <3>1. q # None /\ \A u \in Threads : table'[u] = IF u = e.tid THEN q ELSE table[u]
      BY <1>0, <2>2, <2>6, NoneAssumption
    <3>2. ASSUME NEW c \in calls, Open(c.tid, c.start) PROVE Open(c.tid, c.start)'
      <4>1. c.tid \in Threads
        BY DEF IInv, InvTypes, Calls
      <4>. QED
        BY <2>6, <2>7, <2>a, <3>1, <3>2, <4>1 DEF Open
    <3>. QED
      BY <1>1, <3>2, TimelyKept
  <2>. QED
    BY <1>1, <2>11, <2>12 DEF ExporterInv
<1>. QED
  BY <1>2, <1>3 DEF HandleIo

\* A full table: the end is exported all the same.
LEMMA FullInv ==
    ASSUME IInv, NEW e, Given(e), e.type # "io", Full(e), HandleFull(e), timely' = timely
    PROVE  ExporterInv'
<1>1. table' \in [Threads -> Entries \cup {None}] /\ InvTable' /\ InvEntries' /\ table' = table
  BY EntriesSame DEF HandleFull
<1>2. exported' \in [Threads -> Seq(Slices)] /\ InvSlices' /\ Grown(exported, exported')
  <2>1. CASE e.type = "end"
    <3>1. exported' = Written(e, FALSE) /\ e.start <= e.ts
      BY <2>1 DEF HandleFull, Given, Truthful
    <3>. QED
      BY <2>1, <3>1, WrittenInv DEF Given
  <2>2. CASE e.type # "end"
    BY <2>2, SlicesSame DEF HandleFull
  <2>. QED
    BY <2>1, <2>2
<1>3. \A c \in calls : Open(c.tid, c.start) => Open(c.tid, c.start)'
  BY <1>1 DEF Open
<1>4. InvTimely'
  BY <1>2, <1>3, TimelyKept
<1>. QED
  BY <1>1, <1>2, <1>4 DEF ExporterInv

\* An end record closes its call, and no other.
LEMMA EndInv ==
    ASSUME IInv, NEW e, Given(e), e.type = "end", ~Full(e), HandleEnd(e), timely' = timely
    PROVE  ExporterInv'
<1>a. PICK p, q : /\ p = Entry(e)
                  /\ q = [p EXCEPT !.active = @ /\ p.event.start # e.start,
                                   !.completed = IF e.start > @ THEN e.start ELSE @]
  OBVIOUS
<1>0. table' = [table EXCEPT ![e.tid] = q] /\ exported' = Written(e, FALSE) /\ e \in Records
        /\ e.start <= e.ts /\ table \in [Threads -> Entries \cup {None}]
  BY <1>a DEF HandleEnd, Given, Truthful, IInv, InvTypes
<1>1. /\ e.tid \in Threads /\ e.start \in Nat /\ p \in Entries /\ p.completed \in Nat
      /\ p.event \in Records /\ p.event.start \in Nat /\ p.event.tid = e.tid
      /\ table[e.tid] # None => p = table[e.tid] /\ EntryTrue(e.tid)
      /\ table[e.tid] = None => ~p.active
  BY <1>0, <1>a, EntryFacts
<1>2. q \in Entries /\ q.event = p.event /\ q.active = (p.active /\ p.event.start # e.start)
        /\ q.completed = IF e.start > p.completed THEN e.start ELSE p.completed
  BY <1>1, <1>a DEF Entries, Time
<1>3. /\ exported' \in [Threads -> Seq(Slices)] /\ InvSlices' /\ Grown(exported, exported')
      /\ Shown(e) => Seen(exported', e)
  BY <1>0, WrittenInv DEF Given
<1>4. Stores(e, q)
  <2>1. /\ q.completed = p.completed \/ q.completed = e.start
        /\ p.completed <= q.completed /\ e.start <= q.completed
    BY <1>1, <1>2
  <2>2. ASSUME q.active
        PROVE  /\ q.event.type = "begin" /\ Truthful(q.event)
               /\ \E h \in handled' : Of(h, q.event)
               /\ \A h \in handled' : h.type = "end" => ~Of(h, q.event)
    <3>1. p.active /\ p.event.start # e.start /\ p = table[e.tid] /\ EntryTrue(e.tid)
      BY <1>1, <1>2, <2>2
    <3>. QED
      BY <1>2, <3>1 DEF EntryTrue, Given, Of
  <2>. QED
    BY <1>0, <1>1, <1>2, <1>a, <2>1, <2>2 DEF Stores
<1>5. table' \in [Threads -> Entries \cup {None}] /\ InvTable' /\ InvEntries'
  BY <1>4, EntryStored
<1>6. ASSUME NEW c \in calls, Open(c.tid, c.start), ~RequireSocket(c.kind)
      PROVE  Open(c.tid, c.start)' \/ Seen(exported', c)
  <2>0. c.tid \in Threads
    BY DEF IInv, InvTypes, Calls
  <2>1. CASE c.tid # e.tid
    <3>1. table'[c.tid] = table[c.tid]
      BY <1>0, <2>0, <2>1
    <3>. QED
      BY <1>6, <3>1 DEF Open
  <2>2. CASE c.tid = e.tid /\ c.start # e.start
    <3>1. table'[c.tid] = q /\ q # None
      BY <1>0, <1>2, <2>0, <2>2, NoneAssumption
    <3>2. p = table[e.tid] /\ p.active /\ p.event.start = c.start
      BY <1>1, <1>6, <2>2 DEF Open
    <3>. QED
      BY <1>2, <2>2, <3>1, <3>2 DEF Open
  <2>3. CASE c.tid = e.tid /\ c.start = e.start
    <3>1. PICK d \in calls : Of(e, d) /\ d.kind = e.kind
      BY DEF Given, Truthful
    <3>2. c = d
      BY <2>3, <3>1 DEF IInv, InvKernel, Of
    <3>3. Seen(exported', e)
      BY <1>3, <1>6, <3>1, <3>2 DEF Shown
    <3>. QED
      BY <2>3, <3>3 DEF Seen
  <2>. QED
    BY <2>1, <2>2, <2>3
<1>7. InvTimely'
  BY <1>3, <1>6, TimelyKept
<1>. QED
  BY <1>3, <1>5, <1>7 DEF ExporterInv

\* A begin record newer than all records of its thread is not too late.
LEMMA InTime ==
    ASSUME IInv, NEW e, Given(e), e.type = "begin",
           \A h \in handled : h.tid = e.tid => h.start < e.start
    PROVE  ~TooLate(Entry(e), e)
<1>1. /\ e \in Records /\ e.tid \in Threads /\ e.start \in Nat /\ Entry(e).completed \in Nat
      /\ Entry(e).event.start \in Nat /\ Entry(e).event.tid = e.tid
      /\ table[e.tid] # None => Entry(e) = table[e.tid] /\ EntryTrue(e.tid)
      /\ table[e.tid] = None => Entry(e).completed = 0 /\ ~Entry(e).active
  BY EntryFacts DEF Given
<1>2. e.start >= 1
  BY DEF Given, Truthful, IInv, InvKernel, Of
<1>3. Entry(e).completed < e.start
  BY <1>1, <1>2 DEF EntryTrue
<1>4. Entry(e).active => Entry(e).event.start < e.start
  <2>. SUFFICES ASSUME Entry(e).active PROVE Entry(e).event.start < e.start
    OBVIOUS
  <2>1. PICK h \in handled : Of(h, Entry(e).event)
    BY <1>1 DEF EntryTrue
  <2>. QED
    BY <1>1, <2>1 DEF Of
<1>. QED
  BY <1>1, <1>3, <1>4 DEF TooLate

\* A begin record that comes too late changes nothing.
LEMMA LateInv ==
    ASSUME IInv, NEW e, Given(e), e.type = "begin", ~Full(e), TooLate(Entry(e), e),
           table' = [table EXCEPT ![e.tid] = Entry(e)], UNCHANGED <<exported, timely>>
    PROVE  ExporterInv'
<1>a. PICK p : p = Entry(e)
  OBVIOUS
<1>0. e \in Records /\ table \in [Threads -> Entries \cup {None}]
  BY DEF Given, IInv, InvTypes
<1>1. /\ e.tid \in Threads /\ p \in Entries /\ p.completed \in Nat /\ p.event.tid = e.tid
      /\ table[e.tid] # None => p = table[e.tid] /\ EntryTrue(e.tid)
      /\ table[e.tid] = None => ~p.active
  BY <1>0, <1>a, EntryFacts
<1>2. exported' \in [Threads -> Seq(Slices)] /\ InvSlices' /\ Grown(exported, exported')
  BY SlicesSame
<1>3. Stores(e, p)
  <2>1. ASSUME p.active
        PROVE  /\ p.event.type = "begin" /\ Truthful(p.event)
               /\ \E h \in handled' : Of(h, p.event)
               /\ \A h \in handled' : h.type = "end" => ~Of(h, p.event)
    BY <1>1, <2>1 DEF EntryTrue, Given
  <2>2. p.completed <= p.completed
    BY <1>1
  <2>. QED
    BY <1>1, <1>a, <2>1, <2>2 DEF Stores
<1>4. table' \in [Threads -> Entries \cup {None}] /\ InvTable' /\ InvEntries'
  BY <1>3, EntryStored
<1>5. ASSUME NEW c \in calls, Open(c.tid, c.start) PROVE Open(c.tid, c.start)'
  <2>1. c.tid \in Threads /\ table[c.tid] # None
    BY <1>5 DEF IInv, InvTypes, Calls, Open
  <2>2. table'[c.tid] = table[c.tid]
    BY <1>0, <1>1, <1>a, <2>1
  <2>. QED
    BY <1>5, <2>2 DEF Open
<1>6. InvTimely'
  BY <1>2, <1>5, TimelyKept
<1>. QED
  BY <1>2, <1>4, <1>6 DEF ExporterInv

\* A newer begin record opens its call; the open one, if any, is given up.
LEMMA BeginInv ==
    ASSUME IInv, NEW e, Given(e), e.type = "begin", ~Full(e), ~TooLate(Entry(e), e),
           table' = [table EXCEPT ![e.tid] = [Entry(e) EXCEPT !.event = e, !.active = TRUE]],
           exported' = IF Entry(e).active
                       THEN Written([Entry(e).event EXCEPT !.ts = e.start], TRUE)
                       ELSE exported,
           timely' = timely \/ timely' = timely \cup {[tid |-> e.tid, start |-> e.start]}
    PROVE  ExporterInv'
<1>a. PICK p, q, x : /\ p = Entry(e) /\ q = [p EXCEPT !.event = e, !.active = TRUE]
                     /\ x = [p.event EXCEPT !.ts = e.start]
  OBVIOUS
<1>0. e \in Records /\ table \in [Threads -> Entries \cup {None}]
        /\ table' = [table EXCEPT ![e.tid] = q]
        /\ exported' = IF p.active THEN Written(x, TRUE) ELSE exported
  BY <1>a DEF Given, IInv, InvTypes
<1>1. /\ e.tid \in Threads /\ e.start \in Nat /\ p \in Entries /\ p.completed \in Nat
      /\ p.event \in Records /\ p.event.start \in Nat /\ p.event.tid = e.tid
      /\ table[e.tid] # None => p = table[e.tid] /\ EntryTrue(e.tid)
      /\ table[e.tid] = None => ~p.active
  BY <1>0, <1>a, EntryFacts
<1>2. q \in Entries /\ q.event = e /\ q.active = TRUE /\ q.completed = p.completed /\ q # None
  BY <1>0, <1>1, <1>a, NoneAssumption DEF Entries
<1>3. x \in Records /\ x.tid = e.tid /\ x.start = p.event.start /\ x.ts = e.start
        /\ x.kind = p.event.kind
  BY <1>1, <1>a DEF Records, Time
<1>4. p.completed < e.start /\ (p.active => p.event.start < e.start)
  BY <1>1, <1>a DEF TooLate
<1>5. ASSUME NEW h \in handled', h.type = "end" PROVE ~Of(h, e)
  <2>1. h \in handled /\ EndKnown(h) /\ h.start \in Nat
    BY <1>5 DEF Given, IInv, InvEntries, InvTypes, Records, Time
  <2>. SUFFICES ASSUME Of(h, e) PROVE FALSE
    OBVIOUS
  <2>2. h.tid = e.tid /\ h.start = e.start
    BY DEF Of
  <2>3. table[e.tid] # None /\ h.start <= p.completed
    BY <1>1, <2>1, <2>2 DEF EndKnown, Full
  <2>. QED
    BY <1>1, <1>4, <2>1, <2>2, <2>3
<1>6. Stores(e, q)
  <2>1. \E h \in handled' : Of(h, e)
    BY DEF Given, Of
  <2>2. p.completed <= q.completed
    BY <1>1, <1>2
  <2>. QED
    BY <1>0, <1>2, <1>5, <1>a, <2>1, <2>2 DEF Stores, Given
<1>7. table' \in [Threads -> Entries \cup {None}] /\ InvTable' /\ InvEntries'
  BY <1>6, EntryStored
<1>8. p.active => /\ Truthful(p.event) /\ p.event.type = "begin"
                  /\ \A h \in handled : h.type = "end" => ~Of(h, x)
  <2>1. p.active => EntryTrue(e.tid) /\ p = table[e.tid]
    BY <1>1
  <2>. QED
    BY <1>1, <1>3, <2>1 DEF EntryTrue, Of
<1>9. /\ exported' \in [Threads -> Seq(Slices)] /\ InvSlices' /\ Grown(exported, exported')
      /\ p.active /\ Shown(x) => Seen(exported', x)
  <2>1. CASE p.active
    <3>1. x.start <= x.ts
      BY <1>1, <1>3, <1>4, <2>1
    <3>. QED
      BY <1>0, <1>3, <1>8, <2>1, <3>1, WrittenInv DEF Given
  <2>2. CASE ~p.active
    BY <1>0, <2>2, SlicesSame
  <2>. QED
    BY <2>1, <2>2
<1>10. \A u \in Threads : table'[u] = IF u = e.tid THEN q ELSE table[u]
  BY <1>0
<1>11. ASSUME NEW c \in calls, Open(c.tid, c.start), ~RequireSocket(c.kind)
       PROVE  Open(c.tid, c.start)' \/ Seen(exported', c)
  <2>0. c.tid \in Threads
    BY DEF IInv, InvTypes, Calls
  <2>1. CASE c.tid # e.tid
    BY <1>10, <1>11, <2>0, <2>1 DEF Open
  <2>2. CASE c.tid = e.tid
    <3>1. p.active /\ p.event.start = c.start
      BY <1>1, <1>11, <2>2 DEF Open
    <3>2. PICK d \in calls : Of(p.event, d) /\ p.event.kind = d.kind
      BY <1>8, <3>1 DEF Truthful
    <3>3. c = d
      <4>1. Of(c, d)
        BY <1>1, <2>2, <3>1, <3>2 DEF Of
      <4>. QED
        BY <4>1 DEF IInv, InvKernel
    <3>4. Seen(exported', x)
      BY <1>3, <1>9, <1>11, <3>1, <3>2, <3>3 DEF Shown
    <3>. QED
      BY <1>3, <2>2, <3>1, <3>4 DEF Seen
  <2>. QED
    BY <2>1, <2>2
<1>12. Open(e.tid, e.start)'
  BY <1>1, <1>2, <1>10 DEF Open
<1>13. InvTimely'
  BY <1>9, <1>11, <1>12, TimelyKept
<1>. QED
  BY <1>7, <1>9, <1>13 DEF ExporterInv

\* Every record the exporter is given keeps the invariant.
LEMMA ExportInv ==
    ASSUME IInv, NEW c \in CPU, ExportEvent(c)
    PROVE  IInv'
<1>a. PICK e : e = Head(ring[c])
  OBVIOUS
<1>1. Given(e) /\ ring' \in [CPU -> Seq(Records)] /\ InvKernel' /\ InvRecords' /\ InvOneEnd'
  BY <1>a, TakeRecord
<1>2. UNCHANGED <<clock, call, pend, faults, calls, closed>>
  BY DEF ExportEvent
<1>. DEFINE Newest == \A h \in handled : h.tid = e.tid => h.start < e.start
            m == [tid |-> e.tid, start |-> e.start]
<1>3. timely' = IF e.type = "begin" /\ ~Full(e) /\ Newest THEN timely \cup {m} ELSE timely
  BY <1>a DEF ExportEvent
<1>4. \/ e.type = "io" /\ HandleIo(e)
      \/ e.type # "io" /\ Full(e) /\ HandleFull(e)
      \/ e.type = "end" /\ ~Full(e) /\ HandleEnd(e)
      \/ e.type = "begin" /\ ~Full(e) /\ HandleBegin(e)
  BY <1>a DEF ExportEvent
<1>5. ExporterInv'
  <2>1. CASE e.type = "io" /\ HandleIo(e)
    BY <1>1, <1>3, <2>1, IoInv
  <2>2. CASE e.type # "io" /\ Full(e) /\ HandleFull(e)
    BY <1>1, <1>3, <2>2, FullInv
  <2>3. CASE e.type = "end" /\ ~Full(e) /\ HandleEnd(e)
    BY <1>1, <1>3, <2>3, EndInv
  <2>4. CASE e.type = "begin" /\ ~Full(e) /\ HandleBegin(e)
    <3>1. CASE TooLate(Entry(e), e)
      <4>1. table' = [table EXCEPT ![e.tid] = Entry(e)] /\ exported' = exported
        BY <2>4, <3>1 DEF HandleBegin
      <4>2. timely' = timely
        BY <1>1, <1>3, <2>4, <3>1, InTime
      <4>. QED
        BY <1>1, <2>4, <3>1, <4>1, <4>2, LateInv
    <3>2. CASE ~TooLate(Entry(e), e)
      <4>1. /\ table' = [table EXCEPT ![e.tid] = [Entry(e) EXCEPT !.event = e, !.active = TRUE]]
            /\ exported' = IF Entry(e).active
                           THEN Written([Entry(e).event EXCEPT !.ts = e.start], TRUE)
                           ELSE exported
        BY <2>4, <3>2 DEF HandleBegin
      <4>2. timely' = timely \/ timely' = timely \cup {m}
        BY <1>3
      <4>. QED
        BY <1>1, <2>4, <3>2, <4>1, <4>2, BeginInv
    <3>. QED
      BY <3>1, <3>2
  <2>. QED
    BY <1>4, <2>1, <2>2, <2>3, <2>4
<1>6. InvTypes'
  <2>1. handled' \subseteq Records /\ timely' \subseteq [tid : Threads, start : Time]
    BY <1>1, <1>3 DEF Given, IInv, InvTypes, Records
  <2>. QED
    BY <1>1, <1>2, <1>5, <2>1 DEF IInv, InvTypes, ExporterInv
<1>. QED
  BY <1>1, <1>5, <1>6 DEF IInv, ExporterInv

---------------------------------------------------------------------------
(* Close *)

\* What close adds to the slices of one thread: at most the incomplete slice
\* of its open call, which then has one.
LEMMA CloseThread ==
    ASSUME IInv, NEW t \in Threads, NEW a, a = exported[t] \o SlicesAtClose(t)
    PROVE  /\ a \in Seq(Slices) /\ ThreadSlices(t, a, handled)
           /\ \A c : (\E i \in 1..Len(exported[t]) : exported[t][i].start = c) =>
                     (\E i \in 1..Len(a) : a[i].start = c)
           /\ \A c \in calls : /\ c.tid = t /\ Open(t, c.start) /\ ~RequireSocket(c.kind)
                 => \E i \in 1..Len(a) : a[i].start = c.start
<1>0. PICK s, H : s = exported[t] /\ H = handled
  OBVIOUS
<1>1. s \in Seq(Slices) /\ ThreadSlices(t, s, H) /\ table[t] \in Entries \cup {None}
        /\ clock[t] \in Nat
  BY <1>0 DEF IInv, InvTypes, InvSlices, Time
<1>2. CASE table[t] = None \/ ~table[t].active
  <2>1. a = s
    <3>1. SlicesAtClose(t) = <<>>
      BY <1>2 DEF SlicesAtClose
    <3>. QED
      BY <1>0, <1>1, <3>1
  <2>2. \A c \in calls : ~Open(t, c.start)
    BY <1>2 DEF Open
  <2>. QED
    BY <1>0, <1>1, <2>1, <2>2
<1>3. CASE table[t] # None /\ table[t].active
  <2>a. PICK p, x : p = table[t] /\ x = [table[t].event EXCEPT !.ts = clock[t]]
    OBVIOUS
  <2>b. PICK inc \in BOOLEAN : inc = TRUE
    OBVIOUS
  <2>c. a = s \o SlicesOf(x, inc)
    BY <1>0, <1>3, <2>a, <2>b DEF SlicesAtClose
  <2>1. p \in Entries /\ EntryTrue(t) /\ p.active
    BY <1>1, <1>3, <2>a DEF IInv, InvEntries
  <2>2. p.event \in Records /\ p.event.start \in Nat
    BY <2>1 DEF Entries, Records, Time
  <2>3. x \in Records /\ x.tid = p.event.tid /\ x.start = p.event.start /\ x.ts = clock[t]
          /\ x.kind = p.event.kind
    BY <1>1, <2>2, <2>a DEF Records, Time
  <2>4. /\ p.event.tid = t /\ p.event.type = "begin" /\ Truthful(p.event)
        /\ \A h \in handled : h.type = "end" => ~Of(h, p.event)
    BY <2>1, <2>a DEF EntryTrue
  <2>5. PICK d \in calls : Of(p.event, d) /\ p.event.kind = d.kind
    BY <2>4 DEF Truthful
  <2>6. x.start <= x.ts
    BY <1>1, <2>2, <2>3, <2>4, <2>5 DEF IInv, InvKernel, Of
  <2>7. /\ a \in Seq(Slices)
        /\ \A c : (\E i \in 1..Len(s) : s[i].start = c) => (\E i \in 1..Len(a) : a[i].start = c)
        /\ x.start <= x.ts /\ Shown(x) => \E i \in 1..Len(a) : a[i].start = x.start
    BY <1>1, <2>3, <2>c, OneMore
  <2>8. ThreadSlices(t, a, H)
    <3>1. CASE Shown(x)
      <4>. DEFINE y == SliceOf(x, inc)
      <4>1. y \in Slices /\ a = Append(s, y)
        BY <1>1, <2>3, <2>6, <2>c, <3>1, SlicesShape
      <4>2. y.tid = t /\ y.start = p.event.start /\ y.incomplete = TRUE
        BY <2>3, <2>4, <2>b DEF SliceOf
      <4>. HIDE DEF y
      <4>3. Fits(y, H, H)
        BY <1>0, <2>4, <4>2 DEF Fits, Of
      <4>. QED
        BY <1>1, <4>1, <4>2, <4>3, SliceAdded
    <3>2. CASE ~Shown(x)
      BY <1>1, <2>3, <2>c, <3>2, SlicesShape
    <3>. QED
      BY <3>1, <3>2
  <2>9. ASSUME NEW c \in calls, c.tid = t, Open(t, c.start), ~RequireSocket(c.kind)
        PROVE  \E i \in 1..Len(a) : a[i].start = c.start
    <3>1. p.event.start = c.start
      BY <2>9, <2>a DEF Open
    <3>2. Of(c, d)
      BY <2>4, <2>5, <2>9, <3>1 DEF Of
    <3>3. c = d
      BY <3>2 DEF IInv, InvKernel
    <3>. QED
      BY <2>3, <2>5, <2>6, <2>7, <2>9, <3>1, <3>3 DEF Shown
  <2>. QED
    BY <1>0, <2>7, <2>8, <2>9
<1>. QED
  BY <1>2, <1>3

\* Close empties the table and leaves no open call without a slice.
LEMMA CloseInv ==
    ASSUME IInv, PerfettoExportClose
    PROVE  IInv'
<1>0. /\ ~closed /\ closed' = TRUE
      /\ exported' = [t \in Threads |-> exported[t] \o SlicesAtClose(t)]
      /\ table' = [t \in Threads |-> None]
      /\ UNCHANGED <<clock, call, pend, ring, faults, calls, handled, timely>>
  BY DEF PerfettoExportClose, kernel
<1>1. ASSUME NEW t \in Threads
      PROVE  /\ exported'[t] \in Seq(Slices) /\ ThreadSlices(t, exported'[t], handled)
             /\ \A c : (\E i \in 1..Len(exported[t]) : exported[t][i].start = c) =>
                       (\E i \in 1..Len(exported'[t]) : exported'[t][i].start = c)
             /\ \A c \in calls : /\ c.tid = t /\ Open(t, c.start) /\ ~RequireSocket(c.kind)
                   => \E i \in 1..Len(exported'[t]) : exported'[t][i].start = c.start
  <2>1. PICK a : a = exported[t] \o SlicesAtClose(t)
    OBVIOUS
  <2>2. exported'[t] = a
    BY <1>0, <2>1
  <2>3. a \in Seq(Slices) /\ ThreadSlices(t, a, handled)
    BY <2>1, CloseThread
  <2>4. \A c : (\E i \in 1..Len(exported[t]) : exported[t][i].start = c) =>
               (\E i \in 1..Len(a) : a[i].start = c)
    BY <2>1, CloseThread
  <2>5. \A c \in calls : /\ c.tid = t /\ Open(t, c.start) /\ ~RequireSocket(c.kind)
              => \E i \in 1..Len(a) : a[i].start = c.start
    BY <2>1, CloseThread DEF Open, RequireSocket
  <2>. QED
    BY <2>2, <2>3, <2>4, <2>5
<1>2. InvTypes'
  <2>1. exported' \in [Threads -> Seq(Slices)] /\ table' \in [Threads -> Entries \cup {None}]
    BY <1>0, <1>1
  <2>. QED
    BY <1>0, <2>1 DEF IInv, InvTypes
<1>3. InvTable'
  <2>1. InTable' = {}
    BY <1>0 DEF InTable
  <2>. QED
    BY <2>1, FS_EmptySet, PairingAssumption DEF InvTable
<1>4. InvKernel' /\ InvRecords' /\ InvOneEnd'
  <2>1. InvKernel'
    BY <1>0 DEF IInv, InvKernel
  <2>2. Flight' = Flight
    BY <1>0 DEF Flight
  <2>3. InvRecords'
    BY <1>0, <2>2 DEF IInv, InvRecords, Truthful
  <2>. QED
    BY <1>0, <2>1, <2>2, <2>3 DEF IInv, InvOneEnd
<1>5. InvSlices'
  BY <1>0, <1>1 DEF InvSlices
<1>6. InvEntries'
  BY <1>0 DEF InvEntries
<1>7. InvTimely'
  <2>. SUFFICES ASSUME NEW m \in timely
                PROVE  /\ \E c \in calls : Of(m, c)
                       /\ \A c \in calls : Of(m, c) /\ ~RequireSocket(c.kind) =>
                             Seen(exported', c)
    BY <1>0 DEF InvTimely
  <2>1. ASSUME NEW c \in calls, Of(m, c), ~RequireSocket(c.kind) PROVE Seen(exported', c)
    <3>0. c.tid \in Threads
      BY DEF IInv, InvTypes, Calls
    <3>1. Seen(exported, c) \/ Open(c.tid, c.start)
      BY <2>1 DEF IInv, InvTimely
    <3>. QED
      BY <1>1, <2>1, <3>0, <3>1 DEF Seen
  <2>. QED
    BY <2>1 DEF IInv, InvTimely
<1>. QED
  BY <1>2, <1>3, <1>4, <1>5, <1>6, <1>7 DEF IInv

---------------------------------------------------------------------------
(* The theorems *)

\* Nothing has happened yet.
LEMMA InitInv ==
    ASSUME Init
    PROVE  IInv
<1>1. InvTypes
  <2>1. clock \in [Threads -> Time] /\ faults \in 0..MaxFaults
    BY PairingAssumption DEF Init, Time
  <2>2. ring \in [CPU -> Seq(Records)] /\ exported \in [Threads -> Seq(Slices)]
    BY DEF Init
  <2>. QED
    BY <2>1, <2>2 DEF Init, InvTypes
<1>2. InvTable
  <2>1. InTable = {}
    BY DEF Init, InTable
  <2>. QED
    BY <2>1, FS_EmptySet, PairingAssumption DEF InvTable
<1>3. InvKernel
  BY DEF Init, InvKernel
<1>4. Flight = {}
  <2>1. \A r : r \notin Flight
    BY <1>1, FlightPlaces DEF Init
  <2>. QED
    BY <2>1
<1>5. InvRecords /\ InvOneEnd
  BY <1>4 DEF Init, InvRecords, InvOneEnd
<1>6. InvSlices
  BY DEF Init, InvSlices, ThreadSlices
<1>7. InvEntries /\ InvTimely
  BY DEF Init, InvEntries, InvTimely
<1>. QED
  BY <1>1, <1>2, <1>3, <1>5, <1>6, <1>7 DEF IInv

\* Every step keeps the invariant.
LEMMA NextInv ==
    ASSUME IInv, [Next]_vars
    PROVE  IInv'
<1>1. CASE Next
  <2>1. ASSUME NEW t \in Threads, NEW k \in Kinds, NetworkSysEnter(t, k) PROVE IInv'
    BY <2>1, EnterInv
  <2>2. ASSUME NEW t \in Threads, NEW s \in Sockets, SocketIo(t, s) PROVE IInv'
    BY <2>2, SocketIoInv
  <2>3. ASSUME NEW t \in Threads, NetworkSysExit(t) PROVE IInv'
    BY <2>3, ExitInv
  <2>4. ASSUME NEW t \in Threads, EvictEntry(t) PROVE IInv'
    BY <2>4, EvictInv
  <2>5. ASSUME NEW c \in CPU, ExportEvent(c) PROVE IInv'
    BY <2>5, ExportInv
  <2>. QED
    BY <1>1, <2>1, <2>2, <2>3, <2>4, <2>5, CloseInv DEF Next
<1>2. CASE UNCHANGED vars
  <2>1. UNCHANGED <<clock, call, pend, ring, faults, calls>> /\ UNCHANGED export
    BY <1>2 DEF vars, kernel
  <2>2. InvTypes' /\ InvKernel' /\ CallsKept
    BY <2>1 DEF IInv, InvTypes, InvKernel, CallsKept, Of, export
  <2>. QED
    BY <2>1, <2>2, KernelFrame
<1>. QED
  BY <1>1, <1>2

\* The inductive invariant holds in every state.
THEOREM Invariance == Spec => []IInv
BY InitInv, NextInv, PTL DEF Spec

\* The slices of a thread, by their place.
LEMMA SlotPlaces ==
    ASSUME IInv
    PROVE  /\ \A t \in Threads : DOMAIN exported[t] = 1..Len(exported[t])
           /\ \A x : x \in Exported <=>
                \E t \in Threads : \E i \in 1..Len(exported[t]) : x = exported[t][i]
<1>1. \A t \in Threads : DOMAIN exported[t] = 1..Len(exported[t])
  BY DEF IInv, InvTypes
<1>2. \A t \in Threads : Range(exported[t]) = {exported[t][i] : i \in 1..Len(exported[t])}
  BY <1>1 DEF Range
<1>3. ASSUME NEW x
      PROVE  x \in Exported <=>
                \E t \in Threads : \E i \in 1..Len(exported[t]) : x = exported[t][i]
  <2>1. x \in Exported <=> \E t \in Threads : x \in Range(exported[t])
    BY DEF Exported
  <2>. QED
    BY <1>2, <2>1
<1>. QED
  BY <1>1, <1>3

\* Types hold in every state; pending_syscalls never holds more entries than
\* it has room for.
THEOREM TypeCorrectness == Spec => []TypeOK
<1>1. IInv => TypeOK
  <2>. SUFFICES ASSUME IInv PROVE TypeOK
    OBVIOUS
  <2>1. \A c \in CPU : \A i \in DOMAIN ring[c] : ring[c][i] \in Records
    BY DEF IInv, InvTypes
  <2>2. Exported \subseteq Slices
    BY SlotPlaces DEF IInv, InvTypes
  <2>. QED
    BY <2>1, <2>2 DEF IInv, InvTypes, InvTable, TypeOK
<1>. QED
  BY <1>1, Invariance, PTL

\* Every end record given to the exporter became exactly one complete slice
\* (none if its socket is needed and unknown), and every complete slice
\* belongs to a call that really ended with that socket: for any number of
\* threads, rings and calls, any table size and any losses.
THEOREM EndsCorrect == Spec => []EndsExportedOnce
<1>1. IInv => EndsExportedOnce
  <2>. SUFFICES ASSUME IInv PROVE EndsExportedOnce
    OBVIOUS
  <2>1. ASSUME NEW e \in handled, e.type = "end"
        PROVE  Cardinality(Complete(e)) = IF RequireSocket(e.kind) /\ e.sock = None THEN 0 ELSE 1
    <3>a. PICK s : s = exported[e.tid]
      OBVIOUS
    <3>0. e.tid \in Threads /\ ThreadSlices(e.tid, s, handled)
      BY <3>a DEF IInv, InvTypes, InvSlices, Records
    <3>1. Complete(e) = {i \in 1..Len(s) : s[i].start = e.start /\ s[i].incomplete = FALSE}
      BY <3>a, <3>0, SlotPlaces DEF Complete, Slots
    <3>2. CASE Shown(e)
      <4>1. PICK i \in 1..Len(s) : s[i].start = e.start /\ ~s[i].incomplete
        BY <2>1, <3>0, <3>2 DEF ThreadSlices
      <4>2. s[i].incomplete \in BOOLEAN
        <5>1. s[i] \in Slices
          BY <3>0, <3>a, <4>1 DEF IInv, InvTypes
        <5>. QED
          BY <5>1 DEF Slices
      <4>3. ASSUME NEW j \in 1..Len(s), s[j].start = e.start, s[j].incomplete = FALSE
            PROVE  j = i
        BY <3>0, <4>1, <4>3 DEF ThreadSlices
      <4>4. s[i].incomplete = FALSE
        BY <4>1, <4>2
      <4>5. Complete(e) = {i}
        BY <3>1, <4>1, <4>3, <4>4
      <4>. QED
        BY <3>2, <4>5, FS_Singleton DEF Shown
    <3>3. CASE ~Shown(e)
      <4>1. ASSUME NEW j \in 1..Len(s), s[j].start = e.start, s[j].incomplete = FALSE
            PROVE  FALSE
        <5>1. PICK h \in handled : h.type = "end" /\ Of(s[j], h) /\ Shown(h) /\ s[j].tid = e.tid
          BY <3>0, <4>1 DEF ThreadSlices, HasOrigin
        <5>2. Of(h, e)
          BY <4>1, <5>1 DEF Of
        <5>3. h = e
          BY <2>1, <5>1, <5>2 DEF IInv, InvOneEnd
        <5>. QED
          BY <3>3, <5>1, <5>3
      <4>2. Complete(e) = {}
        BY <3>1, <4>1
      <4>. QED
        BY <3>3, <4>2, FS_EmptySet DEF Shown
    <3>. QED
      BY <3>2, <3>3
  <2>2. ASSUME NEW x \in Exported, ~x.incomplete
        PROVE  \E c \in calls : /\ c.tid = x.tid /\ c.start = x.start
                                /\ c.over /\ c.sock = x.sock
    <3>1. PICK t \in Threads : \E i \in 1..Len(exported[t]) : x = exported[t][i]
      BY SlotPlaces
    <3>2. HasOrigin(x, handled)
      BY <2>2, <3>1 DEF IInv, InvSlices, ThreadSlices
    <3>3. PICK e \in handled : e.type = "end" /\ Of(x, e) /\ x.sock = e.sock
      BY <3>2 DEF HasOrigin
    <3>4. Truthful(e)
      BY DEF IInv, InvRecords
    <3>. QED
      BY <3>3, <3>4 DEF Truthful, Of
  <2>. QED
    BY <2>1, <2>2 DEF EndsExportedOnce
<1>. QED
  BY <1>1, Invariance, PTL

\* A begin record that arrives after its end never reopens the call: an
\* incomplete slice of a call comes before its complete one.
THEOREM ReopeningCorrect == Spec => []NoReopening
<1>1. IInv => NoReopening
  <2>. SUFFICES ASSUME IInv, NEW c \in calls, NEW i \in Complete(c), NEW j \in Incomplete(c)
                PROVE  j < i
    BY DEF NoReopening
  <2>a. PICK s : s = exported[c.tid]
    OBVIOUS
  <2>1. c.tid \in Threads /\ ThreadSlices(c.tid, s, handled)
    BY <2>a DEF IInv, InvTypes, InvSlices, Calls
  <2>2. /\ i \in 1..Len(s) /\ s[i].start = c.start /\ s[i].incomplete = FALSE
        /\ j \in 1..Len(s) /\ s[j].start = c.start /\ s[j].incomplete = TRUE
    BY <2>a, <2>1, SlotPlaces DEF Complete, Incomplete, Slots
  <2>. QED
    BY <2>1, <2>2 DEF ThreadSlices
<1>. QED
  BY <1>1, Invariance, PTL

\* After close, a call whose begin was read in time is in the trace, even if
\* its end was lost or never sent.
THEOREM ForgottenCorrect == Spec => []NoCallForgotten
<1>1. IInv => NoCallForgotten
  <2>. SUFFICES ASSUME IInv, closed, NEW c \in calls, ~RequireSocket(c.kind),
                       [tid |-> c.tid, start |-> c.start] \in timely
                PROVE  Complete(c) \cup Incomplete(c) # {}
    BY DEF NoCallForgotten
  <2>0. c.tid \in Threads
    BY DEF IInv, InvTypes, Calls
  <2>1. Of([tid |-> c.tid, start |-> c.start], c)
    BY DEF Of
  <2>2. Seen(exported, c)
    BY <2>1 DEF IInv, InvTimely
  <2>3. PICK i \in 1..Len(exported[c.tid]) : exported[c.tid][i].start = c.start
    BY <2>2 DEF Seen
  <2>4. exported[c.tid][i] \in Slices
    BY <2>0, <2>3 DEF IInv, InvTypes
  <2>5. exported[c.tid][i].incomplete \in BOOLEAN
    BY <2>4 DEF Slices
  <2>. QED
    BY <2>0, <2>3, <2>5, SlotPlaces DEF Complete, Incomplete, Slots
<1>. QED
  BY <1>1, Invariance, PTL
=============================================================================
