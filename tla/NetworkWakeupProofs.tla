------------------------- MODULE NetworkWakeupProofs -------------------------
(* NetworkWakeup proved for every number of thread ids, CPUs and elements.   *)
(*                                                                           *)
(* TypeOK, SnapshotIsTrue and WakeNotMissed follow from an invariant IInv    *)
(* that says, for the entry of a task, what its fields mean at each stage:   *)
(* while the task runs (InvOn), while it does not (InvOff), while a waker    *)
(* that found it asleep writes (InvAsleep), from the end of that wake to the *)
(* next switch (InvWhole), and while a snapshot copies it (InvSnapshot).     *)
(* InvSched and InvHold say what the handlers in progress exclude: where a   *)
(* task is while somebody wakes it, leaves it or enters it, and which        *)
(* element is whose.  One lemma per action shows that each part is kept.     *)
EXTENDS NetworkWakeup, FiniteSetTheorems, TLAPS

(* The invariant, in parts.                                                  *)

EventType == [status : {1, 2, 3}, waking : Time, wakeup : Time, run : Time,
              ctx : Contexts, waker : Time]
HandlerType == [op : {"idle", "waking", "switch", "snapshot"}, step : 0..7,
                tid : Tids \cup {None}, next : Tids \cup {None}, elem : Elements \cup {None},
                lost : BOOLEAN, early : BOOLEAN, ts : Time, ctx : Contexts, event : EventType]
TaskType == [birth : Time, where : CPU \cup {"queue", "off"},
             state : {"running", "sleeping", "dead"}]
ElemType == [tid : Tids \cup {None}, birth : Time, foreign : BOOLEAN, waking : Time,
             wakeup : Time, run : Time, ctx : Contexts, waker : Time]
TruthType == [waking : Time, wakeup : Time, run : Time, waker : Time, whole : BOOLEAN]

InvTypes ==
    /\ now \in Time \ {0}
    /\ task \in [Tids -> TaskType]
    /\ elem \in [Elements -> ElemType]
    /\ h \in [CPU -> HandlerType]
    /\ truth \in [Tids -> TruthType]

\* No time is ahead of the clock; a wake noted in an element is younger than
\* the task it was given to.
InvTimes ==
    /\ \A t \in Tids : task[t].birth <= now
    /\ \A e \in Elements :
          /\ elem[e].birth <= now /\ elem[e].waking <= now /\ elem[e].wakeup <= now
          /\ elem[e].run <= now
          /\ elem[e].waking # 0 => elem[e].birth < elem[e].waking
    /\ \A c \in CPU : h[c].ts <= now

\* CPU c wakes t, switches away from t, switches to t, takes a snapshot for t.
Wakes(c, t) == h[c].op = "waking" /\ h[c].tid = t
Leaves(c, t) == h[c].op = "switch" /\ h[c].tid = t
Enters(c, t) == h[c].op = "switch" /\ h[c].next = t
Snaps(c, t) == h[c].op = "snapshot" /\ h[c].tid = t

\* e is the entry of the task that has id t now.
Entry(e, t) == elem[e].tid = t /\ elem[e].birth = task[t].birth

OnCpu(t) == task[t].where \in CPU

\* The scheduler: where a task is while a handler is about it.
InvSched ==
    /\ \A t, u \in Tids : OnCpu(t) /\ task[t].where = task[u].where => t = u
    /\ \A c \in CPU : h[c].op = "switch" => \A t \in Tids : task[t].where # c
    /\ \A c \in CPU : h[c].op = "waking" => h[c].tid \in Tids
    /\ \A c \in CPU : h[c].op = "snapshot" => h[c].tid \in Tids
    /\ \A c \in CPU, t \in Tids :
          /\ Leaves(c, t) => ~OnCpu(t) /\ ~Enters(c, t)
          /\ Enters(c, t) => task[t].where = "queue"
          /\ Snaps(c, t) => task[t].where = c /\ task[t].state = "running"
          /\ Wakes(c, t) => task[t].state # "dead"
    /\ \A c, d \in CPU, t \in Tids :
          /\ Leaves(c, t) /\ Leaves(d, t) => c = d
          /\ Enters(c, t) /\ Enters(d, t) => c = d
          /\ ~(Leaves(c, t) /\ Enters(d, t))
          /\ Wakes(c, t) /\ Wakes(d, t) => c = d \/ task[t].where \in {c, d}
    /\ \A t \in Tids : task[t].where = "off" => task[t].state # "running"

\* The map: one entry per id, and what a handler knows of the element it
\* found.  Only the task itself makes its entry, so while it leaves its CPU
\* or takes a snapshot the entry is the one the handler holds.
InvHold ==
    /\ \A e, f \in Elements : elem[e].tid = elem[f].tid /\ elem[e].tid # None => e = f
    /\ \A c \in CPU, e \in Elements :
          h[c].elem = e /\ ~h[c].lost => elem[e].tid = h[c].tid
    /\ \A c \in CPU, e \in Elements :
          h[c].elem = e => h[c].op # "idle" /\ h[c].tid # None
    /\ \A c \in CPU : h[c].op = "waking" =>
          h[c].step \in 1..7 /\ (h[c].elem = None => h[c].step = 7)
    /\ \A c \in CPU : h[c].op = "switch" => h[c].step \in 1..4
    /\ \A c \in CPU, t \in Tids, e \in Elements :
          Leaves(c, t) \/ Snaps(c, t) =>
             /\ h[c].elem = e /\ ~h[c].lost => elem[e].birth = task[t].birth
             /\ Entry(e, t) => h[c].elem = e /\ ~h[c].lost

\* What an element says of the wake and the run is what happened.
Match(e, t) ==
    /\ elem[e].waking = truth[t].waking /\ elem[e].wakeup = truth[t].wakeup
    /\ elem[e].ctx = TaskContext => elem[e].waker = truth[t].waker

\* The entry of a task that runs.
InvOn ==
    \A t \in Tids, e \in Elements : Entry(e, t) /\ OnCpu(t) =>
        /\ elem[e].run # 0 => elem[e].run = truth[t].run
        /\ ~elem[e].foreign /\ WakeKnown(elem[e]) => Match(e, t)
        /\ \A c \in CPU : Wakes(c, t) /\ h[c].elem = e /\ ~h[c].lost /\ h[c].step >= 2
              => ~WakeKnown(elem[e])

\* The entry of a task that does not run, once the switch has cleared it.
Cleared(t) == \A c \in CPU : ~(Leaves(c, t) /\ h[c].step = 1)
Left(t) == \A c \in CPU : ~(Leaves(c, t) /\ h[c].step <= 3)
OffEntry(t, e) ==
    /\ elem[e].wakeup # 0 =>
          task[t].state = "running" /\ \A c \in CPU : ~Wakes(c, t) /\ ~Leaves(c, t)
    /\ ~elem[e].foreign /\ elem[e].waking # 0 =>
          /\ task[t].state # "running" => \E c \in CPU : Wakes(c, t)
          /\ \A c \in CPU : Wakes(c, t) =>
                /\ h[c].elem = e /\ ~h[c].lost /\ h[c].step >= 5
                /\ elem[e].waking = h[c].ts
          /\ elem[e].wakeup # 0 => Match(e, t)
    /\ ~elem[e].foreign /\ Left(t) =>
          \A c \in CPU : /\ Wakes(c, t) /\ h[c].elem = e /\ ~h[c].lost
                         /\ h[c].step >= 6 /\ elem[e].ctx = TaskContext
              => h[c].ctx = TaskContext /\ (h[c].step = 7 => elem[e].waker = h[c].ts)
InvOff ==
    \A t \in Tids, e \in Elements :
        Entry(e, t) /\ ~OnCpu(t) /\ Cleared(t) => OffEntry(t, e)

\* A waker that found its task asleep works undisturbed, unless its element
\* is taken.
InvAsleep ==
    \A c \in CPU, t \in Tids : Wakes(c, t) /\ ~h[c].early =>
        /\ task[t].where = "off" /\ \A d \in CPU : ~Leaves(d, t)
        /\ \A e \in Elements : Entry(e, t) /\ h[c].elem = e /\ ~h[c].lost /\ ~elem[e].foreign =>
              /\ h[c].step >= 2 => elem[e].run = 0
              /\ h[c].step >= 5 => elem[e].waking = h[c].ts /\ h[c].ts # 0

\* A whole wake is in the entry until the task leaves its CPU.
InvWhole ==
    \A t \in Tids : truth[t].whole =>
        /\ task[t].where # "off" /\ \A c \in CPU : ~Wakes(c, t) /\ ~Leaves(c, t)
        /\ ~OnCpu(t) => task[t].state = "running"
        /\ \E e \in Elements :
              /\ Entry(e, t)
              /\ ~elem[e].foreign =>
                    /\ elem[e].waking # 0 /\ elem[e].wakeup >= elem[e].waking
                    /\ OnCpu(t) => elem[e].run >= elem[e].wakeup

\* A snapshot for t in progress: what it has copied so far is true, if
\* nothing disturbs the element e it reads.
Quiet(c, t) == Snaps(c, t) /\ ~h[c].early
CopySane(t, e, lost, step, event) ==
    /\ step \in 1..5 /\ (step \in 2..4 => e # None)
    /\ e = None \/ step <= 2 => event = NoEvent
    /\ ~lost /\ event.waking # 0 => event.waking > task[t].birth
CopyTrue(t, e, step, event) ==
    /\ step = 2 => elem[e].run # 0
    /\ step \in {3, 4} => elem[e].run # 0 /\ WakeKnown(elem[e])
    /\ event.status # 1 => event.run = truth[t].run
    /\ step = 3 => event.status = 3
    /\ step = 4 => event.status = 2
    /\ event.status = 2 => /\ event.waking # 0 /\ event.waking = truth[t].waking
                           /\ event.wakeup = truth[t].wakeup
    /\ step = 5 /\ event.status = 2 /\ event.ctx = TaskContext => event.waker = truth[t].waker
    /\ step = 5 /\ truth[t].whole => event.status = 2
InvSnapshot ==
    /\ \A c \in CPU, t \in Tids : Quiet(c, t) => \A d \in CPU : ~Wakes(d, t)
    /\ \A c \in CPU, t \in Tids :
          Snaps(c, t) => CopySane(t, h[c].elem, h[c].lost, h[c].step, h[c].event)
    /\ \A c \in CPU, t \in Tids, e \in Elements :
          Snaps(c, t) /\ h[c].elem = e /\ ~h[c].lost => elem[e].run <= h[c].ts
    /\ \A c \in CPU, t \in Tids, e \in Elements :
          Quiet(c, t) /\ h[c].elem = e /\ ~h[c].lost /\ ~elem[e].foreign =>
             CopyTrue(t, e, h[c].step, h[c].event)

IInv ==
    /\ InvTypes /\ InvTimes /\ InvSched /\ InvHold
    /\ InvOn /\ InvOff /\ InvAsleep /\ InvWhole /\ InvSnapshot

---------------------------------------------------------------------------
\* What the types say, field by field.
TypeFacts ==
    /\ now \in Nat /\ now >= 1
    /\ \A t \in Tids :
          /\ task[t].birth \in Nat /\ task[t].where \in CPU \cup {"queue", "off"}
          /\ task[t].state \in {"running", "sleeping", "dead"}
          /\ truth[t].whole \in BOOLEAN
    /\ \A e \in Elements :
          /\ elem[e].tid \in Tids \cup {None} /\ elem[e].foreign \in BOOLEAN
          /\ elem[e].birth \in Nat /\ elem[e].waking \in Nat
          /\ elem[e].wakeup \in Nat /\ elem[e].run \in Nat
          /\ elem[e].waker \in Nat
    /\ \A c \in CPU :
          /\ h[c].op \in {"idle", "waking", "switch", "snapshot"}
          /\ h[c].step \in 0..7 /\ h[c].ts \in Nat
          /\ h[c].tid \in Tids \cup {None} /\ h[c].next \in Tids \cup {None}
          /\ h[c].elem \in Elements \cup {None}
          /\ h[c].lost \in BOOLEAN /\ h[c].early \in BOOLEAN

\* The fields of the state have their types.
LEMMA Fields ==
    ASSUME InvTypes
    PROVE  TypeFacts
<1>1. now \in Nat /\ now >= 1
  BY WakeupAssumption DEF InvTypes, Time
<1>2. ASSUME NEW t \in Tids
      PROVE  /\ task[t].birth \in Nat /\ task[t].where \in CPU \cup {"queue", "off"}
             /\ task[t].state \in {"running", "sleeping", "dead"}
             /\ truth[t].whole \in BOOLEAN
  <2>1. task[t] \in TaskType /\ truth[t] \in TruthType
    BY DEF InvTypes
  <2>. QED
    BY <2>1, WakeupAssumption DEF TaskType, TruthType, Time
<1>3. ASSUME NEW e \in Elements
      PROVE  /\ elem[e].tid \in Tids \cup {None} /\ elem[e].foreign \in BOOLEAN
             /\ elem[e].birth \in Nat /\ elem[e].waking \in Nat
             /\ elem[e].wakeup \in Nat /\ elem[e].run \in Nat
             /\ elem[e].waker \in Nat
  <2>1. elem[e] \in ElemType
    BY DEF InvTypes
  <2>. QED
    BY <2>1, WakeupAssumption DEF ElemType, Time
<1>4. ASSUME NEW c \in CPU
      PROVE  /\ h[c].op \in {"idle", "waking", "switch", "snapshot"}
             /\ h[c].step \in 0..7 /\ h[c].ts \in Nat
             /\ h[c].tid \in Tids \cup {None} /\ h[c].next \in Tids \cup {None}
             /\ h[c].elem \in Elements \cup {None}
             /\ h[c].lost \in BOOLEAN /\ h[c].early \in BOOLEAN
  <2>1. h[c] \in HandlerType
    BY DEF InvTypes
  <2>. QED
    BY <2>1, WakeupAssumption DEF HandlerType, Time
<1>. QED
  BY <1>1, <1>2, <1>3, <1>4 DEF TypeFacts

\* The task decides to sleep, not to sleep, or to exit.
LEMMA SetStateInv ==
    ASSUME IInv, NEW t \in Tids, NEW from, NEW to, SetState(t, from, to),
           to \in {"running", "sleeping", "dead"}, to = "dead" => from = "running"
    PROVE  IInv'
<1>0. /\ task[t].where \in CPU /\ h[task[t].where] = Idle /\ task[t].state = from
      /\ to = "dead" => Wakers(t) = {}
      /\ task' = [task EXCEPT ![t].state = to]
      /\ UNCHANGED <<now, elem, h, truth>>
  BY DEF SetState
<1>1. InvTypes /\ TypeFacts
  BY Fields DEF IInv
<1>2. \A u \in Tids : task'[u].birth = task[u].birth /\ task'[u].where = task[u].where
                      /\ task'[u].state = IF u = t THEN to ELSE task[u].state
  BY <1>0, <1>1 DEF InvTypes, TaskType
<1>3. InvTypes'
  BY <1>0, <1>1 DEF InvTypes, TaskType
<1>4. InvTimes'
  BY <1>0, <1>2 DEF IInv, InvTimes
<1>5. InvSched'
  BY <1>0, <1>1, <1>2, WakeupAssumption
     DEF IInv, InvSched, Wakes, Leaves, Enters, Snaps, OnCpu, Wakers, Idle
<1>6. InvHold'
  BY <1>0, <1>2 DEF IInv, InvHold, Leaves, Snaps, Entry
<1>7. InvOn'
  BY <1>0, <1>2 DEF IInv, InvOn, Wakes, Entry, OnCpu, Match
<1>8. InvOff'
  BY <1>0, <1>2 DEF IInv, InvOff, OffEntry, Wakes, Leaves, Entry, OnCpu, Match, Cleared, Left
<1>9. InvAsleep'
  BY <1>0, <1>2 DEF IInv, InvAsleep, Wakes, Leaves, Entry
<1>10. InvWhole'
  BY <1>0, <1>2 DEF IInv, InvWhole, Wakes, Leaves, Entry, OnCpu
<1>11. InvSnapshot'
  BY <1>0, <1>2 DEF IInv, InvSnapshot, Wakes, Snaps, Quiet, CopySane, CopyTrue
<1>. QED
  BY <1>3, <1>4, <1>5, <1>6, <1>7, <1>8, <1>9, <1>10, <1>11 DEF IInv

\* The idle handler.
LEMMA IdleFacts ==
    /\ Idle.op = "idle" /\ Idle.elem = None /\ Idle.ts = 0 /\ Idle.tid = None
    /\ Idle.next = None /\ Idle.lost = FALSE /\ Idle.early = FALSE /\ Idle.step = 0
    /\ Idle.event = NoEvent /\ Idle \in HandlerType /\ NoEvent \in EventType
    /\ NoTruth \in TruthType /\ 0 \in Time
<1>1. 0 \in Time /\ 0 \in Contexts
  BY WakeupAssumption DEF Time, Contexts
<1>2. NoEvent \in EventType
  BY <1>1 DEF NoEvent, EventType
<1>3. NoTruth \in TruthType
  BY <1>1 DEF NoTruth, TruthType
<1>. QED
  BY <1>1, <1>2, <1>3 DEF Idle, HandlerType

\* A snapshot ends.
LEMMA SnapshotEndInv ==
    ASSUME IInv, NEW c \in CPU, SnapshotEnd(c)
    PROVE  IInv'
<1>0. h[c].op = "snapshot" /\ h' = [h EXCEPT ![c] = Idle] /\ UNCHANGED <<now, task, elem, truth>>
  BY DEF SnapshotEnd
<1>1. InvTypes /\ TypeFacts
  BY Fields DEF IInv
<1>2. \A d \in CPU : h'[d] = IF d = c THEN Idle ELSE h[d]
  BY <1>0, <1>1 DEF InvTypes
<1>i. /\ Idle.op = "idle" /\ Idle.elem = None /\ Idle.ts = 0 /\ Idle \in HandlerType
  BY IdleFacts
<1>3. InvTypes'
  BY <1>0, <1>1, <1>i DEF InvTypes
<1>4. InvTimes'
  BY <1>0, <1>1, <1>2, <1>i DEF IInv, InvTimes, TypeFacts
<1>5. InvSched'
  BY <1>0, <1>2, <1>i DEF IInv, InvSched, Wakes, Leaves, Enters, Snaps, OnCpu
<1>6. InvHold'
  BY <1>0, <1>2, <1>i, WakeupAssumption DEF IInv, InvHold, Leaves, Snaps, Entry
<1>7. InvOn'
  BY <1>0, <1>2, <1>i DEF IInv, InvOn, Wakes, Entry, OnCpu, Match
<1>8. InvOff'
  BY <1>0, <1>2, <1>i DEF IInv, InvOff, OffEntry, Wakes, Leaves, Entry, OnCpu, Match, Cleared, Left
<1>9. InvAsleep'
  BY <1>0, <1>2, <1>i DEF IInv, InvAsleep, Wakes, Leaves, Entry
<1>10. InvWhole'
  BY <1>0, <1>2, <1>i DEF IInv, InvWhole, Wakes, Leaves, Entry, OnCpu
<1>11. InvSnapshot'
  BY <1>0, <1>2, <1>i DEF IInv, InvSnapshot, Wakes, Snaps, Quiet, CopySane, CopyTrue
<1>. QED
  BY <1>3, <1>4, <1>5, <1>6, <1>7, <1>8, <1>9, <1>10, <1>11 DEF IInv

\* The snapshot of CPU c goes on to another step with another event.
GoesOn(c, step, event) ==
    /\ h[c].op = "snapshot" /\ step \in 1..5 /\ event \in EventType
    /\ h' = [h EXCEPT ![c].step = step, ![c].event = event]
    /\ UNCHANGED <<now, task, elem, truth>>
Sound(c, step, event) ==
    /\ \A t \in Tids : Snaps(c, t) => CopySane(t, h[c].elem, h[c].lost, step, event)
    /\ \A t \in Tids, e \in Elements :
          Quiet(c, t) /\ h[c].elem = e /\ ~h[c].lost /\ ~elem[e].foreign =>
             CopyTrue(t, e, step, event)

\* It changes nothing but what the snapshot says.
LEMMA SnapshotFrame ==
    ASSUME IInv, NEW c \in CPU, NEW step, NEW event,
           GoesOn(c, step, event), Sound(c, step, event)
    PROVE  IInv'
<1>0. UNCHANGED <<now, task, elem, truth>>
  BY DEF GoesOn
<1>1. InvTypes /\ TypeFacts /\ h \in [CPU -> HandlerType]
  BY Fields DEF IInv, InvTypes
<1>2. /\ \A d \in CPU : d # c => h'[d] = h[d]
      /\ h'[c] = [h[c] EXCEPT !.step = step, !.event = event]
      /\ h[c] \in HandlerType /\ step \in 1..5 /\ event \in EventType
  BY <1>1 DEF GoesOn
<1>3. /\ h'[c].op = h[c].op /\ h'[c].tid = h[c].tid /\ h'[c].next = h[c].next
      /\ h'[c].elem = h[c].elem /\ h'[c].lost = h[c].lost /\ h'[c].early = h[c].early
      /\ h'[c].ts = h[c].ts /\ h'[c].ctx = h[c].ctx
      /\ h'[c].step = step /\ h'[c].event = event
  BY <1>2 DEF HandlerType
<1>4. \A d \in CPU :
        /\ h'[d].op = h[d].op /\ h'[d].tid = h[d].tid /\ h'[d].next = h[d].next
        /\ h'[d].elem = h[d].elem /\ h'[d].lost = h[d].lost /\ h'[d].early = h[d].early
        /\ h'[d].ts = h[d].ts /\ h'[d].ctx = h[d].ctx
        /\ h[d].op # "snapshot" => h'[d].step = h[d].step
  <2>1. h[c].op = "snapshot"
    BY DEF GoesOn
  <2>. QED
    BY <1>2, <1>3, <2>1
<1>5. InvTypes'
  <2>1. h' \in [CPU -> HandlerType]
    <3>1. h'[c] \in HandlerType
      <4>1. step \in 0..7
        BY <1>2
      <4>. QED
        BY <1>2, <4>1 DEF HandlerType
    <3>. QED
      BY <1>1, <3>1 DEF GoesOn
  <2>. QED
    BY <1>0, <1>1, <2>1 DEF InvTypes
<1>6. InvTimes'
  BY <1>0, <1>4 DEF IInv, InvTimes
<1>7. InvSched'
  BY <1>0, <1>4 DEF IInv, InvSched, Wakes, Leaves, Enters, Snaps, OnCpu
<1>8. InvHold'
  BY <1>0, <1>4 DEF IInv, InvHold, Leaves, Snaps, Entry
<1>9. InvOn'
  BY <1>0, <1>4 DEF IInv, InvOn, Wakes, Entry, OnCpu, Match
<1>10. InvOff'
  BY <1>0, <1>4 DEF IInv, InvOff, OffEntry, Wakes, Leaves, Entry, OnCpu, Match, Cleared, Left
<1>11. InvAsleep'
  BY <1>0, <1>4 DEF IInv, InvAsleep, Wakes, Leaves, Entry
<1>12. InvWhole'
  BY <1>0, <1>4 DEF IInv, InvWhole, Wakes, Leaves, Entry, OnCpu
<1>13. InvSnapshot'
  <2>1. \A d \in CPU, t \in Tids : /\ Snaps(d, t)' <=> Snaps(d, t)
                                   /\ Quiet(d, t)' <=> Quiet(d, t)
                                   /\ Wakes(d, t)' <=> Wakes(d, t)
    BY <1>4 DEF Snaps, Quiet, Wakes
  <2>2. ASSUME NEW d \in CPU, NEW t \in Tids, Snaps(d, t)
        PROVE  CopySane(t, h[d].elem, h[d].lost, h'[d].step, h'[d].event)
    BY <1>2, <1>3, <2>2 DEF IInv, InvSnapshot, Sound
  <2>3. ASSUME NEW d \in CPU, NEW t \in Tids, NEW e \in Elements,
               Quiet(d, t), h[d].elem = e, ~h[d].lost, ~elem[e].foreign
        PROVE  CopyTrue(t, e, h'[d].step, h'[d].event)
    BY <1>2, <1>3, <2>3 DEF IInv, InvSnapshot, Sound
  <2>5. ASSUME NEW d \in CPU, NEW t \in Tids, NEW e \in Elements,
               Quiet(d, t)', h'[d].elem = e, ~h'[d].lost, ~elem'[e].foreign
        PROVE  CopyTrue(t, e, h[d].step, h[d].event)'
    BY <1>0, <1>4, <2>1, <2>3, <2>5 DEF CopyTrue
  <2>6. \A d \in CPU, t \in Tids, e \in Elements :
          Snaps(d, t)' /\ h'[d].elem = e /\ ~h'[d].lost => elem'[e].run <= h'[d].ts
    BY <1>0, <1>4, <2>1 DEF IInv, InvSnapshot
  <2>. QED
    BY <1>0, <1>4, <2>1, <2>2, <2>5, <2>6 DEF IInv, InvSnapshot, CopySane
<1>. QED
  BY <1>5, <1>6, <1>7, <1>8, <1>9, <1>10, <1>11, <1>12, <1>13 DEF IInv

\* A step of network_wakeup_snapshot: the entry is read, nothing is written.
LEMMA SnapshotStepInv ==
    ASSUME IInv, NEW c \in CPU, SnapshotStep(c)
    PROVE  IInv'
<1>a. PICK g, x, ev : g = h[c] /\ x = elem[g.elem] /\ ev = g.event
  OBVIOUS
<1>0. g.op = "snapshot" /\ g.step \in 1..4 /\ UNCHANGED <<now, task, elem, truth>>
  BY <1>a DEF SnapshotStep
<1>1. TypeFacts /\ g \in HandlerType /\ ev \in EventType
  BY <1>a, Fields DEF IInv, InvTypes, HandlerType
<1>t. PICK t : t = g.tid /\ t \in Tids
  BY <1>0, <1>a DEF IInv, InvSched
<1>2. Snaps(c, t) /\ CopySane(t, g.elem, g.lost, g.step, ev) /\ \A u \in Tids : Snaps(c, u) => u = t
  BY <1>0, <1>a, <1>t DEF Snaps, IInv, InvSnapshot
<1>3. g.elem # None => g.elem \in Elements /\ x \in ElemType
  BY <1>1, <1>a DEF HandlerType, IInv, InvTypes
<1>4. ASSUME NEW e \in Elements, ~g.early, g.elem = e, ~g.lost, ~x.foreign
      PROVE  /\ CopyTrue(t, e, g.step, ev) /\ x = elem[e]
             /\ x.run # 0 => x.run = truth[t].run
             /\ WakeKnown(x) => Match(e, t)
             /\ truth[t].whole => WakeKnown(x) /\ x.run # 0
             /\ x.run <= now /\ x.run \in Nat /\ x.waking \in Nat /\ x.wakeup \in Nat
  <2>0. Quiet(c, t) /\ h[c].elem = e /\ ~h[c].lost /\ ~elem[e].foreign /\ x = elem[e]
    BY <1>2, <1>4, <1>a DEF Quiet
  <2>1. CopyTrue(t, e, g.step, ev)
    BY <1>a, <1>t, <2>0 DEF IInv, InvSnapshot
  <2>2. Entry(e, t) /\ OnCpu(t)
    BY <1>2, <1>a, <1>t, <2>0 DEF IInv, InvHold, InvSched, Entry, OnCpu, Snaps
  <2>3. /\ x.run # 0 => x.run = truth[t].run
        /\ WakeKnown(x) => Match(e, t)
    BY <1>t, <2>0, <2>2 DEF IInv, InvOn
  <2>4. x.run <= now /\ x.run \in Nat /\ x.waking \in Nat /\ x.wakeup \in Nat
    BY <1>1, <2>0 DEF TypeFacts, IInv, InvTimes
  <2>5. ASSUME truth[t].whole PROVE WakeKnown(x) /\ x.run # 0
    <3>1. PICK f \in Elements : /\ Entry(f, t)
                                /\ ~elem[f].foreign =>
                                     /\ elem[f].waking # 0 /\ elem[f].wakeup >= elem[f].waking
                                     /\ OnCpu(t) => elem[f].run >= elem[f].wakeup
      BY <1>t, <2>5 DEF IInv, InvWhole
    <3>2. f = e
      BY <1>t, <2>2, <3>1, WakeupAssumption DEF Entry, IInv, InvHold
    <3>. QED
      BY <2>0, <2>2, <2>4, <3>1, <3>2 DEF WakeKnown
  <2>. QED
    BY <2>0, <2>1, <2>3, <2>4, <2>5
<1>5. CASE g.step = 1
  <2>a. PICK step : step = IF g.elem # None /\ RunKnown(x, g.ts) THEN 2 ELSE 5
    OBVIOUS
  <2>1. GoesOn(c, step, ev) /\ ev = NoEvent /\ ev.status = 1 /\ ev.waking = 0
    <3>0. h[c].step = 1
      BY <1>5, <1>a
    <3>1. h' = [h EXCEPT ![c].step = IF h[c].elem # None /\ RunKnown(elem[h[c].elem], h[c].ts)
                                     THEN 2 ELSE 5,
                         ![c].event = h[c].event]
      BY <3>0 DEF SnapshotStep
    <3>2. ev = NoEvent
      BY <1>2, <1>5 DEF CopySane
    <3>. QED
      BY <1>0, <1>1, <1>a, <2>a, <3>1, <3>2 DEF GoesOn, NoEvent
  <2>2. CopySane(t, g.elem, g.lost, step, ev)
    BY <2>1, <2>a DEF CopySane
  <2>3. ASSUME NEW e \in Elements, Quiet(c, t), g.elem = e, ~g.lost, ~x.foreign
        PROVE  CopyTrue(t, e, step, ev)
    <3>1. ~g.early
      BY <1>a, <2>3 DEF Quiet
    <3>2. truth[t].whole => RunKnown(x, g.ts)
      <4>1. x.run <= g.ts
        BY <1>2, <1>a, <1>t, <2>3 DEF IInv, InvSnapshot
      <4>. QED
        BY <1>4, <2>3, <3>1, <4>1 DEF RunKnown
    <3>3. g.elem # None
      BY <2>3, WakeupAssumption
    <3>. QED
      BY <1>4, <2>1, <2>3, <2>a, <3>1, <3>2, <3>3 DEF CopyTrue, RunKnown
  <2>. QED
    BY <1>2, <1>a, <2>1, <2>2, <2>3, SnapshotFrame DEF Sound, Quiet
<1>6. CASE g.step = 2
  <2>a. PICK step, event : /\ step = IF WakeKnown(x) THEN 3 ELSE 5
                           /\ event = [ev EXCEPT !.status = 3, !.run = x.run]
    OBVIOUS
  <2>0. g.elem # None /\ ev = NoEvent
    BY <1>2, <1>6 DEF CopySane
  <2>1. event \in EventType /\ event.status = 3 /\ event.run = x.run /\ event.waking = 0
    BY <1>1, <1>3, <2>0, <2>a DEF EventType, ElemType, NoEvent
  <2>2. GoesOn(c, step, event)
    <3>0. h[c].step = 2
      BY <1>6, <1>a
    <3>1. h' = [h EXCEPT ![c].step = IF WakeKnown(elem[h[c].elem]) THEN 3 ELSE 5,
                         ![c].event = [h[c].event EXCEPT !.status = 3,
                                                         !.run = elem[h[c].elem].run]]
      BY <3>0 DEF SnapshotStep
    <3>. QED
      BY <1>0, <1>a, <2>1, <2>a, <3>1 DEF GoesOn
  <2>3. CopySane(t, g.elem, g.lost, step, event)
    BY <2>0, <2>1, <2>a DEF CopySane
  <2>4. ASSUME NEW e \in Elements, Quiet(c, t), g.elem = e, ~g.lost, ~x.foreign
        PROVE  CopyTrue(t, e, step, event)
    <3>1. ~g.early
      BY <1>a, <2>4 DEF Quiet
    <3>2. x.run # 0
      BY <1>4, <1>6, <2>4, <3>1 DEF CopyTrue
    <3>. QED
      BY <1>4, <2>1, <2>4, <2>a, <3>1, <3>2 DEF CopyTrue
  <2>. QED
    BY <1>2, <1>a, <2>2, <2>3, <2>4, SnapshotFrame DEF Sound, Quiet
<1>7. CASE g.step = 3
  <2>a. PICK event : event = [ev EXCEPT !.status = 2, !.waking = x.waking, !.wakeup = x.wakeup]
    OBVIOUS
  <2>0. g.elem # None
    BY <1>2, <1>7 DEF CopySane
  <2>1. event \in EventType /\ event.status = 2 /\ event.run = ev.run
          /\ event.waking = x.waking /\ event.wakeup = x.wakeup
    BY <1>1, <1>3, <2>0, <2>a DEF EventType, ElemType
  <2>2. GoesOn(c, 4, event)
    <3>0. h[c].step = 3
      BY <1>7, <1>a
    <3>1. h' = [h EXCEPT ![c].step = 4,
                         ![c].event = [h[c].event EXCEPT !.status = 2,
                                          !.waking = elem[h[c].elem].waking,
                                          !.wakeup = elem[h[c].elem].wakeup]]
      BY <3>0 DEF SnapshotStep
    <3>. QED
      BY <1>0, <1>a, <2>1, <2>a, <3>1 DEF GoesOn
  <2>3. CopySane(t, g.elem, g.lost, 4, event)
    <3>1. ~g.lost => x.birth = task[t].birth
      BY <1>2, <1>3, <1>a, <1>t, <2>0 DEF IInv, InvHold
    <3>2. x.waking # 0 => x.birth < x.waking
      BY <1>3, <1>a, <2>0 DEF IInv, InvTimes
    <3>3. x.birth \in Nat /\ x.waking \in Nat
      BY <1>1, <1>3, <1>a, <2>0 DEF TypeFacts
    <3>. QED
      BY <2>0, <2>1, <3>1, <3>2, <3>3 DEF CopySane
  <2>4. ASSUME NEW e \in Elements, Quiet(c, t), g.elem = e, ~g.lost, ~x.foreign
        PROVE  CopyTrue(t, e, 4, event)
    <3>1. ~g.early
      BY <1>a, <2>4 DEF Quiet
    <3>2. x.run # 0 /\ WakeKnown(x) /\ ev.run = truth[t].run
      BY <1>4, <1>7, <2>4, <3>1 DEF CopyTrue
    <3>3. Match(e, t) /\ x = elem[e]
      BY <1>4, <2>4, <3>1, <3>2
    <3>. QED
      BY <2>1, <3>2, <3>3 DEF CopyTrue, Match, WakeKnown
  <2>. QED
    BY <1>2, <1>a, <2>2, <2>3, <2>4, SnapshotFrame DEF Sound, Quiet
<1>8. CASE g.step = 4
  <2>a. PICK event : event = [ev EXCEPT !.waker = x.waker, !.ctx = x.ctx]
    OBVIOUS
  <2>0. g.elem # None
    BY <1>2, <1>8 DEF CopySane
  <2>1. event \in EventType /\ event.status = ev.status /\ event.run = ev.run
          /\ event.waking = ev.waking /\ event.wakeup = ev.wakeup
          /\ event.waker = x.waker /\ event.ctx = x.ctx
    BY <1>1, <1>3, <2>0, <2>a DEF EventType, ElemType
  <2>2. GoesOn(c, 5, event)
    <3>0. h[c].step = 4
      BY <1>8, <1>a
    <3>1. h' = [h EXCEPT ![c].step = 5,
                         ![c].event = [h[c].event EXCEPT !.waker = elem[h[c].elem].waker,
                                                         !.ctx = elem[h[c].elem].ctx]]
      BY <3>0 DEF SnapshotStep
    <3>. QED
      BY <1>0, <1>a, <2>1, <2>a, <3>1 DEF GoesOn
  <2>3. CopySane(t, g.elem, g.lost, 5, event)
    BY <1>2, <1>8, <2>0, <2>1 DEF CopySane
  <2>4. ASSUME NEW e \in Elements, Quiet(c, t), g.elem = e, ~g.lost, ~x.foreign
        PROVE  CopyTrue(t, e, 5, event)
    <3>1. ~g.early
      BY <1>a, <2>4 DEF Quiet
    <3>2. WakeKnown(x) /\ ev.status = 2 /\ ev.run = truth[t].run
            /\ ev.waking # 0 /\ ev.waking = truth[t].waking /\ ev.wakeup = truth[t].wakeup
      BY <1>4, <1>8, <2>4, <3>1 DEF CopyTrue
    <3>3. Match(e, t) /\ x = elem[e]
      BY <1>4, <2>4, <3>1, <3>2
    <3>. QED
      BY <2>1, <3>2, <3>3 DEF CopyTrue, Match
  <2>. QED
    BY <1>2, <1>a, <2>2, <2>3, <2>4, SnapshotFrame DEF Sound, Quiet
<1>. QED
  BY <1>0, <1>5, <1>6, <1>7, <1>8

\* bpf_map_lookup_elem finds the only entry of the id.
LEMMA LookupFacts ==
    ASSUME IInv, NEW t \in Tids
    PROVE  /\ Lookup(t) = None \/ (Lookup(t) \in Elements /\ elem[Lookup(t)].tid = t)
           /\ \A e \in Elements : elem[e].tid = t => Lookup(t) = e
<1>1. CASE \E e \in Elements : elem[e].tid = t
  <2>1. Lookup(t) = CHOOSE e \in Elements : elem[e].tid = t
    BY <1>1 DEF Lookup
  <2>2. Lookup(t) \in Elements /\ elem[Lookup(t)].tid = t
    BY <1>1, <2>1
  <2>3. \A e \in Elements : elem[e].tid = t => Lookup(t) = e
    BY <2>2, WakeupAssumption DEF IInv, InvHold
  <2>. QED
    BY <2>2, <2>3
<1>2. CASE ~\E e \in Elements : elem[e].tid = t
  BY <1>2 DEF Lookup
<1>. QED
  BY <1>1, <1>2

\* try_to_wake_up begins, and the entry is looked up.
LEMMA SchedWakingInv ==
    ASSUME IInv, NEW c \in CPU, NEW t \in Tids, NEW ctx \in Contexts, SchedWaking(c, t, ctx)
    PROVE  IInv'
<1>a. PICK l, g : /\ l = Lookup(t)
                  /\ g = [Idle EXCEPT !.op = "waking", !.tid = t, !.ctx = ctx, !.elem = l,
                                      !.step = IF l = None THEN 7 ELSE 1,
                                      !.early = task[t].where # "off" \/ MidSwitch(t)]
  OBVIOUS
<1>0. /\ h[c] = Idle /\ task[t].state = "sleeping" /\ (Wakers(t) = {} \/ task[t].where = c)
      /\ h' = [h EXCEPT ![c] = g]
      /\ truth' = [truth EXCEPT ![t].whole = @ /\ task[t].where \notin CPU]
      /\ UNCHANGED <<now, task, elem>>
  BY <1>a DEF SchedWaking
<1>1. InvTypes /\ TypeFacts /\ h \in [CPU -> HandlerType] /\ truth \in [Tids -> TruthType]
  BY Fields DEF IInv, InvTypes
<1>2. /\ l = None \/ (l \in Elements /\ elem[l].tid = t)
      /\ \A e \in Elements : elem[e].tid = t => l = e
  BY <1>a, LookupFacts
<1>3. /\ g \in HandlerType /\ g.op = "waking" /\ g.tid = t /\ g.next = None /\ g.elem = l
      /\ g.lost = FALSE /\ g.early = (task[t].where # "off" \/ MidSwitch(t))
      /\ g.step = (IF l = None THEN 7 ELSE 1) /\ g.ts = 0
  <2>1. (task[t].where # "off" \/ MidSwitch(t)) \in BOOLEAN
    BY DEF MidSwitch
  <2>2. 0 \in Time /\ NoEvent \in EventType
    BY IdleFacts
  <2>3. /\ g.op = "waking" /\ g.tid = t /\ g.next = None /\ g.elem = l
        /\ g.lost = FALSE /\ g.early = (task[t].where # "off" \/ MidSwitch(t))
        /\ g.step = (IF l = None THEN 7 ELSE 1) /\ g.ts = 0 /\ g.event = NoEvent /\ g.ctx = ctx
    BY <1>a DEF Idle
  <2>4. g = [op |-> g.op, step |-> g.step, tid |-> g.tid, next |-> g.next, elem |-> g.elem,
             lost |-> g.lost, early |-> g.early, ts |-> g.ts, ctx |-> g.ctx, event |-> g.event]
    BY <1>a DEF Idle
  <2>5. g.step \in 0..7 /\ g.elem \in Elements \cup {None} /\ g.early \in BOOLEAN
    BY <1>2, <2>1, <2>3
  <2>6. g \in HandlerType
    BY <2>2, <2>3, <2>4, <2>5 DEF HandlerType
  <2>. QED
    BY <2>3, <2>6
<1>4. \A d \in CPU : h'[d] = IF d = c THEN g ELSE h[d]
  BY <1>0, <1>1
<1>5. \A u \in Tids : /\ truth'[u].waking = truth[u].waking /\ truth'[u].wakeup = truth[u].wakeup
                      /\ truth'[u].run = truth[u].run /\ truth'[u].waker = truth[u].waker
                      /\ truth'[u].whole => truth[u].whole /\ (u = t => ~OnCpu(t))
                      /\ truth'[u] \in TruthType
  <2>1. \A u \in Tids : u # t => truth'[u] = truth[u] /\ truth[u] \in TruthType
    BY <1>0, <1>1
  <2>2. truth'[t] = [truth[t] EXCEPT !.whole = @ /\ task[t].where \notin CPU]
          /\ truth[t] \in TruthType
    BY <1>0, <1>1
  <2>3. /\ truth'[t].waking = truth[t].waking /\ truth'[t].wakeup = truth[t].wakeup
        /\ truth'[t].run = truth[t].run /\ truth'[t].waker = truth[t].waker
        /\ truth'[t].whole = (truth[t].whole /\ task[t].where \notin CPU)
        /\ truth'[t] \in TruthType
    BY <2>2 DEF TruthType
  <2>. QED
    BY <2>1, <2>3 DEF OnCpu
<1>i. Idle.op = "idle" /\ Idle.elem = None
  BY IdleFacts
<1>6. InvTypes'
  <2>1. h' \in [CPU -> HandlerType] /\ truth' \in [Tids -> TruthType]
    BY <1>0, <1>1, <1>3, <1>5
  <2>. QED
    BY <1>0, <1>1, <2>1 DEF InvTypes
<1>7. InvTimes'
  BY <1>0, <1>1, <1>3, <1>4 DEF IInv, InvTimes, TypeFacts
<1>8. InvSched'
  BY <1>0, <1>3, <1>4, <1>i DEF IInv, InvSched, Wakes, Leaves, Enters, Snaps, OnCpu, Wakers
<1>9. InvHold'
  BY <1>0, <1>2, <1>3, <1>4, <1>i, WakeupAssumption DEF IInv, InvHold, Leaves, Snaps, Entry
<1>10. InvOn'
  BY <1>0, <1>2, <1>3, <1>4, <1>5, <1>i, WakeupAssumption
     DEF IInv, InvOn, Wakes, Entry, OnCpu, Match
<1>11. InvOff'
  BY <1>0, <1>2, <1>3, <1>4, <1>5, <1>i, WakeupAssumption
     DEF IInv, InvOff, OffEntry, Wakes, Leaves, Entry, OnCpu, Match, Cleared, Left, Wakers
<1>12. InvAsleep'
  <2>1. ~g.early => task[t].where = "off" /\ \A d \in CPU : ~Leaves(d, t)
    BY <1>3 DEF MidSwitch, Leaves
  <2>2. \A d \in CPU, u \in Tids : Leaves(d, u)' => Leaves(d, u)
    BY <1>3, <1>4 DEF Leaves
  <2>3. ASSUME NEW d \in CPU, NEW u \in Tids, Wakes(d, u)', ~h'[d].early, d # c
        PROVE  /\ task'[u].where = "off" /\ \A b \in CPU : ~Leaves(b, u)'
               /\ \A e \in Elements :
                    Entry(e, u)' /\ h'[d].elem = e /\ ~h'[d].lost /\ ~elem'[e].foreign =>
                    /\ h'[d].step >= 2 => elem'[e].run = 0
                    /\ h'[d].step >= 5 => elem'[e].waking = h'[d].ts /\ h'[d].ts # 0
    <3>1. h'[d] = h[d] /\ Wakes(d, u) /\ ~h[d].early
      BY <1>4, <2>3 DEF Wakes
    <3>2. \A e \in Elements : Entry(e, u)' <=> Entry(e, u)
      BY <1>0 DEF Entry
    <3>. QED
      BY <1>0, <2>2, <3>1, <3>2 DEF IInv, InvAsleep
  <2>4. ASSUME NEW u \in Tids, Wakes(c, u)', ~h'[c].early
        PROVE  /\ task'[u].where = "off" /\ \A b \in CPU : ~Leaves(b, u)'
               /\ \A e \in Elements : h'[c].elem = e => h'[c].step = 1
    <3>1. h'[c] = g /\ u = t
      BY <1>3, <1>4, <2>4 DEF Wakes
    <3>. QED
      BY <1>0, <1>3, <2>1, <2>2, <2>4, <3>1, WakeupAssumption
  <2>. QED
    BY <2>3, <2>4 DEF InvAsleep
<1>13. InvWhole'
  BY <1>0, <1>3, <1>4, <1>5, <1>i DEF IInv, InvWhole, Wakes, Leaves, Entry, OnCpu
<1>14. InvSnapshot'
  BY <1>0, <1>3, <1>4, <1>5, <1>i
     DEF IInv, InvSnapshot, InvSched, Wakes, Snaps, Quiet, CopySane, CopyTrue
<1>. QED
  BY <1>6, <1>7, <1>8, <1>9, <1>10, <1>11, <1>12, <1>13, <1>14 DEF IInv

\* An id gets another task: no entry is of that task.
LEMMA ForkInv ==
    ASSUME IInv, NEW t \in Tids, Fork(t)
    PROVE  IInv'
<1>a. PICK k : k = [birth |-> now + 1, where |-> "queue", state |-> "running"]
  OBVIOUS
<1>0. /\ task[t].state = "dead" /\ task[t].where = "off" /\ ~MidSwitch(t)
      /\ now < MaxTime /\ now' = now + 1 /\ task' = [task EXCEPT ![t] = k]
      /\ truth' = [truth EXCEPT ![t] = NoTruth] /\ UNCHANGED <<elem, h>>
  BY <1>a DEF Fork, Tick
<1>1. InvTypes /\ TypeFacts
  BY Fields DEF IInv
<1>2. k \in TaskType /\ k.birth = now + 1 /\ k.where = "queue" /\ k.state = "running"
        /\ NoTruth \in TruthType /\ now' \in Time \ {0} /\ NoTruth.whole = FALSE
  BY <1>0, <1>1, <1>a, IdleFacts, WakeupAssumption DEF TaskType, Time, TypeFacts, NoTruth
<1>3. \A u \in Tids : /\ task'[u] = IF u = t THEN k ELSE task[u]
                      /\ truth'[u] = IF u = t THEN NoTruth ELSE truth[u]
  BY <1>0, <1>1 DEF InvTypes
<1>4. InvTypes'
  BY <1>0, <1>1, <1>2 DEF InvTypes
<1>5. InvTimes'
  BY <1>0, <1>1, <1>2, <1>3 DEF IInv, InvTimes, TypeFacts
<1>6. \A c \in CPU : ~Wakes(c, t) /\ ~Leaves(c, t) /\ ~Enters(c, t) /\ ~Snaps(c, t)
  BY <1>0, WakeupAssumption DEF IInv, InvSched, MidSwitch, Wakes, Leaves, Enters, Snaps
<1>7. \A e \in Elements, u \in Tids : /\ Entry(e, u)' <=> (u # t /\ Entry(e, u))
  BY <1>0, <1>1, <1>2, <1>3 DEF Entry, IInv, InvTimes, TypeFacts
<1>8. InvSched'
  BY <1>0, <1>2, <1>3, <1>6, WakeupAssumption
     DEF IInv, InvSched, Wakes, Leaves, Enters, Snaps, OnCpu
<1>9. InvHold'
  BY <1>0, <1>3, <1>6, <1>7 DEF IInv, InvHold, Leaves, Snaps
<1>10. InvOn'
  BY <1>0, <1>3, <1>7 DEF IInv, InvOn, Wakes, OnCpu, Match
<1>11. InvOff'
  BY <1>0, <1>3, <1>7 DEF IInv, InvOff, OffEntry, Wakes, Leaves, OnCpu, Match, Cleared, Left
<1>12. InvAsleep'
  BY <1>0, <1>3, <1>6, <1>7 DEF IInv, InvAsleep, Wakes, Leaves
<1>13. InvWhole'
  BY <1>0, <1>2, <1>3, <1>7 DEF IInv, InvWhole, Wakes, Leaves, OnCpu
<1>14. InvSnapshot'
  BY <1>0, <1>3, <1>6 DEF IInv, InvSnapshot, Wakes, Snaps, Quiet, CopySane, CopyTrue
<1>. QED
  BY <1>4, <1>5, <1>8, <1>9, <1>10, <1>11, <1>12, <1>13, <1>14 DEF IInv

\* A store into the element that c holds.
LEMMA StoreFacts ==
    ASSUME IInv, NEW c \in CPU, NEW x \in ElemType, h[c].elem \in Elements,
           x.tid = elem[h[c].elem].tid, x.foreign = elem[h[c].elem].foreign, Store(c, x)
    PROVE  /\ elem' \in [Elements -> ElemType]
           /\ \A e \in Elements : e # h[c].elem => elem'[e] = elem[e]
           /\ elem'[h[c].elem].tid = x.tid /\ elem'[h[c].elem].birth = x.birth
           /\ elem'[h[c].elem].waking = x.waking /\ elem'[h[c].elem].wakeup = x.wakeup
           /\ elem'[h[c].elem].run = x.run /\ elem'[h[c].elem].waker = x.waker
           /\ elem'[h[c].elem].ctx = x.ctx
           /\ elem'[h[c].elem].foreign <=> (x.foreign \/ (h[c].lost /\ x.tid # None))
<1>a. PICK e, y : /\ e = h[c].elem
                  /\ y = [x EXCEPT !.foreign = @ \/ (h[c].lost /\ x.tid # None)]
  OBVIOUS
<1>1. elem' = [elem EXCEPT ![e] = y] /\ elem \in [Elements -> ElemType] /\ e \in Elements
  BY <1>a DEF Store, IInv, InvTypes
<1>2. /\ y \in ElemType /\ y.tid = x.tid /\ y.birth = x.birth /\ y.waking = x.waking
      /\ y.wakeup = x.wakeup /\ y.run = x.run /\ y.waker = x.waker /\ y.ctx = x.ctx
      /\ y.foreign = (x.foreign \/ (h[c].lost /\ x.tid # None))
  BY <1>a DEF ElemType
<1>. QED
  BY <1>1, <1>2, <1>a

\* network_wakeup_clear, field by field.
ClearsTo(x, y, step) ==
    /\ y \in ElemType
    /\ y.tid = x.tid /\ y.birth = x.birth /\ y.foreign = x.foreign
    /\ step = 1 => y.waking = 0 /\ y.wakeup = 0 /\ y.run = 0
    /\ step # 1 => y.waking = x.waking /\ y.wakeup = x.wakeup /\ y.run = x.run
    /\ step = 2 => y.waker = 0
    /\ step # 2 => y.waker = x.waker
    /\ step = 3 => y.ctx = 0
    /\ step # 3 => y.ctx = x.ctx

\* That is what it does.
LEMMA ClearFacts ==
    ASSUME NEW x \in ElemType, NEW step \in 1..3
    PROVE  ClearsTo(x, Clear(x, step), step)
<1>0. 0 \in Time /\ 0 \in Contexts
  BY WakeupAssumption DEF Time, Contexts
<1>1. CASE step = 1
  <2>a. PICK y : y = [x EXCEPT !.waking = 0, !.wakeup = 0, !.run = 0]
    OBVIOUS
  <2>1. Clear(x, step) = y
    BY <1>1, <2>a DEF Clear
  <2>2. y.tid = x.tid /\ y.birth = x.birth /\ y.foreign = x.foreign /\ y.waker = x.waker
          /\ y.ctx = x.ctx /\ y.waking = 0 /\ y.wakeup = 0 /\ y.run = 0
    BY <2>a DEF ElemType
  <2>3. y \in ElemType
    BY <1>0, <2>a DEF ElemType
  <2>. QED
    BY <1>1, <2>1, <2>2, <2>3 DEF ClearsTo
<1>2. CASE step = 2
  <2>1. Clear(x, step) = [x EXCEPT !.waker = 0]
    BY <1>2 DEF Clear
  <2>. QED
    BY <1>0, <1>2, <2>1 DEF ElemType, ClearsTo
<1>3. CASE step = 3
  <2>1. Clear(x, step) = [x EXCEPT !.ctx = 0]
    BY <1>3 DEF Clear
  <2>. QED
    BY <1>0, <1>3, <2>1 DEF ElemType, ClearsTo
<1>. QED
  BY <1>1, <1>2, <1>3

\* A step of network_wakeup_clear for the task that leaves its CPU.
LEMMA SwitchClearInv ==
    ASSUME IInv, NEW c \in CPU, SwitchClear(c)
    PROVE  IInv'
<1>a. PICK g, y : g = h[c] /\ y = Clear(elem[g.elem], g.step)
  OBVIOUS
<1>0. /\ g.op = "switch" /\ g.step \in 1..3 /\ g.elem # None
      /\ Store(c, y) /\ h' = [h EXCEPT ![c].step = @ + 1] /\ UNCHANGED <<now, task, truth>>
  BY <1>a DEF SwitchClear
<1>1. InvTypes /\ TypeFacts /\ h \in [CPU -> HandlerType] /\ g \in HandlerType
  BY <1>a, Fields DEF IInv, InvTypes
<1>e. PICK e0 : e0 = g.elem /\ e0 \in Elements /\ elem[e0] \in ElemType
  BY <1>0, <1>1 DEF InvTypes, HandlerType
<1>2. ClearsTo(elem[e0], y, g.step)
  BY <1>0, <1>a, <1>e, ClearFacts
<1>3. /\ elem' \in [Elements -> ElemType]
      /\ \A e \in Elements : e # e0 => elem'[e] = elem[e]
      /\ elem'[e0].tid = elem[e0].tid /\ elem'[e0].birth = elem[e0].birth
      /\ g.step = 1 => elem'[e0].waking = 0 /\ elem'[e0].wakeup = 0 /\ elem'[e0].run = 0
      /\ g.step # 1 => /\ elem'[e0].waking = elem[e0].waking
                       /\ elem'[e0].wakeup = elem[e0].wakeup /\ elem'[e0].run = elem[e0].run
      /\ g.step # 2 => elem'[e0].waker = elem[e0].waker
      /\ g.step = 3 => elem'[e0].ctx = 0
      /\ g.step # 3 => elem'[e0].ctx = elem[e0].ctx
      /\ elem'[e0].foreign <=> (elem[e0].foreign \/ (g.lost /\ elem[e0].tid # None))
  BY <1>0, <1>2, <1>a, <1>e, StoreFacts DEF ClearsTo
<1>4. /\ \A d \in CPU : d # c => h'[d] = h[d]
      /\ \A d \in CPU :
           /\ h'[d].op = h[d].op /\ h'[d].tid = h[d].tid /\ h'[d].next = h[d].next
           /\ h'[d].elem = h[d].elem /\ h'[d].lost = h[d].lost /\ h'[d].early = h[d].early
           /\ h'[d].ts = h[d].ts /\ h'[d].ctx = h[d].ctx /\ h'[d].event = h[d].event
      /\ h'[c].step = g.step + 1 /\ h'[c] \in HandlerType
  <2>1. /\ \A d \in CPU : d # c => h'[d] = h[d]
        /\ h'[c] = [g EXCEPT !.step = g.step + 1]
    BY <1>0, <1>1, <1>a
  <2>2. g.step + 1 \in 0..7
    BY <1>0
  <2>3. /\ h'[c].op = g.op /\ h'[c].tid = g.tid /\ h'[c].next = g.next
        /\ h'[c].elem = g.elem /\ h'[c].lost = g.lost /\ h'[c].early = g.early
        /\ h'[c].ts = g.ts /\ h'[c].ctx = g.ctx /\ h'[c].event = g.event
        /\ h'[c].step = g.step + 1 /\ h'[c] \in HandlerType
    BY <1>1, <2>1, <2>2 DEF HandlerType
  <2>. QED
    BY <1>a, <2>1, <2>3
<1>t. PICK t0 : t0 = g.tid /\ t0 \in Tids /\ Leaves(c, t0)
  BY <1>0, <1>1, <1>a, <1>e DEF IInv, InvHold, Leaves, HandlerType
\* The entry of t0 is e0, if e0 is not lost, and no other.
<1>5. /\ \A e \in Elements : Entry(e, t0) => e = e0 /\ ~g.lost
      /\ \A t \in Tids : Entry(e0, t) /\ t # t0 => g.lost /\ elem'[e0].foreign
      /\ \A t \in Tids, e \in Elements : Entry(e, t)' <=> Entry(e, t)
      /\ \A t \in Tids : OnCpu(t)' <=> OnCpu(t)
      /\ ~OnCpu(t0)
  <2>1. \A e \in Elements : Entry(e, t0) => e = e0 /\ ~g.lost
    BY <1>a, <1>e, <1>t DEF IInv, InvHold
  <2>2. \A t \in Tids : Entry(e0, t) /\ t # t0 => g.lost /\ elem'[e0].foreign
    <3>1. ~g.lost => elem[e0].tid = t0
      BY <1>a, <1>e, <1>t DEF IInv, InvHold
    <3>. QED
      BY <1>3, <1>t, <3>1, WakeupAssumption DEF Entry
  <2>. QED
    BY <1>0, <1>3, <1>t, <2>1, <2>2 DEF Entry, OnCpu, IInv, InvSched
<1>6. \A d \in CPU, t \in Tids :
        /\ Wakes(d, t)' <=> Wakes(d, t)
        /\ Leaves(d, t)' <=> Leaves(d, t)
        /\ Enters(d, t)' <=> Enters(d, t)
        /\ Snaps(d, t)' <=> Snaps(d, t)
        /\ Wakes(d, t) \/ Snaps(d, t) => d # c /\ h'[d] = h[d]
  BY <1>0, <1>4, <1>a DEF Wakes, Leaves, Enters, Snaps
<1>7. \A t \in Tids : t # t0 => (Cleared(t)' <=> Cleared(t)) /\ (Left(t)' <=> Left(t))
  <2>1. \A t \in Tids : t # t0 => \A d \in CPU : Leaves(d, t) => h'[d] = h[d]
    BY <1>4, <1>a, <1>t DEF Leaves
  <2>. QED
    BY <1>6, <2>1 DEF Cleared, Left
<1>8. InvTypes'
  <2>1. h' \in [CPU -> HandlerType]
    BY <1>0, <1>1, <1>4
  <2>. QED
    BY <1>0, <1>1, <1>3, <2>1 DEF InvTypes
<1>9. InvTimes'
  BY <1>0, <1>1, <1>3, <1>4, <1>e DEF IInv, InvTimes, TypeFacts
<1>10. InvSched'
  BY <1>0, <1>4, <1>5, <1>6 DEF IInv, InvSched
<1>11. InvHold'
  <2>1. \A e \in Elements : elem'[e].tid = elem[e].tid /\ elem'[e].birth = elem[e].birth
    BY <1>3
  <2>. QED
    BY <1>0, <1>4, <1>5, <1>6, <1>a, <2>1 DEF IInv, InvHold
<1>12. InvOn'
  BY <1>0, <1>1, <1>3, <1>4, <1>5, <1>6, <1>e, <1>t DEF IInv, InvOn, Match, WakeKnown, TypeFacts
<1>13. InvOff'
  <2>1. ASSUME NEW t \in Tids, NEW e \in Elements, Entry(e, t), ~OnCpu(t), Cleared(t)', t # t0
        PROVE  OffEntry(t, e)'
    <3>1. OffEntry(t, e)
      BY <1>7, <2>1 DEF IInv, InvOff
    <3>2. CASE e # e0
      BY <1>0, <1>3, <1>6, <1>7, <2>1, <3>1, <3>2 DEF OffEntry, Match
    <3>3. CASE e = e0
      BY <1>0, <1>3, <1>5, <1>6, <2>1, <3>1, <3>3 DEF OffEntry
    <3>. QED
      BY <3>2, <3>3
  <2>2. ASSUME Entry(e0, t0)
        PROVE  Cleared(t0)' => OffEntry(t0, e0)'
    <3>1. CASE g.step = 1
      <4>1. ~Left(t0)'
        BY <1>4, <1>6, <1>t, <3>1 DEF Left
      <4>. QED
        BY <1>3, <3>1, <4>1 DEF OffEntry
    <3>2. CASE g.step \in {2, 3}
      <4>1. OffEntry(t0, e0) /\ (g.step = 2 => ~Left(t0)')
        <5>1. Cleared(t0)
          BY <1>a, <1>t, <3>2 DEF IInv, InvSched, Cleared
        <5>2. g.step = 2 => ~Left(t0)'
          BY <1>4, <1>6, <1>t DEF Left
        <5>. QED
          BY <1>5, <1>e, <1>t, <2>2, <5>1, <5>2 DEF IInv, InvOff
      <4>2. elem'[e0].ctx # TaskContext \/ g.step # 3
        BY <1>3 DEF TaskContext
      <4>3. ~Left(t0)
        BY <1>a, <1>t, <3>2 DEF Left
      <4>. QED
        BY <1>0, <1>3, <1>6, <1>t, <3>2, <4>1, <4>2, <4>3 DEF OffEntry
    <3>. QED
      BY <1>0, <3>1, <3>2
  <2>. QED
    BY <1>5, <1>e, <1>t, <2>1, <2>2 DEF InvOff
<1>14. InvAsleep'
  BY <1>0, <1>3, <1>4, <1>5, <1>6, <1>t DEF IInv, InvAsleep
<1>15. InvWhole'
  BY <1>0, <1>3, <1>5, <1>6, <1>t DEF IInv, InvWhole
<1>16. InvSnapshot'
  <2>1. \A d \in CPU, t \in Tids : Quiet(d, t)' <=> Quiet(d, t)
    BY <1>4, <1>6 DEF Quiet
  <2>2. \A d \in CPU, t \in Tids :
          Snaps(d, t) => CopySane(t, h[d].elem, h[d].lost, h[d].step, h[d].event)'
    BY <1>0, <1>6 DEF IInv, InvSnapshot, CopySane
  <2>3. \A d \in CPU, t \in Tids, e \in Elements :
          Snaps(d, t) /\ h[d].elem = e /\ ~h[d].lost => elem'[e].run <= h[d].ts
    BY <1>1, <1>3, <1>e DEF IInv, InvSnapshot, TypeFacts
  <2>4. ASSUME NEW d \in CPU, NEW t \in Tids, NEW e \in Elements,
               Quiet(d, t), h[d].elem = e, ~h[d].lost, ~elem'[e].foreign
        PROVE  CopyTrue(t, e, h[d].step, h[d].event)'
    <3>1. Entry(e, t) /\ t # t0 /\ h'[d] = h[d]
      BY <1>5, <1>6, <1>t, <2>4 DEF Quiet, IInv, InvHold, InvSched, Entry, Snaps, OnCpu
    <3>2. elem'[e] = elem[e]
      BY <1>3, <1>5, <2>4, <3>1
    <3>3. CopyTrue(t, e, h[d].step, h[d].event)
      BY <2>4, <3>2 DEF IInv, InvSnapshot
    <3>. QED
      BY <1>0, <3>1, <3>2, <3>3 DEF CopyTrue
  <2>. QED
    BY <1>4, <1>6, <2>1, <2>2, <2>3, <2>4 DEF IInv, InvSnapshot
<1>. QED
  BY <1>8, <1>9, <1>10, <1>11, <1>12, <1>13, <1>14, <1>15, <1>16 DEF IInv

\* A step of network_sched_waking, field by field.
WakesTo(x, y, g) ==
    /\ y \in ElemType
    /\ y.tid = x.tid /\ y.birth = x.birth /\ y.foreign = x.foreign
    /\ g.step = 1 => y.waking = 0 /\ y.wakeup = 0 /\ y.run = 0
    /\ g.step # 1 => y.wakeup = x.wakeup /\ y.run = x.run
    /\ g.step = 4 => y.waking = now + 1
    /\ g.step \notin {1, 4} => y.waking = x.waking
    /\ g.step = 5 => y.ctx = g.ctx
    /\ g.step = 6 => y.ctx = x.ctx /\ (x.ctx = TaskContext => y.waker = g.ts)

\* What the step stores.
LEMMA WakingStores ==
    ASSUME IInv, NEW c \in CPU, WakingStep(c), h[c].elem \in Elements
    PROVE  \E y : /\ WakesTo(elem[h[c].elem], y, h[c]) /\ Store(c, y)
                  /\ h[c].step = 4 => now < MaxTime /\ now' = now + 1
                  /\ h[c].step # 4 => now' = now
<1>a. PICK g, x : g = h[c] /\ x = elem[g.elem]
  OBVIOUS
<1>1. x \in ElemType /\ g \in HandlerType /\ now \in Time /\ g.step \in 1..6
  BY <1>a DEF IInv, InvTypes, WakingStep
<1>2. CASE g.step \in 1..3
  <2>0. h[c].step \in 1..3 /\ h[c].step # 4 /\ h[c].step # 5 /\ h[c].step # 6
    BY <1>2, <1>a
  <2>s. Store(c, Clear(elem[h[c].elem], h[c].step)) /\ now' = now
    BY <2>0 DEF WakingStep
  <2>1. Store(c, Clear(x, g.step)) /\ now' = now
    BY <1>a, <2>s
  <2>2. ClearsTo(x, Clear(x, g.step), g.step)
    BY <1>1, <1>2, ClearFacts
  <2>3. WakesTo(x, Clear(x, g.step), g)
    BY <1>2, <2>2 DEF WakesTo, ClearsTo
  <2>. QED
    BY <1>2, <1>a, <2>1, <2>3
<1>3. CASE g.step = 4
  <2>a. PICK y : y = [x EXCEPT !.waking = now + 1]
    OBVIOUS
  <2>1. Store(c, y) /\ now < MaxTime /\ now' = now + 1
    <3>0. h[c].step = 4
      BY <1>3, <1>a
    <3>1. Store(c, [elem[h[c].elem] EXCEPT !.waking = now + 1]) /\ Tick
      BY <3>0 DEF WakingStep
    <3>. QED
      BY <1>a, <2>a, <3>1 DEF Tick
  <2>2. now + 1 \in Time
    BY <1>1, <2>1, WakeupAssumption DEF Time
  <2>3. WakesTo(x, y, g)
    BY <1>1, <1>3, <2>2, <2>a DEF WakesTo, ElemType
  <2>. QED
    BY <1>3, <1>a, <2>1, <2>3
<1>4. CASE g.step = 5
  <2>a. PICK y : y = [x EXCEPT !.ctx = g.ctx]
    OBVIOUS
  <2>1. Store(c, y) /\ now' = now
    <3>0. h[c].step = 5
      BY <1>4, <1>a
    <3>1. Store(c, [elem[h[c].elem] EXCEPT !.ctx = h[c].ctx]) /\ now' = now
      BY <3>0 DEF WakingStep
    <3>. QED
      BY <1>a, <2>a, <3>1
  <2>2. g.ctx \in Contexts
    BY <1>1 DEF HandlerType
  <2>3. WakesTo(x, y, g)
    BY <1>1, <1>4, <2>2, <2>a DEF WakesTo, ElemType
  <2>. QED
    BY <1>4, <1>a, <2>1, <2>3
<1>5. CASE g.step = 6
  <2>a. PICK y : y = IF x.ctx = TaskContext THEN [x EXCEPT !.waker = g.ts] ELSE x
    OBVIOUS
  <2>1. Store(c, y) /\ now' = now
    <3>0. h[c].step = 6
      BY <1>5, <1>a
    <3>1. Store(c, IF elem[h[c].elem].ctx = TaskContext
                   THEN [elem[h[c].elem] EXCEPT !.waker = h[c].ts] ELSE elem[h[c].elem])
            /\ now' = now
      BY <3>0 DEF WakingStep
    <3>. QED
      BY <1>a, <2>a, <3>1
  <2>2. g.ts \in Time
    BY <1>1 DEF HandlerType
  <2>3. WakesTo(x, y, g)
    BY <1>1, <1>5, <2>2, <2>a DEF WakesTo, ElemType
  <2>. QED
    BY <1>5, <1>a, <2>1, <2>3
<1>. QED
  BY <1>1, <1>2, <1>3, <1>4, <1>5

\* A step of network_sched_waking.
LEMMA WakingStepInv ==
    ASSUME IInv, NEW c \in CPU, WakingStep(c)
    PROVE  IInv'
<1>a. PICK g : g = h[c]
  OBVIOUS
<1>0. g.op = "waking" /\ g.step \in 1..6 /\ task' = task /\ truth' = truth
  BY <1>a DEF WakingStep
<1>h. h' = [h EXCEPT ![c].step = @ + 1, ![c].ts = IF h[c].step = 4 THEN now + 1 ELSE @]
  BY DEF WakingStep
<1>1. InvTypes /\ TypeFacts /\ h \in [CPU -> HandlerType] /\ g \in HandlerType /\ g.ts \in Time
  BY <1>a, Fields DEF IInv, InvTypes, HandlerType
<1>t. PICK t0 : t0 = g.tid /\ t0 \in Tids /\ Wakes(c, t0)
  BY <1>0, <1>a DEF IInv, InvSched, Wakes
<1>e. PICK e0 : e0 = g.elem /\ e0 \in Elements /\ elem[e0] \in ElemType
  <2>1. g.elem \in Elements
    BY <1>0, <1>1, <1>a DEF IInv, InvHold, HandlerType
  <2>. QED
    BY <1>1, <2>1 DEF InvTypes
<1>y. PICK y : /\ WakesTo(elem[e0], y, g) /\ Store(c, y)
               /\ g.step = 4 => now < MaxTime /\ now' = now + 1
               /\ g.step # 4 => now' = now
  BY <1>a, <1>e, WakingStores
<1>2. now <= now' /\ now' \in Time \ {0} /\ now \in Nat /\ now' \in Nat
  BY <1>1, <1>y, WakeupAssumption DEF Time, TypeFacts, InvTypes
<1>3. /\ elem' \in [Elements -> ElemType]
      /\ \A e \in Elements : e # e0 => elem'[e] = elem[e]
      /\ elem'[e0].tid = elem[e0].tid /\ elem'[e0].birth = elem[e0].birth
      /\ g.step = 1 => elem'[e0].waking = 0 /\ elem'[e0].wakeup = 0 /\ elem'[e0].run = 0
      /\ g.step # 1 => elem'[e0].wakeup = elem[e0].wakeup /\ elem'[e0].run = elem[e0].run
      /\ g.step = 4 => elem'[e0].waking = now + 1
      /\ g.step \notin {1, 4} => elem'[e0].waking = elem[e0].waking
      /\ g.step = 5 => elem'[e0].ctx = g.ctx
      /\ g.step = 6 => /\ elem'[e0].ctx = elem[e0].ctx
                       /\ elem[e0].ctx = TaskContext => elem'[e0].waker = g.ts
      /\ elem'[e0].foreign <=> (elem[e0].foreign \/ (g.lost /\ elem[e0].tid # None))
  BY <1>a, <1>e, <1>y, StoreFacts DEF WakesTo
<1>4. /\ \A d \in CPU : d # c => h'[d] = h[d]
      /\ \A d \in CPU :
           /\ h'[d].op = h[d].op /\ h'[d].tid = h[d].tid /\ h'[d].next = h[d].next
           /\ h'[d].elem = h[d].elem /\ h'[d].lost = h[d].lost /\ h'[d].early = h[d].early
           /\ h'[d].ctx = h[d].ctx /\ h'[d].event = h[d].event
      /\ h'[c].step = g.step + 1 /\ h'[c] \in HandlerType
      /\ g.step = 4 => h'[c].ts = now + 1
      /\ g.step # 4 => h'[c].ts = g.ts
  <2>a. PICK ts : ts = IF g.step = 4 THEN now + 1 ELSE g.ts
    OBVIOUS
  <2>1. /\ \A d \in CPU : d # c => h'[d] = h[d]
        /\ h'[c] = [g EXCEPT !.step = g.step + 1, !.ts = ts]
    BY <1>1, <1>a, <1>h, <2>a
  <2>2. g.step + 1 \in 0..7 /\ ts \in Time
    BY <1>0, <1>1, <1>2, <1>y, <2>a
  <2>3. /\ h'[c].op = g.op /\ h'[c].tid = g.tid /\ h'[c].next = g.next
        /\ h'[c].elem = g.elem /\ h'[c].lost = g.lost /\ h'[c].early = g.early
        /\ h'[c].ts = ts /\ h'[c].ctx = g.ctx /\ h'[c].event = g.event
        /\ h'[c].step = g.step + 1 /\ h'[c] \in HandlerType
    BY <1>1, <2>1, <2>2 DEF HandlerType
  <2>. QED
    BY <1>a, <2>1, <2>3, <2>a
\* The element is the entry of t0, or lost, or what a former owner of the id left.
<1>5. /\ \A t \in Tids : Entry(e0, t) /\ t # t0 => g.lost
      /\ \A t \in Tids : Entry(e0, t) /\ g.lost => elem'[e0].foreign
      /\ \A t \in Tids, e \in Elements : Entry(e, t)' <=> Entry(e, t)
      /\ \A t \in Tids : OnCpu(t)' <=> OnCpu(t)
  <2>1. ~g.lost => elem[e0].tid = t0
    BY <1>a, <1>e, <1>t DEF IInv, InvHold
  <2>. QED
    BY <1>0, <1>3, <1>t, <2>1, WakeupAssumption DEF Entry, OnCpu
<1>6. \A d \in CPU, t \in Tids :
        /\ Wakes(d, t)' <=> Wakes(d, t)
        /\ Leaves(d, t)' <=> Leaves(d, t)
        /\ Enters(d, t)' <=> Enters(d, t)
        /\ Snaps(d, t)' <=> Snaps(d, t)
        /\ Leaves(d, t) \/ Snaps(d, t) => d # c /\ h'[d] = h[d]
  BY <1>0, <1>4, <1>a DEF Wakes, Leaves, Enters, Snaps
<1>7. \A t \in Tids : (Cleared(t)' <=> Cleared(t)) /\ (Left(t)' <=> Left(t))
  BY <1>6 DEF Cleared, Left
<1>8. InvTypes'
  <2>1. h' \in [CPU -> HandlerType]
    BY <1>1, <1>4, <1>h
  <2>. QED
    BY <1>0, <1>1, <1>2, <1>3, <2>1 DEF InvTypes
<1>9. InvTimes'
  <2>1. \A d \in CPU : h'[d].ts <= now'
    BY <1>1, <1>2, <1>4, <1>a, <1>y DEF IInv, InvTimes, TypeFacts
  <2>. QED
    BY <1>0, <1>1, <1>2, <1>3, <1>e, <1>y, <2>1 DEF IInv, InvTimes, TypeFacts
<1>10. InvSched'
  BY <1>0, <1>4, <1>5, <1>6 DEF IInv, InvSched
<1>11. InvHold'
  <2>1. \A e \in Elements : elem'[e].tid = elem[e].tid /\ elem'[e].birth = elem[e].birth
    BY <1>3
  <2>. QED
    BY <1>0, <1>4, <1>5, <1>6, <1>a, <1>e, <2>1, WakeupAssumption DEF IInv, InvHold
<1>12. InvOn'
  <2>1. ASSUME NEW t \in Tids, Entry(e0, t), OnCpu(t)
        PROVE  /\ elem'[e0].run # 0 => elem'[e0].run = truth[t].run
               /\ ~elem'[e0].foreign => ~WakeKnown(elem'[e0])
               /\ \A d \in CPU : /\ Wakes(d, t) /\ h[d].elem = e0 /\ ~h[d].lost /\ h'[d].step >= 2
                    => ~WakeKnown(elem'[e0])
    <3>1. /\ elem[e0].run # 0 => elem[e0].run = truth[t].run
          /\ \A d \in CPU : Wakes(d, t) /\ h[d].elem = e0 /\ ~h[d].lost /\ h[d].step >= 2
                => ~WakeKnown(elem[e0])
      BY <1>e, <2>1 DEF IInv, InvOn
    <3>2. ~WakeKnown(elem[e0]) \/ g.step \in {1, 4} => ~WakeKnown(elem'[e0])
      <4>1. elem[e0].run <= now /\ elem[e0].run \in Nat /\ elem[e0].wakeup \in Nat
        BY <1>1, <1>e DEF IInv, InvTimes, TypeFacts
      <4>. QED
        BY <1>2, <1>3, <4>1 DEF WakeKnown
    <3>3. g.step # 1 /\ ~g.lost => ~WakeKnown(elem[e0])
      BY <1>0, <1>5, <1>a, <1>e, <1>t, <2>1, <3>1
    <3>4. ~g.lost => ~WakeKnown(elem'[e0])
      BY <3>2, <3>3
    <3>5. \A d \in CPU : Wakes(d, t) /\ h[d].elem = e0 /\ ~h[d].lost /\ h'[d].step >= 2
             => ~WakeKnown(elem'[e0])
      <4>1. \A d \in CPU : d # c /\ Wakes(d, t) /\ h[d].elem = e0 /\ ~h[d].lost /\ h'[d].step >= 2
               => ~WakeKnown(elem[e0])
        BY <1>4, <3>1
      <4>. QED
        BY <1>a, <3>2, <3>4, <4>1
    <3>6. elem'[e0].run # 0 => elem'[e0].run = truth[t].run
      BY <1>3, <3>1
    <3>. QED
      BY <1>5, <2>1, <3>4, <3>5, <3>6
  <2>2. ASSUME NEW t \in Tids, NEW e \in Elements, e # e0, Entry(e, t), OnCpu(t)
        PROVE  /\ elem'[e].run # 0 => elem'[e].run = truth[t].run
               /\ ~elem'[e].foreign /\ WakeKnown(elem'[e]) => Match(e, t)
               /\ \A d \in CPU : Wakes(d, t) /\ h[d].elem = e /\ ~h[d].lost /\ h'[d].step >= 2
                    => ~WakeKnown(elem'[e])
    <3>1. elem'[e] = elem[e] /\ \A d \in CPU : h[d].elem = e => h'[d] = h[d]
      BY <1>3, <1>4, <1>a, <1>e, <2>2
    <3>. QED
      BY <2>2, <3>1 DEF IInv, InvOn
  <2>3. \A t \in Tids, e \in Elements : e # e0 /\ Match(e, t) => Match(e, t)'
    BY <1>0, <1>3 DEF Match
  <2>. QED
    BY <1>0, <1>4, <1>5, <1>6, <2>1, <2>2, <2>3 DEF InvOn
<1>13. InvOff'
  <2>1. ASSUME NEW t \in Tids, NEW e \in Elements, Entry(e, t), ~OnCpu(t), Cleared(t)
        PROVE  OffEntry(t, e)'
    <3>1. OffEntry(t, e)
      BY <2>1 DEF IInv, InvOff
    <3>2. CASE e # e0
      <4>1. \A d \in CPU : h'[d].elem = e => d # c
        BY <1>4, <1>a, <1>e, <3>2
      <4>2. elem[e].waking # 0 /\ ~elem[e].foreign => \A d \in CPU : Wakes(d, t) => d # c
        BY <1>a, <1>e, <3>1, <3>2 DEF OffEntry
      <4>. QED
        BY <1>0, <1>3, <1>4, <1>6, <1>7, <3>1, <3>2, <4>1, <4>2 DEF OffEntry, Match
    <3>3. CASE e = e0
      <4>1. CASE g.lost
        BY <1>0, <1>3, <1>5, <1>6, <2>1, <3>1, <3>3, <4>1 DEF OffEntry
      <4>2. CASE ~g.lost
        <5>1. t = t0 /\ \A d \in CPU : Wakes(d, t) => d = c
          BY <1>5, <1>t, <2>1, <3>3, <4>2 DEF IInv, InvSched, OnCpu
        <5>2. elem[e0].wakeup = 0 /\ elem'[e0].wakeup = 0
          BY <1>3, <1>t, <3>1, <3>3, <5>1 DEF OffEntry
        <5>3. ~elem[e0].foreign /\ elem[e0].waking # 0 => g.step >= 5 /\ elem[e0].waking = g.ts
          BY <1>a, <1>t, <3>1, <3>3, <5>1 DEF OffEntry
        <5>4. ~elem'[e0].foreign /\ elem'[e0].waking # 0 =>
                 h'[c].step >= 5 /\ elem'[e0].waking = h'[c].ts
          BY <1>0, <1>3, <1>4, <5>3
        <5>5. /\ ~elem'[e0].foreign /\ Left(t) /\ h'[c].step >= 6 /\ elem'[e0].ctx = TaskContext
              => h'[c].ctx = TaskContext /\ (h'[c].step = 7 => elem'[e0].waker = h'[c].ts)
          BY <1>0, <1>3, <1>4, <1>a, <1>e, <1>t, <3>1, <3>3, <4>2, <5>1 DEF OffEntry
        <5>. QED
          BY <1>4, <1>6, <1>7, <1>a, <1>e, <1>t, <3>3, <4>2, <5>1, <5>2, <5>4, <5>5 DEF OffEntry
      <4>. QED
        BY <4>1, <4>2
    <3>. QED
      BY <3>2, <3>3
  <2>. QED
    BY <1>5, <1>7, <2>1 DEF InvOff
<1>14. InvAsleep'
  <2>1. ASSUME NEW d \in CPU, NEW t \in Tids, Wakes(d, t), ~h[d].early, NEW e \in Elements,
               Entry(e, t), h[d].elem = e, ~h[d].lost, ~elem'[e].foreign
        PROVE  /\ h'[d].step >= 2 => elem'[e].run = 0
               /\ h'[d].step >= 5 => elem'[e].waking = h'[d].ts /\ h'[d].ts # 0
    <3>1. CASE d # c
      <4>1. e # e0
        <5>1. task[t].where = "off" /\ (e = e0 => t = t0)
          BY <1>5, <2>1 DEF IInv, InvAsleep
        <5>. QED
          BY <1>t, <2>1, <3>1, <5>1, WakeupAssumption DEF IInv, InvSched
      <4>. QED
        BY <1>3, <1>4, <2>1, <3>1, <4>1 DEF IInv, InvAsleep
    <3>2. CASE d = c
      <4>1. e = e0 /\ ~elem[e].foreign /\ h[d] = g
        BY <1>3, <1>a, <1>e, <2>1, <3>2
      <4>2. /\ g.step >= 2 => elem[e].run = 0
            /\ g.step >= 5 => elem[e].waking = g.ts /\ g.ts # 0
        BY <1>a, <2>1, <3>2, <4>1 DEF IInv, InvAsleep
      <4>. QED
        BY <1>0, <1>2, <1>3, <1>4, <3>2, <4>1, <4>2
    <3>. QED
      BY <3>1, <3>2
  <2>. QED
    BY <1>0, <1>4, <1>5, <1>6, <2>1 DEF IInv, InvAsleep
<1>15. InvWhole'
  <2>1. ASSUME NEW t \in Tids, truth[t].whole, NEW e \in Elements, Entry(e, t)
        PROVE  elem'[e].foreign \/ elem'[e] = elem[e]
    <3>1. t # t0
      BY <1>t, <2>1 DEF IInv, InvWhole
    <3>. QED
      BY <1>3, <1>5, <2>1, <3>1
  <2>. QED
    BY <1>0, <1>5, <1>6, <2>1 DEF IInv, InvWhole
<1>16. InvSnapshot'
  <2>1. \A d \in CPU, t \in Tids : Quiet(d, t)' <=> Quiet(d, t)
    BY <1>4, <1>6 DEF Quiet
  <2>2. \A d \in CPU, t \in Tids :
          Snaps(d, t) => CopySane(t, h[d].elem, h[d].lost, h[d].step, h[d].event)'
    BY <1>0, <1>6 DEF IInv, InvSnapshot, CopySane
  <2>3. \A d \in CPU, t \in Tids, e \in Elements :
          Snaps(d, t) /\ h[d].elem = e /\ ~h[d].lost => elem'[e].run <= h[d].ts
    BY <1>1, <1>3, <1>e DEF IInv, InvSnapshot, TypeFacts
  <2>4. ASSUME NEW d \in CPU, NEW t \in Tids, NEW e \in Elements,
               Quiet(d, t), h[d].elem = e, ~h[d].lost, ~elem'[e].foreign
        PROVE  CopyTrue(t, e, h[d].step, h[d].event)'
    <3>1. Entry(e, t) /\ t # t0 /\ h'[d] = h[d]
      BY <1>5, <1>6, <1>t, <2>4 DEF Quiet, IInv, InvHold, InvSnapshot, Entry, Snaps
    <3>2. elem'[e] = elem[e]
      BY <1>3, <1>5, <2>4, <3>1
    <3>3. CopyTrue(t, e, h[d].step, h[d].event)
      BY <2>4, <3>2 DEF IInv, InvSnapshot
    <3>. QED
      BY <1>0, <3>1, <3>2, <3>3 DEF CopyTrue
  <2>. QED
    BY <1>4, <1>6, <2>1, <2>2, <2>3, <2>4 DEF IInv, InvSnapshot
<1>. QED
  BY <1>8, <1>9, <1>10, <1>11, <1>12, <1>13, <1>14, <1>15, <1>16 DEF IInv

\* The CPU goes on with next, or with its idle task.
LEMMA SwitchNextInv ==
    ASSUME IInv, NEW c \in CPU, SwitchNext(c)
    PROVE  IInv'
<1>a. PICK g, n : g = h[c] /\ n = g.next
  OBVIOUS
<1>0. g.op = "switch" /\ (g.step = 4 \/ g.elem = None) /\ h' = [h EXCEPT ![c] = Idle]
  BY <1>a DEF SwitchNext
<1>1. InvTypes /\ TypeFacts /\ h \in [CPU -> HandlerType] /\ task \in [Tids -> TaskType]
        /\ truth \in [Tids -> TruthType] /\ elem \in [Elements -> ElemType]
        /\ n \in Tids \cup {None}
  BY <1>a, Fields DEF IInv, InvTypes, TypeFacts
<1>i. /\ Idle.op = "idle" /\ Idle.elem = None /\ Idle.ts = 0 /\ Idle \in HandlerType
  BY IdleFacts
<1>2. \A d \in CPU : h'[d] = IF d = c THEN Idle ELSE h[d]
  BY <1>0, <1>1
<1>3. h' \in [CPU -> HandlerType]
  BY <1>0, <1>1, <1>i
<1>4. \A d \in CPU, t \in Tids :
        /\ Wakes(d, t)' <=> Wakes(d, t)
        /\ Leaves(d, t)' <=> (d # c /\ Leaves(d, t))
        /\ Enters(d, t)' <=> (d # c /\ Enters(d, t))
        /\ Snaps(d, t)' <=> Snaps(d, t)
        /\ Wakes(d, t) \/ Snaps(d, t) => d # c /\ h'[d] = h[d]
  BY <1>0, <1>2, <1>a, <1>i DEF Wakes, Leaves, Enters, Snaps
\* The entry of the task that c has left was cleared.
<1>5. \A t \in Tids, e \in Elements : Entry(e, t) =>
        (Cleared(t)' <=> Cleared(t)) /\ (Left(t)' <=> Left(t))
  <2>1. ASSUME NEW t \in Tids, NEW e \in Elements, Entry(e, t), Leaves(c, t)
        PROVE  g.step = 4
    BY <1>0, <1>a, <2>1, WakeupAssumption DEF IInv, InvHold
  <2>. QED
    BY <1>2, <1>4, <1>a, <2>1 DEF Cleared, Left
<1>6. CASE n = None
  <2>0. now' = now /\ task' = task /\ truth' = truth /\ elem' = elem
    <3>1. h[c].next = None
      BY <1>6, <1>a
    <3>. QED
      BY <3>1 DEF SwitchNext
  <2>1. /\ \A t \in Tids, e \in Elements : Entry(e, t)' <=> Entry(e, t)
        /\ \A t \in Tids : OnCpu(t)' <=> OnCpu(t)
    BY <2>0 DEF Entry, OnCpu
  <2>3. InvTypes'
    BY <1>1, <1>3, <2>0 DEF InvTypes
  <2>4. InvTimes'
    BY <1>1, <1>2, <1>i, <2>0 DEF IInv, InvTimes, TypeFacts
  <2>5. InvSched'
    <3>1. \A d \in CPU : h'[d].op \in {"switch", "waking", "snapshot"} => h'[d] = h[d]
      BY <1>2, <1>i
    <3>2. \A d \in CPU : /\ h'[d].op = "switch" => \A t \in Tids : task[t].where # d
                         /\ h'[d].op = "waking" => h'[d].tid \in Tids
                         /\ h'[d].op = "snapshot" => h'[d].tid \in Tids
      BY <3>1 DEF IInv, InvSched
    <3>. QED
      BY <1>4, <2>0, <2>1, <3>2 DEF IInv, InvSched
  <2>6. InvHold'
    BY <1>2, <1>4, <1>i, <2>0, <2>1, WakeupAssumption DEF IInv, InvHold
  <2>7. InvOn'
    BY <1>4, <2>0, <2>1 DEF IInv, InvOn, Match
  <2>8. InvOff'
    BY <1>4, <1>5, <2>0, <2>1 DEF IInv, InvOff, OffEntry, Match
  <2>9. InvAsleep'
    BY <1>4, <2>0, <2>1 DEF IInv, InvAsleep
  <2>10. InvWhole'
    BY <1>4, <2>0, <2>1 DEF IInv, InvWhole
  <2>11. InvSnapshot'
    BY <1>4, <2>0 DEF IInv, InvSnapshot, Quiet, CopySane, CopyTrue
  <2>. QED
    BY <2>3, <2>4, <2>5, <2>6, <2>7, <2>8, <2>9, <2>10, <2>11 DEF IInv
<1>7. CASE n # None
  <2>a. PICK l : l = Lookup(n)
    OBVIOUS
  <2>0. /\ n \in Tids /\ now < MaxTime /\ now' = now + 1
        /\ task' = [task EXCEPT ![n].where = c]
        /\ truth' = [truth EXCEPT ![n].run = now + 1]
        /\ elem' = IF l = None THEN elem ELSE [elem EXCEPT ![l].run = now + 1]
    <3>1. h[c].next # None
      BY <1>7, <1>a
    <3>2. /\ Tick
          /\ task' = [task EXCEPT ![h[c].next].where = c]
          /\ truth' = [truth EXCEPT ![h[c].next].run = now + 1]
          /\ elem' = IF Lookup(h[c].next) = None THEN elem
                     ELSE [elem EXCEPT ![Lookup(h[c].next)].run = now + 1]
      BY <3>1 DEF SwitchNext
    <3>. QED
      BY <1>1, <1>7, <1>a, <2>a, <3>2 DEF Tick
  <2>t. now + 1 \in Time /\ now' \in Time \ {0} /\ now \in Nat
    BY <1>1, <2>0, WakeupAssumption DEF Time, TypeFacts
  <2>1. /\ l = None \/ (l \in Elements /\ elem[l].tid = n)
        /\ \A e \in Elements : elem[e].tid = n => l = e
    BY <2>0, <2>a, LookupFacts
  <2>2. /\ \A t \in Tids : /\ task'[t].birth = task[t].birth /\ task'[t].state = task[t].state
                           /\ task'[t].where = IF t = n THEN c ELSE task[t].where
        /\ task' \in [Tids -> TaskType]
    BY <1>1, <2>0 DEF TaskType
  <2>3. /\ \A t \in Tids : /\ truth'[t].waking = truth[t].waking
                           /\ truth'[t].wakeup = truth[t].wakeup
                           /\ truth'[t].waker = truth[t].waker
                           /\ truth'[t].whole = truth[t].whole
                           /\ truth'[t].run = IF t = n THEN now + 1 ELSE truth[t].run
        /\ truth' \in [Tids -> TruthType]
    BY <1>1, <2>0, <2>t DEF TruthType
  <2>4. /\ \A e \in Elements : /\ elem'[e].tid = elem[e].tid /\ elem'[e].birth = elem[e].birth
                               /\ elem'[e].waking = elem[e].waking
                               /\ elem'[e].wakeup = elem[e].wakeup
                               /\ elem'[e].waker = elem[e].waker /\ elem'[e].ctx = elem[e].ctx
                               /\ elem'[e].foreign = elem[e].foreign
                               /\ elem'[e].run = IF elem[e].tid = n THEN now + 1 ELSE elem[e].run
        /\ elem' \in [Elements -> ElemType]
    <3>1. CASE l = None
      BY <1>1, <2>0, <2>1, <3>1, WakeupAssumption
    <3>2. CASE l # None
      <4>1. /\ elem' = [elem EXCEPT ![l].run = now + 1] /\ l \in Elements
            /\ \A e \in Elements : e = l <=> elem[e].tid = n
        BY <2>0, <2>1, <3>2
      <4>. QED
        BY <1>1, <2>t, <4>1 DEF ElemType
    <3>. QED
      BY <3>1, <3>2
  <2>5. /\ Enters(c, n) /\ task[n].where = "queue" /\ ~OnCpu(n)
        /\ \A d \in CPU : ~Leaves(d, n) /\ ~Snaps(d, n) /\ (Enters(d, n) => d = c)
        /\ \A t \in Tids : task[t].where # c
    BY <1>0, <1>a, <2>0, WakeupAssumption DEF IInv, InvSched, Enters, OnCpu
  <2>6. /\ \A t \in Tids, e \in Elements : Entry(e, t)' <=> Entry(e, t)
        /\ \A t \in Tids : OnCpu(t)' <=> (t = n \/ OnCpu(t))
    BY <2>2, <2>4 DEF Entry, OnCpu
  <2>7. InvTypes'
    BY <1>3, <2>2, <2>3, <2>4, <2>t DEF InvTypes
  <2>8. InvTimes'
    BY <1>1, <1>2, <1>i, <2>0, <2>2, <2>4 DEF IInv, InvTimes, TypeFacts
  <2>9. InvSched'
    <3>1. \A d \in CPU : h'[d].op \in {"switch", "waking", "snapshot"}
            => h'[d] = h[d] /\ d # c
      BY <1>2, <1>i
    <3>2. \A d \in CPU : /\ h'[d].op = "switch" => \A t \in Tids : task'[t].where # d
                         /\ h'[d].op = "waking" => h'[d].tid \in Tids
                         /\ h'[d].op = "snapshot" => h'[d].tid \in Tids
      BY <2>2, <3>1 DEF IInv, InvSched
    <3>3. \A t, u \in Tids : OnCpu(t)' /\ task'[t].where = task'[u].where => t = u
      BY <2>2, <2>5, <2>6 DEF IInv, InvSched
    <3>4. \A d \in CPU, t \in Tids :
            /\ Leaves(d, t)' => ~OnCpu(t)' /\ ~Enters(d, t)'
            /\ Enters(d, t)' => task'[t].where = "queue"
            /\ Snaps(d, t)' => task'[t].where = d /\ task'[t].state = "running"
            /\ Wakes(d, t)' => task'[t].state # "dead"
      BY <1>4, <2>2, <2>5, <2>6 DEF IInv, InvSched
    <3>5. \A b, d \in CPU, t \in Tids :
            /\ Leaves(b, t)' /\ Leaves(d, t)' => b = d
            /\ Enters(b, t)' /\ Enters(d, t)' => b = d
            /\ ~(Leaves(b, t)' /\ Enters(d, t)')
            /\ Wakes(b, t)' /\ Wakes(d, t)' => b = d \/ task'[t].where \in {b, d}
      BY <1>4, <2>2, <2>5, WakeupAssumption DEF IInv, InvSched
    <3>6. \A t \in Tids : task'[t].where = "off" => task'[t].state # "running"
      BY <2>2, WakeupAssumption DEF IInv, InvSched
    <3>. QED
      BY <3>2, <3>3, <3>4, <3>5, <3>6 DEF InvSched
  <2>10. InvHold'
    BY <1>2, <1>4, <1>i, <2>2, <2>4, <2>6, WakeupAssumption DEF IInv, InvHold
  <2>11. InvOn'
    <3>1. ASSUME NEW e \in Elements, Entry(e, n)
          PROVE  /\ elem'[e].run = truth'[n].run
                 /\ ~elem'[e].foreign /\ WakeKnown(elem'[e]) => Match(e, n)'
                 /\ WakeKnown(elem'[e]) => \A d \in CPU : ~Wakes(d, n)
      <4>1. OffEntry(n, e) /\ elem[e].tid = n
        BY <2>0, <2>5, <3>1 DEF IInv, InvOff, Cleared, Entry
      <4>2. WakeKnown(elem'[e]) => elem[e].waking # 0 /\ elem[e].wakeup # 0
        BY <1>1, <2>4 DEF WakeKnown, TypeFacts
      <4>3. Match(e, n)' <=> Match(e, n)
        BY <2>0, <2>3, <2>4 DEF Match
      <4>. QED
        BY <2>0, <2>3, <2>4, <4>1, <4>2, <4>3 DEF OffEntry
    <3>2. ASSUME NEW t \in Tids, NEW e \in Elements, Entry(e, t), OnCpu(t), t # n
          PROVE  /\ elem'[e].run # 0 => elem'[e].run = truth'[t].run
                 /\ ~elem'[e].foreign /\ WakeKnown(elem'[e]) => Match(e, t)'
                 /\ \A d \in CPU : Wakes(d, t) /\ h[d].elem = e /\ ~h[d].lost /\ h[d].step >= 2
                       => ~WakeKnown(elem'[e])
      <4>1. elem[e].tid # n
        BY <3>2 DEF Entry
      <4>2. (WakeKnown(elem'[e]) <=> WakeKnown(elem[e])) /\ (Match(e, t)' <=> Match(e, t))
        BY <2>3, <2>4, <4>1 DEF WakeKnown, Match
      <4>. QED
        BY <2>3, <2>4, <3>2, <4>1, <4>2 DEF IInv, InvOn
    <3>. QED
      BY <1>4, <2>0, <2>6, <3>1, <3>2 DEF InvOn
  <2>12. InvOff'
    <3>1. ASSUME NEW t \in Tids, NEW e \in Elements, Entry(e, t), t # n, OffEntry(t, e)
          PROVE  OffEntry(t, e)'
      <4>1. (Left(t)' <=> Left(t)) /\ (Match(e, t)' <=> Match(e, t))
        BY <1>5, <2>3, <2>4, <3>1 DEF Match
      <4>. QED
        BY <1>4, <2>2, <2>4, <3>1, <4>1 DEF OffEntry
    <3>. QED
      BY <1>5, <2>6, <3>1 DEF IInv, InvOff
  <2>13. InvAsleep'
    <3>1. ASSUME NEW d \in CPU, NEW t \in Tids, Wakes(d, t), ~h[d].early
          PROVE  t # n
      BY <2>5, <3>1 DEF IInv, InvAsleep
    <3>2. \A t \in Tids, e \in Elements : Entry(e, t) /\ t # n => elem'[e].run = elem[e].run
      BY <2>4 DEF Entry
    <3>. QED
      BY <1>4, <2>2, <2>4, <2>6, <3>1, <3>2 DEF IInv, InvAsleep
  <2>14. InvWhole'
    <3>1. ASSUME NEW t \in Tids, truth[t].whole
          PROVE  \E e \in Elements :
                   /\ Entry(e, t)
                   /\ ~elem'[e].foreign =>
                        /\ elem'[e].waking # 0 /\ elem'[e].wakeup >= elem'[e].waking
                        /\ OnCpu(t)' => elem'[e].run >= elem'[e].wakeup
      <4>1. PICK e \in Elements :
               /\ Entry(e, t)
               /\ ~elem[e].foreign =>
                    /\ elem[e].waking # 0 /\ elem[e].wakeup >= elem[e].waking
                    /\ OnCpu(t) => elem[e].run >= elem[e].wakeup
        BY <3>1 DEF IInv, InvWhole
      <4>2. elem[e].tid = t /\ elem[e].wakeup <= now /\ elem[e].wakeup \in Nat
        BY <1>1, <4>1 DEF Entry, IInv, InvTimes, TypeFacts
      <4>3. t = n => elem'[e].run >= elem'[e].wakeup
        BY <2>4, <2>t, <4>2
      <4>. QED
        BY <2>4, <2>6, <4>1, <4>2, <4>3
    <3>2. \A t \in Tids : truth[t].whole =>
            /\ task'[t].where # "off" /\ \A d \in CPU : ~Wakes(d, t) /\ ~Leaves(d, t)
            /\ ~OnCpu(t) => task[t].state = "running"
      BY <2>2, <2>5, WakeupAssumption DEF IInv, InvWhole
    <3>. QED
      BY <1>4, <2>2, <2>3, <2>6, <3>1, <3>2 DEF InvWhole
  <2>15. InvSnapshot'
    <3>1. \A d \in CPU, t \in Tids : Snaps(d, t) => t # n
      BY <2>5
    <3>2. \A d \in CPU, t \in Tids : Quiet(d, t)' <=> Quiet(d, t)
      BY <1>4 DEF Quiet
    <3>3. \A d \in CPU, t \in Tids :
            Snaps(d, t) => CopySane(t, h[d].elem, h[d].lost, h[d].step, h[d].event)'
      BY <1>4, <2>2 DEF IInv, InvSnapshot, CopySane
    <3>4. ASSUME NEW d \in CPU, NEW t \in Tids, NEW e \in Elements,
                 Snaps(d, t), h[d].elem = e, ~h[d].lost
          PROVE  elem'[e].run = elem[e].run
      BY <2>4, <3>1, <3>4 DEF IInv, InvHold, Snaps
    <3>5. ASSUME NEW d \in CPU, NEW t \in Tids, NEW e \in Elements,
                 Quiet(d, t), h[d].elem = e, ~h[d].lost, ~elem'[e].foreign
          PROVE  CopyTrue(t, e, h[d].step, h[d].event)'
      <4>1. CopyTrue(t, e, h[d].step, h[d].event) /\ h'[d] = h[d] /\ t # n
              /\ elem'[e].run = elem[e].run
        BY <1>4, <2>4, <3>1, <3>4, <3>5 DEF IInv, InvSnapshot, Quiet
      <4>. QED
        BY <2>3, <2>4, <4>1 DEF CopyTrue, WakeKnown
    <3>6. \A d \in CPU, t \in Tids, e \in Elements :
            Snaps(d, t)' /\ h'[d].elem = e /\ ~h'[d].lost => elem'[e].run <= h'[d].ts
      BY <1>4, <3>4 DEF IInv, InvSnapshot
    <3>7. \A d \in CPU, t \in Tids : Quiet(d, t)' => \A b \in CPU : ~Wakes(b, t)'
      BY <1>4, <3>2 DEF IInv, InvSnapshot
    <3>8. \A d \in CPU, t \in Tids : Quiet(d, t) => h'[d] = h[d]
      BY <1>4 DEF Quiet
    <3>. QED
      BY <1>4, <3>2, <3>3, <3>5, <3>6, <3>7, <3>8 DEF InvSnapshot
  <2>. QED
    BY <2>7, <2>8, <2>9, <2>10, <2>11, <2>12, <2>13, <2>14, <2>15 DEF IInv
<1>. QED
  BY <1>6, <1>7

\* The task is runnable, and network_sched_wakeup.
LEMMA SchedWakeupInv ==
    ASSUME IInv, NEW c \in CPU, SchedWakeup(c)
    PROVE  IInv'
<1>a. PICK g, t0, l, w :
        /\ g = h[c] /\ t0 = g.tid /\ l = Lookup(t0)
        /\ w = [waking |-> g.ts, wakeup |-> now + 1, run |-> 0,
                waker |-> IF g.ctx = TaskContext THEN g.ts ELSE 0,
                whole |-> ~g.early /\ ~g.lost /\ SameTask(g.elem, t0)]
  OBVIOUS
<1>0. /\ g.op = "waking" /\ g.step = 7 /\ ~MidSwitch(t0) /\ now < MaxTime /\ now' = now + 1
      /\ task' = [task EXCEPT ![t0].state = "running",
                              ![t0].where = IF @ = "off" THEN "queue" ELSE @]
      /\ elem' = IF l # None /\ WakeExpected(elem[l])
                 THEN [elem EXCEPT ![l].wakeup = now + 1] ELSE elem
      /\ truth' = IF task[t0].where \in CPU THEN truth ELSE [truth EXCEPT ![t0] = w]
      /\ h' = [h EXCEPT ![c] = Idle]
  BY <1>a DEF SchedWakeup, Tick
<1>1. InvTypes /\ TypeFacts /\ h \in [CPU -> HandlerType] /\ task \in [Tids -> TaskType]
        /\ truth \in [Tids -> TruthType] /\ elem \in [Elements -> ElemType]
        /\ g \in HandlerType /\ g.ts \in Time /\ g.early \in BOOLEAN /\ g.lost \in BOOLEAN
  BY <1>a, Fields DEF IInv, InvTypes, HandlerType
<1>t. t0 \in Tids /\ Wakes(c, t0)
  BY <1>0, <1>a DEF IInv, InvSched, Wakes
<1>n. now + 1 \in Time /\ now' \in Time \ {0} /\ now' = now + 1 /\ now \in Nat
  BY <1>0, <1>1, WakeupAssumption DEF Time, TypeFacts
<1>i. Idle.op = "idle" /\ Idle.elem = None /\ Idle.ts = 0 /\ Idle \in HandlerType /\ 0 \in Time
  BY IdleFacts
<1>2. /\ l = None \/ (l \in Elements /\ elem[l].tid = t0)
      /\ \A e \in Elements : elem[e].tid = t0 => l = e
  BY <1>a, <1>t, LookupFacts
<1>3. /\ \A d \in CPU : h'[d] = IF d = c THEN Idle ELSE h[d]
      /\ h' \in [CPU -> HandlerType]
  BY <1>0, <1>1, <1>i
<1>4. /\ \A t \in Tids : t # t0 => task'[t] = task[t]
      /\ \A t \in Tids : task'[t].birth = task[t].birth
      /\ task'[t0].state = "running"
      /\ task'[t0].where = IF task[t0].where = "off" THEN "queue" ELSE task[t0].where
      /\ task' \in [Tids -> TaskType]
  <2>a. PICK k : k = [task[t0] EXCEPT !.state = "running",
                                      !.where = IF @ = "off" THEN "queue" ELSE @]
    OBVIOUS
  <2>1. task' = [task EXCEPT ![t0] = k]
    BY <1>0, <2>a
  <2>2. /\ k.birth = task[t0].birth /\ k.state = "running" /\ k \in TaskType
        /\ k.where = IF task[t0].where = "off" THEN "queue" ELSE task[t0].where
    BY <1>1, <1>t, <2>a DEF TaskType
  <2>. QED
    BY <1>1, <1>t, <2>1, <2>2
<1>5. /\ w \in TruthType /\ w.waking = g.ts /\ w.wakeup = now + 1
      /\ w.waker = (IF g.ctx = TaskContext THEN g.ts ELSE 0)
      /\ w.whole = (~g.early /\ ~g.lost /\ SameTask(g.elem, t0))
  <2>1. (~g.early /\ ~g.lost /\ SameTask(g.elem, t0)) \in BOOLEAN
    BY DEF SameTask
  <2>2. /\ w.waking = g.ts /\ w.wakeup = now + 1 /\ w.run = 0
        /\ w.waker = (IF g.ctx = TaskContext THEN g.ts ELSE 0)
        /\ w.whole = (~g.early /\ ~g.lost /\ SameTask(g.elem, t0))
    BY <1>a
  <2>3. w.waker \in Time /\ w.whole \in BOOLEAN
    BY <1>1, <1>i, <2>1, <2>2
  <2>4. w = [waking |-> w.waking, wakeup |-> w.wakeup, run |-> w.run,
             waker |-> w.waker, whole |-> w.whole]
    BY <1>a
  <2>. QED
    BY <1>1, <1>i, <1>n, <2>2, <2>3, <2>4 DEF TruthType
<1>6. /\ \A t \in Tids : t # t0 \/ OnCpu(t0) => truth'[t] = truth[t]
      /\ ~OnCpu(t0) => truth'[t0] = w
      /\ truth' \in [Tids -> TruthType]
  <2>1. CASE OnCpu(t0)
    BY <1>0, <1>1, <2>1 DEF OnCpu
  <2>2. CASE ~OnCpu(t0)
    <3>1. truth' = [truth EXCEPT ![t0] = w]
      BY <1>0, <2>2 DEF OnCpu
    <3>. QED
      BY <1>1, <1>5, <1>t, <2>2, <3>1
  <2>. QED
    BY <2>1, <2>2
<1>7. /\ \A e \in Elements : /\ elem'[e].tid = elem[e].tid /\ elem'[e].birth = elem[e].birth
                             /\ elem'[e].waking = elem[e].waking /\ elem'[e].run = elem[e].run
                             /\ elem'[e].waker = elem[e].waker /\ elem'[e].ctx = elem[e].ctx
                             /\ elem'[e].foreign = elem[e].foreign
                             /\ elem'[e].wakeup = IF elem[e].tid = t0 /\ WakeExpected(elem[e])
                                                  THEN now + 1 ELSE elem[e].wakeup
      /\ \A e \in Elements : elem[e].tid # t0 => elem'[e] = elem[e]
      /\ elem' \in [Elements -> ElemType]
  <2>1. CASE l = None \/ ~WakeExpected(elem[l])
    <3>1. elem' = elem
      BY <1>0, <2>1
    <3>. QED
      BY <1>1, <1>2, <2>1, <3>1, WakeupAssumption
  <2>2. CASE l # None /\ WakeExpected(elem[l])
    <3>1. /\ elem' = [elem EXCEPT ![l].wakeup = now + 1] /\ l \in Elements
          /\ \A e \in Elements : e = l <=> elem[e].tid = t0
      BY <1>0, <1>2, <2>2
    <3>. QED
      BY <1>1, <1>n, <2>2, <3>1 DEF ElemType
  <2>. QED
    BY <2>1, <2>2
<1>8. /\ \A d \in CPU : ~Leaves(d, t0) /\ ~Enters(d, t0)
      /\ \A d \in CPU, t \in Tids :
           /\ Wakes(d, t)' <=> (d # c /\ Wakes(d, t))
           /\ Leaves(d, t)' <=> Leaves(d, t)
           /\ Enters(d, t)' <=> Enters(d, t)
           /\ Snaps(d, t)' <=> Snaps(d, t)
           /\ Leaves(d, t) \/ Snaps(d, t) => d # c /\ h'[d] = h[d]
           /\ Wakes(d, t)' => h'[d] = h[d]
           /\ Wakes(c, t) => t = t0
  BY <1>0, <1>3, <1>a, <1>i, <1>t DEF Wakes, Leaves, Enters, Snaps, MidSwitch
<1>9. /\ \A t \in Tids, e \in Elements : Entry(e, t)' <=> Entry(e, t)
      /\ \A t \in Tids : OnCpu(t)' <=> OnCpu(t)
      /\ \A t \in Tids : (Cleared(t)' <=> Cleared(t)) /\ (Left(t)' <=> Left(t))
      /\ ~OnCpu(t0) => \A d \in CPU : ~Wakes(d, t0)'
  <2>1. \A t \in Tids, e \in Elements : Entry(e, t)' <=> Entry(e, t)
    BY <1>4, <1>7 DEF Entry
  <2>2. \A t \in Tids : OnCpu(t)' <=> OnCpu(t)
    BY <1>4, WakeupAssumption DEF OnCpu
  <2>3. \A t \in Tids : (Cleared(t)' <=> Cleared(t)) /\ (Left(t)' <=> Left(t))
    BY <1>8 DEF Cleared, Left
  <2>4. ~OnCpu(t0) => \A d \in CPU : ~Wakes(d, t0)'
    BY <1>8, <1>t DEF IInv, InvSched, OnCpu
  <2>. QED
    BY <2>1, <2>2, <2>3, <2>4
<1>10. InvTypes'
  BY <1>3, <1>4, <1>6, <1>7, <1>n DEF InvTypes
<1>11. InvTimes'
  <2>1. \A t \in Tids : task'[t].birth <= now'
    BY <1>1, <1>4, <1>n DEF IInv, InvTimes, TypeFacts
  <2>2. \A e \in Elements :
          /\ elem'[e].birth <= now' /\ elem'[e].waking <= now' /\ elem'[e].wakeup <= now'
          /\ elem'[e].run <= now'
          /\ elem'[e].waking # 0 => elem'[e].birth < elem'[e].waking
    BY <1>1, <1>7, <1>n DEF IInv, InvTimes, TypeFacts
  <2>3. \A d \in CPU : h'[d].ts <= now'
    BY <1>1, <1>3, <1>i, <1>n DEF IInv, InvTimes, TypeFacts
  <2>. QED
    BY <2>1, <2>2, <2>3 DEF InvTimes
<1>12. InvSched'
  <2>1. \A d \in CPU : h'[d].op \in {"switch", "waking", "snapshot"} => h'[d] = h[d]
    BY <1>3, <1>i
  <2>2. \A t \in Tids, d \in CPU : task'[t].where = d <=> task[t].where = d
    BY <1>4, WakeupAssumption
  <2>3. \A d \in CPU : /\ h'[d].op = "switch" => \A t \in Tids : task'[t].where # d
                       /\ h'[d].op = "waking" => h'[d].tid \in Tids
                       /\ h'[d].op = "snapshot" => h'[d].tid \in Tids
    BY <2>1, <2>2 DEF IInv, InvSched
  <2>4. \A t, u \in Tids : OnCpu(t)' /\ task'[t].where = task'[u].where => t = u
    BY <1>4, WakeupAssumption DEF IInv, InvSched, OnCpu
  <2>5. \A d \in CPU, t \in Tids :
          /\ Leaves(d, t)' => ~OnCpu(t)' /\ ~Enters(d, t)'
          /\ Enters(d, t)' => task'[t].where = "queue"
          /\ Snaps(d, t)' => task'[t].where = d /\ task'[t].state = "running"
          /\ Wakes(d, t)' => task'[t].state # "dead"
    BY <1>4, <1>8, <1>9, <2>2 DEF IInv, InvSched
  <2>6. \A b, d \in CPU, t \in Tids :
          /\ Leaves(b, t)' /\ Leaves(d, t)' => b = d
          /\ Enters(b, t)' /\ Enters(d, t)' => b = d
          /\ ~(Leaves(b, t)' /\ Enters(d, t)')
          /\ Wakes(b, t)' /\ Wakes(d, t)' => b = d \/ task'[t].where \in {b, d}
    BY <1>8, <2>2 DEF IInv, InvSched
  <2>7. \A t \in Tids : task'[t].where = "off" => task'[t].state # "running"
    BY <1>4 DEF IInv, InvSched
  <2>. QED
    BY <2>3, <2>4, <2>5, <2>6, <2>7 DEF InvSched
<1>13. InvHold'
  BY <1>3, <1>4, <1>7, <1>8, <1>9, <1>i, WakeupAssumption DEF IInv, InvHold
<1>14. InvOn'
  <2>1. ASSUME NEW t \in Tids, NEW e \in Elements, Entry(e, t), OnCpu(t), NEW d \in CPU
        PROVE  /\ elem'[e].run # 0 => elem'[e].run = truth'[t].run
               /\ ~elem'[e].foreign /\ WakeKnown(elem'[e]) => Match(e, t)'
               /\ Wakes(d, t)' /\ h'[d].elem = e /\ ~h'[d].lost /\ h'[d].step >= 2
                     => ~WakeKnown(elem'[e])
    <3>1. truth'[t] = truth[t]
      BY <1>6, <2>1
    <3>2. /\ elem[e].run # 0 => elem[e].run = truth[t].run
          /\ ~elem[e].foreign /\ WakeKnown(elem[e]) => Match(e, t)
          /\ Wakes(d, t) /\ h[d].elem = e /\ ~h[d].lost /\ h[d].step >= 2
                     => ~WakeKnown(elem[e])
      BY <2>1 DEF IInv, InvOn
    <3>3. WakeKnown(elem'[e]) => WakeKnown(elem[e]) /\ elem'[e].wakeup = elem[e].wakeup
      BY <1>1, <1>7, <1>n DEF WakeKnown, WakeExpected, TypeFacts
    <3>4. elem'[e].wakeup = elem[e].wakeup /\ Match(e, t) => Match(e, t)'
      BY <1>7, <3>1 DEF Match
    <3>. QED
      BY <1>7, <1>8, <3>1, <3>2, <3>3, <3>4
  <2>. QED
    BY <1>9, <2>1 DEF InvOn
<1>15. InvOff'
  <2>1. ASSUME NEW t \in Tids, NEW e \in Elements, Entry(e, t), t # t0, OffEntry(t, e)
        PROVE  OffEntry(t, e)'
    <3>1. elem'[e] = elem[e] /\ truth'[t] = truth[t] /\ task'[t] = task[t]
      BY <1>4, <1>6, <1>7, <2>1 DEF Entry
    <3>2. \A d \in CPU : /\ Wakes(d, t)' <=> Wakes(d, t)
                         /\ Wakes(d, t) => h'[d] = h[d]
      BY <1>8, <2>1
    <3>. QED
      BY <1>8, <1>9, <2>1, <3>1, <3>2 DEF OffEntry, Match
  <2>2. ASSUME NEW e \in Elements, Entry(e, t0), ~OnCpu(t0), OffEntry(t0, e)
        PROVE  OffEntry(t0, e)'
    <3>1. truth'[t0] = w /\ elem[e].tid = t0
      BY <1>6, <2>2 DEF Entry
    <3>2. elem[e].wakeup = 0
      BY <1>t, <2>2 DEF OffEntry
    <3>3. ~elem[e].foreign /\ elem[e].waking # 0 /\ elem'[e].wakeup # 0 => Match(e, t0)'
      <4>1. ASSUME ~elem[e].foreign, elem[e].waking # 0, elem'[e].wakeup # 0
            PROVE  Match(e, t0)'
        <5>1. elem'[e].wakeup = now + 1
          BY <1>7, <3>2, <4>1
        <5>2. elem[e].waking = g.ts /\ g.elem = e /\ ~g.lost
          BY <1>a, <1>t, <2>2, <4>1 DEF OffEntry
        <5>3. elem[e].ctx = TaskContext => g.ctx = TaskContext /\ elem[e].waker = g.ts
          <6>1. Left(t0)
            BY <1>8 DEF Left
          <6>. QED
            BY <1>0, <1>a, <1>t, <2>2, <4>1, <5>2, <6>1 DEF OffEntry
        <5>. QED
          BY <1>5, <1>7, <3>1, <5>1, <5>2, <5>3 DEF Match
      <4>. QED
        BY <4>1
    <3>. QED
      BY <1>4, <1>7, <1>8, <1>9, <1>t, <2>2, <3>3 DEF OffEntry
  <2>. QED
    BY <1>9, <1>t, <2>1, <2>2 DEF IInv, InvOff
<1>16. InvAsleep'
  <2>1. ASSUME NEW d \in CPU, NEW t \in Tids, Wakes(d, t)', ~h'[d].early
        PROVE  t # t0 /\ Wakes(d, t) /\ ~h[d].early /\ h'[d] = h[d]
    <3>1. Wakes(d, t) /\ h'[d] = h[d] /\ task[t].where = "off"
      BY <1>8, <2>1 DEF IInv, InvAsleep
    <3>. QED
      BY <1>9, <2>1, <3>1, WakeupAssumption DEF OnCpu
  <2>. QED
    BY <1>4, <1>7, <1>8, <1>9, <2>1 DEF IInv, InvAsleep
<1>17. InvWhole'
  <2>1. ASSUME NEW t \in Tids, t # t0, truth'[t].whole
        PROVE  /\ task'[t].where # "off" /\ \A d \in CPU : ~Wakes(d, t)' /\ ~Leaves(d, t)'
               /\ ~OnCpu(t)' => task'[t].state = "running"
               /\ \E e \in Elements :
                    /\ Entry(e, t)'
                    /\ ~elem'[e].foreign =>
                         /\ elem'[e].waking # 0 /\ elem'[e].wakeup >= elem'[e].waking
                         /\ OnCpu(t)' => elem'[e].run >= elem'[e].wakeup
    <3>1. truth'[t] = truth[t] /\ task'[t] = task[t]
            /\ \A e \in Elements : Entry(e, t) => elem'[e] = elem[e]
      BY <1>4, <1>6, <1>7, <2>1 DEF Entry
    <3>. QED
      BY <1>8, <1>9, <2>1, <3>1 DEF IInv, InvWhole
  <2>2. ASSUME truth'[t0].whole
        PROVE  /\ task'[t0].where = "queue" /\ ~OnCpu(t0)
               /\ \E e \in Elements :
                    /\ Entry(e, t0)
                    /\ ~elem'[e].foreign =>
                         elem'[e].waking # 0 /\ elem'[e].wakeup >= elem'[e].waking
    <3>1. ~OnCpu(t0)
      BY <1>6, <1>t, <2>2 DEF IInv, InvWhole
    <3>2. ~g.early /\ ~g.lost /\ SameTask(g.elem, t0)
      BY <1>5, <1>6, <2>2, <3>1
    <3>3. task[t0].where = "off"
      BY <1>a, <1>t, <3>2 DEF IInv, InvAsleep
    <3>4. PICK e \in Elements : e = g.elem
      BY <1>1, <3>2 DEF SameTask, HandlerType
    <3>5. Entry(e, t0)
      BY <1>a, <3>2, <3>4 DEF SameTask, Entry, IInv, InvHold
    <3>6. ASSUME ~elem[e].foreign
          PROVE  elem'[e].waking # 0 /\ elem'[e].wakeup >= elem'[e].waking
      <4>1. elem[e].run = 0 /\ elem[e].waking = g.ts /\ g.ts # 0
        BY <1>0, <1>a, <1>t, <3>2, <3>4, <3>5, <3>6 DEF IInv, InvAsleep
      <4>2. elem'[e].wakeup = now + 1
        BY <1>7, <3>5, <4>1 DEF WakeExpected, Entry
      <4>3. elem[e].waking <= now /\ elem[e].waking \in Nat
        BY <1>1 DEF IInv, InvTimes, TypeFacts
      <4>. QED
        BY <1>7, <1>n, <4>1, <4>2, <4>3
    <3>. QED
      BY <1>4, <1>7, <3>1, <3>3, <3>4, <3>5, <3>6
  <2>. QED
    BY <1>4, <1>8, <1>9, <2>1, <2>2 DEF InvWhole
<1>18. InvSnapshot'
  <2>1. \A d \in CPU, t \in Tids : Quiet(d, t)' <=> Quiet(d, t)
    BY <1>8 DEF Quiet
  <2>2. \A d \in CPU, t \in Tids :
          Snaps(d, t) => CopySane(t, h[d].elem, h[d].lost, h[d].step, h[d].event)'
    BY <1>4, <1>8 DEF IInv, InvSnapshot, CopySane
  <2>3. ASSUME NEW d \in CPU, NEW t \in Tids, NEW e \in Elements,
               Quiet(d, t), h[d].elem = e, ~h[d].lost, ~elem'[e].foreign
        PROVE  CopyTrue(t, e, h[d].step, h[d].event)'
    <3>1. t # t0
      BY <1>t, <2>3 DEF IInv, InvSnapshot
    <3>2. elem'[e] = elem[e] /\ truth'[t] = truth[t] /\ h'[d] = h[d]
      BY <1>6, <1>7, <1>8, <2>3, <3>1 DEF IInv, InvHold, Quiet, Snaps
    <3>3. CopyTrue(t, e, h[d].step, h[d].event)
      BY <2>3, <3>2 DEF IInv, InvSnapshot
    <3>. QED
      BY <3>2, <3>3 DEF CopyTrue
  <2>4. \A d \in CPU, t \in Tids, e \in Elements :
          Snaps(d, t)' /\ h'[d].elem = e /\ ~h'[d].lost => elem'[e].run <= h'[d].ts
    BY <1>7, <1>8 DEF IInv, InvSnapshot
  <2>5. \A d \in CPU, t \in Tids : Quiet(d, t)' => \A b \in CPU : ~Wakes(b, t)'
    BY <1>8, <2>1 DEF IInv, InvSnapshot
  <2>6. \A d \in CPU, t \in Tids : Quiet(d, t) => h'[d] = h[d]
    BY <1>8 DEF Quiet
  <2>. QED
    BY <1>8, <2>1, <2>2, <2>3, <2>4, <2>5, <2>6 DEF InvSnapshot
<1>. QED
  BY <1>10, <1>11, <1>12, <1>13, <1>14, <1>15, <1>16, <1>17, <1>18 DEF IInv

\* What Losing does to the handlers.
LEMMA LosingFacts ==
    ASSUME NEW hs \in [CPU -> HandlerType], NEW gone
    PROVE  /\ Losing(hs, gone) \in [CPU -> HandlerType]
           /\ \A d \in CPU :
                LET x == Losing(hs, gone)[d]
                IN /\ x.op = hs[d].op /\ x.step = hs[d].step /\ x.tid = hs[d].tid
                   /\ x.next = hs[d].next /\ x.elem = hs[d].elem /\ x.early = hs[d].early
                   /\ x.ts = hs[d].ts /\ x.ctx = hs[d].ctx /\ x.event = hs[d].event
                   /\ x.lost <=> (hs[d].lost \/ hs[d].elem \in gone)
                   /\ hs[d].elem \notin gone => x = hs[d]
<1>1. ASSUME NEW d \in CPU
      PROVE  LET x == Losing(hs, gone)[d]
             IN /\ x.op = hs[d].op /\ x.step = hs[d].step /\ x.tid = hs[d].tid
                /\ x.next = hs[d].next /\ x.elem = hs[d].elem /\ x.early = hs[d].early
                /\ x.ts = hs[d].ts /\ x.ctx = hs[d].ctx /\ x.event = hs[d].event
                /\ x.lost <=> (hs[d].lost \/ hs[d].elem \in gone)
                /\ hs[d].elem \notin gone => x = hs[d]
                /\ x \in HandlerType
  <2>1. hs[d] \in HandlerType
    OBVIOUS
  <2>2. CASE hs[d].elem \in gone
    <3>1. Losing(hs, gone)[d] = [hs[d] EXCEPT !.lost = TRUE]
      BY <2>2 DEF Losing
    <3>. QED
      BY <2>1, <2>2, <3>1 DEF HandlerType
  <2>3. CASE hs[d].elem \notin gone
    <3>1. Losing(hs, gone)[d] = hs[d]
      BY <2>3 DEF Losing
    <3>. QED
      BY <2>1, <2>3, <3>1
  <2>. QED
    BY <2>2, <2>3
<1>2. Losing(hs, gone) \in [CPU -> HandlerType]
  BY <1>1 DEF Losing
<1>. QED
  BY <1>1, <1>2

\* What Forgetting does to the history.
LEMMA ForgettingFacts ==
    ASSUME InvTypes, NEW history \in [Tids -> TruthType], NEW gone
    PROVE  /\ Forgetting(history, gone) \in [Tids -> TruthType]
           /\ \A t \in Tids :
                LET x == Forgetting(history, gone)[t]
                IN /\ x.waking = history[t].waking /\ x.wakeup = history[t].wakeup
                   /\ x.run = history[t].run /\ x.waker = history[t].waker
                   /\ x.whole => history[t].whole /\ \A e \in gone : elem[e].tid # t
<1>1. ASSUME NEW t \in Tids
      PROVE  LET x == Forgetting(history, gone)[t]
             IN /\ x.waking = history[t].waking /\ x.wakeup = history[t].wakeup
                /\ x.run = history[t].run /\ x.waker = history[t].waker
                /\ x.whole => history[t].whole /\ \A e \in gone : elem[e].tid # t
                /\ x \in TruthType
  <2>1. history[t] \in TruthType
    OBVIOUS
  <2>2. CASE \E e \in gone : elem[e].tid = t
    <3>1. Forgetting(history, gone)[t] = [history[t] EXCEPT !.whole = FALSE]
      BY <2>2 DEF Forgetting
    <3>. QED
      BY <2>1, <3>1 DEF TruthType
  <2>3. CASE ~\E e \in gone : elem[e].tid = t
    <3>1. Forgetting(history, gone)[t] = history[t]
      BY <2>3 DEF Forgetting
    <3>. QED
      BY <2>1, <2>3, <3>1
  <2>. QED
    BY <2>2, <2>3
<1>2. Forgetting(history, gone) \in [Tids -> TruthType]
  BY <1>1 DEF Forgetting
<1>. QED
  BY <1>1, <1>2

\* The LRU map takes an element away.
LEMMA EvictInv ==
    ASSUME IInv, NEW e0 \in Elements, Evict(e0)
    PROVE  IInv'
<1>a. PICK t0 : t0 = elem[e0].tid
  OBVIOUS
<1>0. /\ t0 # None
      /\ elem' = [elem EXCEPT ![e0].tid = None]
      /\ now' = now /\ task' = task
  BY <1>a DEF Evict
<1>h. h' = Losing(h, {e0}) /\ truth' = Forgetting(truth, {e0})
  BY DEF Evict
<1>1. InvTypes /\ TypeFacts /\ h \in [CPU -> HandlerType]
        /\ truth \in [Tids -> TruthType] /\ elem \in [Elements -> ElemType] /\ t0 \in Tids
  BY <1>0, <1>a, Fields DEF IInv, InvTypes, TypeFacts
<1>2. /\ h' \in [CPU -> HandlerType]
      /\ \A d \in CPU :
           /\ h'[d].op = h[d].op /\ h'[d].step = h[d].step /\ h'[d].tid = h[d].tid
           /\ h'[d].next = h[d].next /\ h'[d].elem = h[d].elem /\ h'[d].early = h[d].early
           /\ h'[d].ts = h[d].ts /\ h'[d].ctx = h[d].ctx /\ h'[d].event = h[d].event
           /\ h'[d].lost <=> (h[d].lost \/ h[d].elem = e0)
  BY <1>1, <1>h, LosingFacts
<1>3. /\ \A t \in Tids : /\ truth'[t].waking = truth[t].waking
                         /\ truth'[t].wakeup = truth[t].wakeup
                         /\ truth'[t].run = truth[t].run /\ truth'[t].waker = truth[t].waker
                         /\ truth'[t].whole => truth[t].whole /\ t # t0
      /\ truth' \in [Tids -> TruthType]
  BY <1>1, <1>a, <1>h, ForgettingFacts
<1>4. /\ \A e \in Elements : /\ elem'[e].tid = IF e = e0 THEN None ELSE elem[e].tid
                             /\ elem'[e].birth = elem[e].birth
                             /\ elem'[e].waking = elem[e].waking /\ elem'[e].run = elem[e].run
                             /\ elem'[e].waker = elem[e].waker /\ elem'[e].ctx = elem[e].ctx
                             /\ elem'[e].foreign = elem[e].foreign
                             /\ elem'[e].wakeup = elem[e].wakeup
                             /\ e # e0 => elem'[e] = elem[e]
      /\ elem' \in [Elements -> ElemType]
  BY <1>0, <1>1 DEF ElemType
<1>5. \A d \in CPU, t \in Tids :
        /\ Wakes(d, t)' <=> Wakes(d, t)
        /\ Leaves(d, t)' <=> Leaves(d, t)
        /\ Enters(d, t)' <=> Enters(d, t)
        /\ Snaps(d, t)' <=> Snaps(d, t)
        /\ Quiet(d, t)' <=> Quiet(d, t)
  BY <1>2 DEF Wakes, Leaves, Enters, Snaps, Quiet
<1>6. /\ \A t \in Tids, e \in Elements : Entry(e, t)' <=> (e # e0 /\ Entry(e, t))
      /\ \A t \in Tids : OnCpu(t)' <=> OnCpu(t)
      /\ \A t \in Tids : (Cleared(t)' <=> Cleared(t)) /\ (Left(t)' <=> Left(t))
      /\ \A t \in Tids, e \in Elements : Match(e, t)' <=> Match(e, t)
  <2>1. \A t \in Tids, e \in Elements : Entry(e, t)' <=> (e # e0 /\ Entry(e, t))
    BY <1>0, <1>4, WakeupAssumption DEF Entry
  <2>2. \A t \in Tids : (Cleared(t)' <=> Cleared(t)) /\ (Left(t)' <=> Left(t))
    BY <1>2, <1>5 DEF Cleared, Left
  <2>3. \A t \in Tids, e \in Elements : Match(e, t)' <=> Match(e, t)
    BY <1>3, <1>4 DEF Match
  <2>. QED
    BY <1>0, <2>1, <2>2, <2>3 DEF OnCpu
<1>7. InvTypes'
  BY <1>0, <1>1, <1>2, <1>3, <1>4 DEF InvTypes
<1>8. InvTimes'
  BY <1>0, <1>2, <1>4 DEF IInv, InvTimes
<1>9. InvSched'
  BY <1>0, <1>2, <1>5, <1>6 DEF IInv, InvSched
<1>10. InvHold'
  BY <1>0, <1>2, <1>4, <1>5, <1>6 DEF IInv, InvHold
<1>11. InvOn'
  BY <1>2, <1>3, <1>4, <1>5, <1>6 DEF IInv, InvOn
<1>12. InvOff'
  BY <1>0, <1>2, <1>4, <1>5, <1>6 DEF IInv, InvOff, OffEntry
<1>13. InvAsleep'
  BY <1>0, <1>2, <1>4, <1>5, <1>6 DEF IInv, InvAsleep
<1>14. InvWhole'
  <2>1. \A t \in Tids, e \in Elements : Entry(e, t) /\ t # t0 => e # e0
    BY <1>a DEF Entry
  <2>. QED
    BY <1>0, <1>3, <1>4, <1>5, <1>6, <2>1 DEF IInv, InvWhole
<1>15. InvSnapshot'
  <2>1. ASSUME NEW d \in CPU, NEW t \in Tids, Snaps(d, t)
        PROVE  CopySane(t, h[d].elem, h[d].lost, h[d].step, h[d].event)'
    BY <1>0, <1>2, <2>1 DEF IInv, InvSnapshot, CopySane
  <2>2. ASSUME NEW d \in CPU, NEW t \in Tids, NEW e \in Elements,
               Quiet(d, t), h'[d].elem = e, ~h'[d].lost, ~elem'[e].foreign
        PROVE  CopyTrue(t, e, h[d].step, h[d].event)'
    <3>1. CopyTrue(t, e, h[d].step, h[d].event) /\ elem'[e] = elem[e]
            /\ h'[d].step = h[d].step /\ h'[d].event = h[d].event
      BY <1>2, <1>4, <2>2 DEF IInv, InvSnapshot
    <3>. QED
      BY <1>3, <3>1 DEF CopyTrue
  <2>3. \A d \in CPU, t \in Tids, e \in Elements :
          Snaps(d, t)' /\ h'[d].elem = e /\ ~h'[d].lost => elem'[e].run <= h'[d].ts
    BY <1>2, <1>4, <1>5 DEF IInv, InvSnapshot
  <2>4. \A d \in CPU, t \in Tids : Quiet(d, t)' => \A b \in CPU : ~Wakes(b, t)'
    BY <1>5 DEF IInv, InvSnapshot
  <2>. QED
    BY <1>5, <2>1, <2>2, <2>3, <2>4 DEF InvSnapshot
<1>. QED
  BY <1>7, <1>8, <1>9, <1>10, <1>11, <1>12, <1>13, <1>14, <1>15 DEF IInv

\* What network_wakeup_current does to the handlers and to the history: c holds
\* x, the elements of gone were taken from their keys.
Hold(c, handler, history, x, gone) ==
    /\ h' = [Losing(h, gone) EXCEPT ![c] = [handler EXCEPT !.elem = x]]
    /\ truth' = Forgetting(history, gone)
Held(c, handler, history, x, gone) ==
    /\ h' \in [CPU -> HandlerType] /\ truth' \in [Tids -> TruthType]
    /\ h'[c] = [handler EXCEPT !.elem = x]
    /\ \A d \in CPU : d # c =>
          /\ h'[d].op = h[d].op /\ h'[d].step = h[d].step /\ h'[d].tid = h[d].tid
          /\ h'[d].next = h[d].next /\ h'[d].elem = h[d].elem /\ h'[d].early = h[d].early
          /\ h'[d].ts = h[d].ts /\ h'[d].ctx = h[d].ctx /\ h'[d].event = h[d].event
          /\ h'[d].lost <=> (h[d].lost \/ h[d].elem \in gone)
    /\ \A u \in Tids :
          /\ truth'[u].waking = history[u].waking /\ truth'[u].wakeup = history[u].wakeup
          /\ truth'[u].run = history[u].run /\ truth'[u].waker = history[u].waker
          /\ truth'[u].whole => history[u].whole /\ \A e \in gone : elem[e].tid # u

\* And to the map.
Taken(c, t, handler, history, x, gone) ==
    /\ Held(c, handler, history, x, gone)
    /\ elem' \in [Elements -> ElemType]
    /\ \A e \in Elements : e \notin gone => elem'[e] = elem[e]
    /\ \A e \in gone : e # x =>
          /\ elem'[e].tid = None /\ elem'[e].birth = elem[e].birth
          /\ elem'[e].waking = elem[e].waking /\ elem'[e].wakeup = elem[e].wakeup
          /\ elem'[e].run = elem[e].run
    /\ x \in gone =>
          /\ elem'[x].tid = t /\ elem'[x].birth = task[t].birth /\ elem'[x].waking = 0
          /\ elem'[x].wakeup = 0 /\ elem'[x].run = 0
    /\ x \in Elements /\ x \notin gone => Entry(x, t)
    /\ x = None => gone = {}
    /\ \A e \in Elements : Entry(e, t) => e = x /\ e \notin gone
    /\ \A e \in Elements : x # None /\ elem'[e].tid = t => e = x

\* That is what it does.
LEMMA CurrentFacts ==
    ASSUME IInv, NEW c \in CPU, NEW t \in Tids, NEW handler \in HandlerType,
           NEW history \in [Tids -> TruthType], Current(c, t, handler, history)
    PROVE  \E x \in Elements \cup {None}, gone \in SUBSET Elements :
              Taken(c, t, handler, history, x, gone)
<1>a. PICK old : old = Lookup(t)
  OBVIOUS
<1>1. InvTypes /\ TypeFacts /\ h \in [CPU -> HandlerType] /\ elem \in [Elements -> ElemType]
  BY Fields DEF IInv, InvTypes
<1>2. /\ old = None \/ (old \in Elements /\ elem[old].tid = t)
      /\ \A e \in Elements : elem[e].tid = t => old = e
  BY <1>a, LookupFacts
<1>3. ASSUME NEW x \in Elements \cup {None}, NEW gone \in SUBSET Elements,
             Hold(c, handler, history, x, gone)
      PROVE  Held(c, handler, history, x, gone)
  <2>a. PICK hs, y : hs = Losing(h, gone) /\ y = [handler EXCEPT !.elem = x]
    OBVIOUS
  <2>1. hs \in [CPU -> HandlerType] /\ \A d \in CPU :
                  /\ hs[d].op = h[d].op /\ hs[d].step = h[d].step /\ hs[d].tid = h[d].tid
                  /\ hs[d].next = h[d].next /\ hs[d].elem = h[d].elem /\ hs[d].early = h[d].early
                  /\ hs[d].ts = h[d].ts /\ hs[d].ctx = h[d].ctx /\ hs[d].event = h[d].event
                  /\ hs[d].lost <=> (h[d].lost \/ h[d].elem \in gone)
    BY <1>1, <2>a, LosingFacts
  <2>2. y \in HandlerType
    BY <2>a DEF HandlerType
  <2>3. h' = [hs EXCEPT ![c] = y]
    BY <1>3, <2>a DEF Hold
  <2>4. h' \in [CPU -> HandlerType] /\ h'[c] = y /\ \A d \in CPU : d # c => h'[d] = hs[d]
    BY <2>1, <2>2, <2>3
  <2>5. /\ truth' \in [Tids -> TruthType]
        /\ \A u \in Tids :
             /\ truth'[u].waking = history[u].waking /\ truth'[u].wakeup = history[u].wakeup
             /\ truth'[u].run = history[u].run /\ truth'[u].waker = history[u].waker
             /\ truth'[u].whole => history[u].whole /\ \A e \in gone : elem[e].tid # u
    BY <1>1, <1>3, ForgettingFacts DEF Hold
  <2>. QED
    BY <2>1, <2>4, <2>5, <2>a DEF Held
<1>4. \/ SameTask(old, t) /\ elem' = elem /\ Hold(c, handler, history, old, {})
      \/ ~SameTask(old, t) /\ elem' = elem /\ Hold(c, handler, history, None, {})
      \/ /\ ~SameTask(old, t)
         /\ \E new \in Elements \ {old} :
               /\ Hold(c, handler, history, new, {new, old} \ {None})
               /\ elem' = Inserted(t, old, new)
  BY <1>a DEF Current, Hold
<1>5. CASE SameTask(old, t) /\ elem' = elem /\ Hold(c, handler, history, old, {})
  <2>1. Entry(old, t) /\ old \in Elements /\ \A e \in Elements : Entry(e, t) => e = old
    BY <1>2, <1>5 DEF Entry, SameTask
  <2>2. Held(c, handler, history, old, {})
    BY <1>3, <1>5, <2>1
  <2>3. Taken(c, t, handler, history, old, {})
    BY <1>1, <1>2, <1>5, <2>1, <2>2, WakeupAssumption DEF Taken
  <2>. QED
    BY <2>1, <2>3
<1>6. CASE ~SameTask(old, t) /\ elem' = elem /\ Hold(c, handler, history, None, {})
  <2>1. \A e \in Elements : ~Entry(e, t)
    BY <1>2, <1>6, WakeupAssumption DEF Entry, SameTask
  <2>2. Held(c, handler, history, None, {})
    BY <1>3, <1>6
  <2>3. Taken(c, t, handler, history, None, {})
    BY <1>1, <1>6, <2>1, <2>2, WakeupAssumption DEF Taken
  <2>. QED
    BY <2>3
<1>7. CASE /\ ~SameTask(old, t)
           /\ \E new \in Elements \ {old} :
                 /\ Hold(c, handler, history, new, {new, old} \ {None})
                 /\ elem' = Inserted(t, old, new)
  <2>n. PICK new \in Elements \ {old} :
          /\ Hold(c, handler, history, new, {new, old} \ {None})
          /\ elem' = Inserted(t, old, new)
    BY <1>7
  <2>g. PICK gone : gone = {new, old} \ {None} /\ gone \in SUBSET Elements
    BY <1>2
  <2>1. \A e \in Elements : ~Entry(e, t)
    BY <1>2, <1>7, WakeupAssumption DEF Entry, SameTask
  <2>2. Held(c, handler, history, new, gone)
    <3>1. Hold(c, handler, history, new, gone) /\ new \in Elements \cup {None}
      BY <2>g, <2>n
    <3>. QED
      BY <1>3, <2>g, <3>1
  <2>a. PICK f : f = Fresh(t)
    OBVIOUS
  <2>f. f \in ElemType /\ f.tid = t /\ f.birth = task[t].birth
          /\ f.waking = 0 /\ f.wakeup = 0 /\ f.run = 0
    <3>1. task[t].birth \in Time /\ 0 \in Time /\ 0 \in Contexts
      BY IdleFacts DEF IInv, InvTypes, TaskType, Contexts
    <3>. QED
      BY <2>a, <3>1 DEF Fresh, ElemType
  <2>3. /\ elem'[new] = f
        /\ old \in Elements => elem'[old] = [elem[old] EXCEPT !.tid = None]
        /\ \A e \in Elements : e # new /\ e # old => elem'[e] = elem[e]
        /\ elem' = [e \in Elements |-> elem'[e]]
    <3>1. elem' = [e \in Elements |-> CASE e = new -> f
                                        [] e = old -> [elem[e] EXCEPT !.tid = None]
                                        [] OTHER -> elem[e]]
      BY <2>a, <2>n DEF Inserted
    <3>. QED
      BY <2>n, <3>1
  <2>4. old \in Elements => /\ elem'[old] \in ElemType /\ elem'[old].tid = None
                            /\ elem'[old].birth = elem[old].birth
                            /\ elem'[old].waking = elem[old].waking
                            /\ elem'[old].wakeup = elem[old].wakeup
                            /\ elem'[old].run = elem[old].run
    <3>1. old \in Elements => elem[old] \in ElemType
      BY <1>1
    <3>. QED
      BY <2>3, <3>1 DEF ElemType
  <2>5. \A e \in Elements : elem'[e] \in ElemType
    BY <1>1, <2>3, <2>4, <2>f
  <2>6. elem' \in [Elements -> ElemType]
    BY <2>3, <2>5
  <2>7. \A e \in Elements : elem'[e].tid = t => e = new
    BY <1>2, <2>3, <2>4, WakeupAssumption
  <2>8. Taken(c, t, handler, history, new, gone)
    <3>1. /\ \A e : e \in gone <=> e = new \/ (e = old /\ old \in Elements)
          /\ new \in Elements /\ new # old /\ new # None
      BY <1>2, <2>g, WakeupAssumption
    <3>2. \A e \in Elements : e \notin gone => elem'[e] = elem[e]
      BY <2>3, <3>1
    <3>3. \A e \in gone : e # new =>
            /\ elem'[e].tid = None /\ elem'[e].birth = elem[e].birth
            /\ elem'[e].waking = elem[e].waking /\ elem'[e].wakeup = elem[e].wakeup
            /\ elem'[e].run = elem[e].run
      BY <2>4, <3>1
    <3>4. /\ elem'[new].tid = t /\ elem'[new].birth = task[t].birth /\ elem'[new].waking = 0
          /\ elem'[new].wakeup = 0 /\ elem'[new].run = 0
      BY <2>3, <2>f
    <3>5. new \in gone
      BY <3>1
    <3>. QED
      BY <2>1, <2>2, <2>6, <2>7, <3>1, <3>2, <3>3, <3>4, <3>5 DEF Taken
  <2>. QED
    BY <2>8, <2>g, <2>n
<1>. QED
  BY <1>4, <1>5, <1>6, <1>7

\* Who runs on a CPU.
LEMMA RunningFacts ==
    ASSUME NEW c \in CPU
    PROVE  \/ Running(c) = None /\ \A t \in Tids : task[t].where # c
           \/ Running(c) \in Tids /\ task[Running(c)].where = c
<1>1. CASE On(c) = {}
  BY <1>1 DEF On, Running
<1>2. CASE On(c) # {}
  <2>1. Running(c) = CHOOSE t \in On(c) : TRUE
    BY <1>2 DEF Running
  <2>2. Running(c) \in On(c)
    BY <1>2, <2>1
  <2>. QED
    BY <2>2 DEF On
<1>. QED
  BY <1>1, <1>2

\* The entries after network_wakeup_current.
LEMMA TakenEntries ==
    ASSUME IInv, NEW c \in CPU, NEW t \in Tids, NEW handler, NEW history,
           NEW x \in Elements \cup {None}, NEW gone \in SUBSET Elements,
           Taken(c, t, handler, history, x, gone),
           \A u \in Tids : task'[u].birth = task[u].birth
    PROVE  /\ \A e \in Elements : Entry(e, t)' <=> e = x
           /\ \A u \in Tids, e \in Elements :
                 u # t => (Entry(e, u)' <=> (e \notin gone /\ Entry(e, u)))
           /\ \A e, f \in Elements : elem'[e].tid = elem'[f].tid /\ elem'[e].tid # None => e = f
           /\ \A e \in Elements :
                 /\ elem'[e].birth <= now /\ elem'[e].waking <= now /\ elem'[e].wakeup <= now
                 /\ elem'[e].run <= now
                 /\ elem'[e].waking # 0 => elem'[e].birth < elem'[e].waking
<1>1. /\ \A e \in Elements : e \notin gone => elem'[e] = elem[e]
      /\ \A e \in gone : e # x =>
            /\ elem'[e].tid = None /\ elem'[e].birth = elem[e].birth
            /\ elem'[e].waking = elem[e].waking /\ elem'[e].wakeup = elem[e].wakeup
            /\ elem'[e].run = elem[e].run
      /\ x \in gone =>
            /\ elem'[x].tid = t /\ elem'[x].birth = task[t].birth /\ elem'[x].waking = 0
            /\ elem'[x].wakeup = 0 /\ elem'[x].run = 0
      /\ x \in Elements /\ x \notin gone => Entry(x, t)
      /\ x = None => gone = {}
      /\ \A e \in Elements : Entry(e, t) => e = x /\ e \notin gone
      /\ \A e \in Elements : x # None /\ elem'[e].tid = t => e = x
  BY DEF Taken
<1>2. TypeFacts
  BY Fields DEF IInv
<1>3. \A e \in Elements : Entry(e, t)' <=> e = x
  <2>1. ASSUME NEW e \in Elements, Entry(e, t)'
        PROVE  e = x
    <3>1. elem'[e].tid = t /\ elem'[e].birth = task[t].birth
      BY <2>1 DEF Entry
    <3>2. x = None => Entry(e, t)
      BY <1>1, <3>1 DEF Entry
    <3>. QED
      BY <1>1, <3>1, <3>2
  <2>2. ASSUME x \in Elements
        PROVE  Entry(x, t)'
    BY <1>1, <2>2 DEF Entry
  <2>. QED
    BY <2>1, <2>2
<1>4. \A u \in Tids, e \in Elements :
        u # t => (Entry(e, u)' <=> (e \notin gone /\ Entry(e, u)))
  BY <1>1, WakeupAssumption DEF Entry
<1>5. \A e, f \in Elements : elem'[e].tid = elem'[f].tid /\ elem'[e].tid # None => e = f
  <2>1. ASSUME NEW e \in Elements, NEW f \in Elements,
               elem'[e].tid = elem'[f].tid, elem'[e].tid # None
        PROVE  e = f
    <3>1. CASE elem'[e].tid = t /\ x # None
      BY <1>1, <2>1, <3>1
    <3>2. CASE elem'[e].tid # t \/ x = None
      <4>1. e \notin gone /\ f \notin gone
        BY <1>1, <2>1, <3>2
      <4>. QED
        BY <1>1, <2>1, <4>1 DEF IInv, InvHold
    <3>. QED
      BY <3>1, <3>2
  <2>. QED
    BY <2>1
<1>6. ASSUME NEW e \in Elements
      PROVE  /\ elem'[e].birth <= now /\ elem'[e].waking <= now /\ elem'[e].wakeup <= now
             /\ elem'[e].run <= now
             /\ elem'[e].waking # 0 => elem'[e].birth < elem'[e].waking
  <2>1. CASE e \in gone /\ e = x
    BY <1>1, <1>2, <2>1 DEF IInv, InvTimes, TypeFacts
  <2>2. CASE ~(e \in gone /\ e = x)
    BY <1>1, <2>2 DEF IInv, InvTimes
  <2>. QED
    BY <2>1, <2>2
<1>. QED
  BY <1>3, <1>4, <1>5, <1>6

\* sys_enter: the entry of the calling task is found or made.
LEMMA SnapshotInv ==
    ASSUME IInv, NEW c \in CPU, Snapshot(c)
    PROVE  IInv'
<1>a. PICK t, g : /\ t = Running(c)
                  /\ g = [Idle EXCEPT !.op = "snapshot", !.step = 1, !.tid = t,
                                      !.ts = now + 1, !.early = Wakers(t) # {}]
  OBVIOUS
<1>0. /\ h[c] = Idle /\ t # None /\ task[t].state = "running" /\ now < MaxTime /\ now' = now + 1
      /\ Current(c, t, g, truth) /\ task' = task
  BY <1>a DEF Snapshot, Tick
<1>t. t \in Tids /\ task[t].where = c
  BY <1>0, <1>a, RunningFacts
<1>1. InvTypes /\ TypeFacts /\ h \in [CPU -> HandlerType] /\ truth \in [Tids -> TruthType]
  BY Fields DEF IInv, InvTypes
<1>n. now + 1 \in Time /\ now' \in Time \ {0} /\ now' = now + 1 /\ now \in Nat
  BY <1>0, <1>1, WakeupAssumption DEF Time, TypeFacts
<1>2. /\ g \in HandlerType /\ g.op = "snapshot" /\ g.step = 1 /\ g.tid = t /\ g.next = None
      /\ g.lost = FALSE /\ g.early = (Wakers(t) # {}) /\ g.ts = now + 1 /\ g.event = NoEvent
  <2>1. Idle \in HandlerType /\ NoEvent \in EventType /\ 0 \in Contexts
    BY IdleFacts DEF Contexts
  <2>2. /\ g.op = "snapshot" /\ g.step = 1 /\ g.tid = t /\ g.next = None /\ g.elem = None
        /\ g.lost = FALSE /\ g.early = (Wakers(t) # {}) /\ g.ts = now + 1 /\ g.event = NoEvent
        /\ g.ctx = 0
    BY <1>a DEF Idle
  <2>3. g = [op |-> g.op, step |-> g.step, tid |-> g.tid, next |-> g.next, elem |-> g.elem,
             lost |-> g.lost, early |-> g.early, ts |-> g.ts, ctx |-> g.ctx, event |-> g.event]
    BY <1>a DEF Idle
  <2>4. g.early \in BOOLEAN /\ g.step \in 0..7
    BY <2>2
  <2>5. g \in HandlerType
    BY <1>n, <1>t, <2>1, <2>2, <2>3, <2>4 DEF HandlerType
  <2>. QED
    BY <2>2, <2>5
<1>x. PICK x \in Elements \cup {None}, gone \in SUBSET Elements : Taken(c, t, g, truth, x, gone)
  BY <1>0, <1>1, <1>2, <1>t, CurrentFacts
<1>3. /\ h' \in [CPU -> HandlerType] /\ elem' \in [Elements -> ElemType]
      /\ truth' \in [Tids -> TruthType]
      /\ \A d \in CPU : d # c =>
            /\ h'[d].op = h[d].op /\ h'[d].step = h[d].step /\ h'[d].tid = h[d].tid
            /\ h'[d].next = h[d].next /\ h'[d].elem = h[d].elem /\ h'[d].early = h[d].early
            /\ h'[d].ts = h[d].ts /\ h'[d].ctx = h[d].ctx /\ h'[d].event = h[d].event
            /\ h'[d].lost <=> (h[d].lost \/ h[d].elem \in gone)
      /\ \A u \in Tids :
            /\ truth'[u].waking = truth[u].waking /\ truth'[u].wakeup = truth[u].wakeup
            /\ truth'[u].run = truth[u].run /\ truth'[u].waker = truth[u].waker
            /\ truth'[u].whole => truth[u].whole /\ \A e \in gone : elem[e].tid # u
      /\ \A e \in Elements : e \notin gone => elem'[e] = elem[e]
      /\ x \in gone => /\ elem'[x].waking = 0 /\ elem'[x].run = 0
      /\ x \in Elements /\ x \notin gone => Entry(x, t)
      /\ \A e \in Elements : Entry(e, t) => e = x /\ e \notin gone
  BY <1>x DEF Taken, Held
<1>4. /\ h'[c].op = "snapshot" /\ h'[c].step = 1 /\ h'[c].tid = t /\ h'[c].next = None
      /\ h'[c].lost = FALSE /\ h'[c].early = (Wakers(t) # {}) /\ h'[c].ts = now + 1
      /\ h'[c].event = NoEvent /\ h'[c].elem = x
  <2>1. h'[c] = [g EXCEPT !.elem = x]
    BY <1>x DEF Taken, Held
  <2>. QED
    BY <1>2, <2>1 DEF HandlerType
<1>5. /\ \A e \in Elements : Entry(e, t)' <=> e = x
      /\ \A u \in Tids, e \in Elements :
            u # t => (Entry(e, u)' <=> (e \notin gone /\ Entry(e, u)))
      /\ \A e, f \in Elements : elem'[e].tid = elem'[f].tid /\ elem'[e].tid # None => e = f
      /\ \A e \in Elements :
            /\ elem'[e].birth <= now /\ elem'[e].waking <= now /\ elem'[e].wakeup <= now
            /\ elem'[e].run <= now
            /\ elem'[e].waking # 0 => elem'[e].birth < elem'[e].waking
  BY <1>0, <1>t, <1>x, TakenEntries
<1>i. Idle.op = "idle" /\ Idle.elem = None
  BY IdleFacts
<1>6. \A d \in CPU, u \in Tids :
        /\ Wakes(d, u)' <=> Wakes(d, u)
        /\ Leaves(d, u)' <=> Leaves(d, u)
        /\ Enters(d, u)' <=> Enters(d, u)
        /\ Snaps(d, u)' <=> (Snaps(d, u) \/ (d = c /\ u = t))
        /\ Wakes(d, u) \/ Leaves(d, u) \/ Enters(d, u) \/ Snaps(d, u) => d # c
  BY <1>0, <1>3, <1>4, <1>i, <1>t DEF Wakes, Leaves, Enters, Snaps
<1>7. /\ OnCpu(t)
      /\ \A u \in Tids : OnCpu(u)' <=> OnCpu(u)
      /\ \A u \in Tids : (Cleared(u)' <=> Cleared(u)) /\ (Left(u)' <=> Left(u))
      /\ \A d \in CPU : ~Leaves(d, t) /\ ~Snaps(d, t)
  <2>1. OnCpu(t) /\ \A u \in Tids : OnCpu(u)' <=> OnCpu(u)
    BY <1>0, <1>t DEF OnCpu
  <2>2. \A u \in Tids : (Cleared(u)' <=> Cleared(u)) /\ (Left(u)' <=> Left(u))
    BY <1>3, <1>6 DEF Cleared, Left
  <2>3. \A d \in CPU : ~Leaves(d, t) /\ ~Snaps(d, t)
    BY <1>6, <1>t, <2>1 DEF IInv, InvSched
  <2>. QED
    BY <2>1, <2>2, <2>3
<1>8. InvTypes'
  BY <1>0, <1>1, <1>3, <1>n DEF InvTypes
<1>9. InvTimes'
  <2>1. \A d \in CPU : h'[d].ts <= now'
    BY <1>1, <1>3, <1>4, <1>n DEF IInv, InvTimes, TypeFacts
  <2>2. \A e \in Elements : /\ elem'[e].birth \in Nat /\ elem'[e].waking \in Nat
                            /\ elem'[e].wakeup \in Nat /\ elem'[e].run \in Nat
    <3>1. \A e \in Elements : elem'[e] \in ElemType
      BY <1>3
    <3>. QED
      BY <3>1, WakeupAssumption DEF ElemType, Time
  <2>3. \A u \in Tids : task'[u].birth <= now'
    BY <1>0, <1>1, <1>n DEF IInv, InvTimes, TypeFacts
  <2>. QED
    BY <1>5, <1>n, <2>1, <2>2, <2>3 DEF InvTimes
<1>10. InvSched'
  <2>1. \A d \in CPU : /\ h'[d].op = "switch" => h[d].op = "switch"
                       /\ h'[d].op = "waking" => h[d].op = "waking" /\ h'[d].tid = h[d].tid
                       /\ h'[d].op = "snapshot" => h'[d].tid \in Tids
    BY <1>3, <1>4, <1>t DEF IInv, InvSched
  <2>. QED
    BY <1>0, <1>6, <1>7, <1>t, <2>1 DEF IInv, InvSched
<1>11. InvHold'
  <2>1. ASSUME NEW d \in CPU, NEW e \in Elements, h'[d].elem = e
        PROVE  /\ h'[d].op # "idle" /\ h'[d].tid # None
               /\ ~h'[d].lost => elem'[e].tid = h'[d].tid
    <3>1. CASE d = c
      <4>1. Entry(e, t)'
        BY <1>4, <1>5, <2>1, <3>1
      <4>. QED
        BY <1>0, <1>4, <1>t, <3>1, <4>1 DEF Entry
    <3>2. CASE d # c
      BY <1>3, <2>1, <3>2 DEF IInv, InvHold
    <3>. QED
      BY <3>1, <3>2
  <2>2. \A d \in CPU : /\ h'[d].op = "waking" =>
                            h'[d].step \in 1..7 /\ (h'[d].elem = None => h'[d].step = 7)
                       /\ h'[d].op = "switch" => h'[d].step \in 1..4
    BY <1>3, <1>4 DEF IInv, InvHold
  <2>3. ASSUME NEW d \in CPU, NEW u \in Tids, NEW e \in Elements, Leaves(d, u)' \/ Snaps(d, u)'
        PROVE  /\ h'[d].elem = e /\ ~h'[d].lost => elem'[e].birth = task'[u].birth
               /\ Entry(e, u)' => h'[d].elem = e /\ ~h'[d].lost
    <3>1. CASE d = c
      <4>1. u = t
        BY <1>6, <2>3, <3>1
      <4>. QED
        BY <1>4, <1>5, <3>1, <4>1 DEF Entry
    <3>2. CASE d # c
      <4>1. u # t /\ (Leaves(d, u) \/ Snaps(d, u))
        BY <1>6, <1>7, <2>3, <3>2
      <4>2. /\ h[d].elem = e /\ ~h[d].lost => elem[e].birth = task[u].birth
            /\ Entry(e, u) => h[d].elem = e /\ ~h[d].lost
        BY <4>1 DEF IInv, InvHold
      <4>. QED
        BY <1>0, <1>3, <1>5, <3>2, <4>1, <4>2
    <3>. QED
      BY <3>1, <3>2
  <2>. QED
    BY <1>5, <2>1, <2>2, <2>3 DEF InvHold
<1>12. InvOn'
  <2>1. ASSUME NEW u \in Tids, NEW e \in Elements, Entry(e, u)', OnCpu(u), NEW d \in CPU,
               e \notin gone
        PROVE  /\ elem'[e].run # 0 => elem'[e].run = truth'[u].run
               /\ ~elem'[e].foreign /\ WakeKnown(elem'[e]) => Match(e, u)'
               /\ Wakes(d, u)' /\ h'[d].elem = e /\ ~h'[d].lost /\ h'[d].step >= 2
                     => ~WakeKnown(elem'[e])
    <3>1. Entry(e, u) /\ elem'[e] = elem[e]
      BY <1>3, <1>5, <2>1
    <3>2. Match(e, u)' <=> Match(e, u)
      BY <1>3, <3>1 DEF Match
    <3>. QED
      BY <1>3, <1>6, <2>1, <3>1, <3>2 DEF IInv, InvOn
  <2>2. x \in gone => elem'[x].run = 0 /\ ~WakeKnown(elem'[x])
    BY <1>3 DEF WakeKnown
  <2>. QED
    BY <1>5, <1>7, <2>1, <2>2 DEF InvOn
<1>13. InvOff'
  <2>1. ASSUME NEW u \in Tids, NEW e \in Elements, Entry(e, u), e \notin gone, OffEntry(u, e)
        PROVE  OffEntry(u, e)'
    <3>1. elem'[e] = elem[e] /\ (Match(e, u)' <=> Match(e, u))
      BY <1>3, <2>1 DEF Match
    <3>. QED
      BY <1>0, <1>3, <1>6, <1>7, <2>1, <3>1 DEF OffEntry
  <2>. QED
    BY <1>5, <1>7, <2>1 DEF IInv, InvOff
<1>14. InvAsleep'
  <2>1. \A u \in Tids : task[u].where = "off" => u # t
    BY <1>t, WakeupAssumption
  <2>. QED
    BY <1>0, <1>3, <1>5, <1>6, <2>1 DEF IInv, InvAsleep
<1>15. InvWhole'
  <2>1. \A u \in Tids, e \in Elements : Entry(e, u) /\ truth'[u].whole =>
          Entry(e, u)' /\ elem'[e] = elem[e]
    BY <1>3, <1>5 DEF Entry
  <2>. QED
    BY <1>0, <1>3, <1>6, <1>7, <2>1 DEF IInv, InvWhole
<1>16. InvSnapshot'
  <2>1. ASSUME NEW d \in CPU, NEW u \in Tids, d # c, Snaps(d, u)
        PROVE  /\ CopySane(u, h[d].elem, h[d].lost, h[d].step, h[d].event)'
               /\ \A e \in Elements : h'[d].elem = e /\ ~h'[d].lost => elem'[e].run <= h'[d].ts
               /\ ~h'[d].early => \A b \in CPU : ~Wakes(b, u)'
               /\ \A e \in Elements :
                     ~h'[d].early /\ h'[d].elem = e /\ ~h'[d].lost /\ ~elem'[e].foreign =>
                     CopyTrue(u, e, h[d].step, h[d].event)'
    <3>1. CopySane(u, h[d].elem, h[d].lost, h[d].step, h[d].event)'
      BY <1>0, <1>3, <2>1 DEF IInv, InvSnapshot, CopySane
    <3>2. \A e \in Elements : h'[d].elem = e /\ ~h'[d].lost => elem'[e].run <= h'[d].ts
      BY <1>3, <2>1 DEF IInv, InvSnapshot
    <3>3. ~h'[d].early => \A b \in CPU : ~Wakes(b, u)'
      BY <1>3, <1>6, <2>1 DEF IInv, InvSnapshot, Quiet
    <3>4. ASSUME NEW e \in Elements, ~h'[d].early, h'[d].elem = e, ~h'[d].lost, ~elem'[e].foreign
          PROVE  CopyTrue(u, e, h[d].step, h[d].event)'
      <4>1. CopyTrue(u, e, h[d].step, h[d].event) /\ elem'[e] = elem[e]
              /\ h'[d].step = h[d].step /\ h'[d].event = h[d].event
        BY <1>3, <2>1, <3>4 DEF IInv, InvSnapshot, Quiet
      <4>. QED
        BY <1>3, <2>1, <4>1 DEF CopyTrue
    <3>. QED
      BY <3>1, <3>2, <3>3, <3>4
  <2>2. NoEvent.status = 1 /\ NoEvent.waking = 0
    BY DEF NoEvent
  <2>3. CopySane(t, h[c].elem, h[c].lost, h[c].step, h[c].event)'
    BY <1>4, <2>2 DEF CopySane
  <2>4. \A e \in Elements : CopyTrue(t, e, h[c].step, h[c].event)'
    BY <1>4, <2>2 DEF CopyTrue
  <2>5. \A e \in Elements : elem'[e].run <= h'[c].ts
    <3>1. \A e \in Elements : elem'[e] \in ElemType
      BY <1>3
    <3>2. \A e \in Elements : elem'[e].run \in Nat
      BY <3>1, WakeupAssumption DEF ElemType, Time
    <3>. QED
      BY <1>4, <1>5, <1>n, <3>2
  <2>6. ~h'[c].early => \A d \in CPU : ~Wakes(d, t)'
    BY <1>4, <1>6, <1>t DEF Wakers, Wakes
  <2>7. \A d \in CPU, u \in Tids : Snaps(d, u)' /\ (d = c \/ u = t) => d = c /\ u = t
    BY <1>6, <1>7
  <2>. QED
    BY <1>6, <2>1, <2>3, <2>4, <2>5, <2>6, <2>7 DEF InvSnapshot, Quiet
<1>. QED
  BY <1>8, <1>9, <1>10, <1>11, <1>12, <1>13, <1>14, <1>15, <1>16 DEF IInv

\* The handler of sched_switch as it begins.
SwitchOf(p, next) == [Idle EXCEPT !.op = "switch", !.step = 1, !.tid = p, !.next = next]

\* Its fields.
LEMMA SwitchHandler ==
    ASSUME NEW p \in Tids \cup {None}, NEW next \in Tids \cup {None}
    PROVE  LET g == SwitchOf(p, next)
           IN /\ g \in HandlerType /\ g.op = "switch" /\ g.step = 1 /\ g.tid = p
              /\ g.next = next /\ g.elem = None /\ g.lost = FALSE /\ g.ts = 0
<1>a. PICK g : g = SwitchOf(p, next)
  OBVIOUS
<1>1. NoEvent \in EventType /\ 0 \in Contexts /\ 0 \in Time
  BY IdleFacts DEF Contexts
<1>2. /\ g.op = "switch" /\ g.step = 1 /\ g.tid = p /\ g.next = next /\ g.elem = None
      /\ g.lost = FALSE /\ g.early = FALSE /\ g.ts = 0 /\ g.event = NoEvent /\ g.ctx = 0
  BY <1>a DEF Idle, SwitchOf
<1>3. g = [op |-> g.op, step |-> g.step, tid |-> g.tid, next |-> g.next, elem |-> g.elem,
           lost |-> g.lost, early |-> g.early, ts |-> g.ts, ctx |-> g.ctx, event |-> g.event]
  BY <1>a DEF Idle, SwitchOf
<1>4. g.step \in 0..7
  BY <1>2
<1>5. g \in HandlerType
  BY <1>1, <1>2, <1>3, <1>4 DEF HandlerType
<1>. QED
  BY <1>2, <1>5, <1>a

\* The idle task of c is switched out: there is no entry to clear.
LEMMA SwitchFromIdle ==
    ASSUME IInv, NEW c \in CPU, NEW next \in Tids \cup {None}, NEW preempt \in BOOLEAN,
           SchedSwitch(c, next, preempt), Running(c) = None
    PROVE  IInv'
<1>a. PICK g : g = SwitchOf(None, next)
  OBVIOUS
<1>0. /\ h[c] = Idle /\ (next # None => task[next].where = "queue" /\ ~MidSwitch(next))
      /\ h' = [h EXCEPT ![c] = g]
      /\ now' = now /\ task' = task /\ elem' = elem /\ truth' = truth
  BY <1>a DEF SchedSwitch, SwitchOf
<1>1. InvTypes /\ TypeFacts /\ h \in [CPU -> HandlerType]
  BY Fields DEF IInv, InvTypes
<1>2. /\ g \in HandlerType /\ g.op = "switch" /\ g.step = 1 /\ g.tid = None /\ g.next = next
      /\ g.elem = None /\ g.lost = FALSE /\ g.ts = 0
  <2>1. None \in Tids \cup {None}
    OBVIOUS
  <2>. QED
    BY <1>a, <2>1, SwitchHandler
<1>3. /\ \A d \in CPU : h'[d] = IF d = c THEN g ELSE h[d]
      /\ h' \in [CPU -> HandlerType]
  BY <1>0, <1>1, <1>2
<1>i. Idle.op = "idle" /\ Idle.elem = None
  BY IdleFacts
<1>4. \A t \in Tids : task[t].where # c
  BY RunningFacts, WakeupAssumption
<1>5. \A d \in CPU, t \in Tids :
        /\ Wakes(d, t)' <=> Wakes(d, t)
        /\ Leaves(d, t)' <=> Leaves(d, t)
        /\ Enters(d, t)' <=> (Enters(d, t) \/ (d = c /\ t = next))
        /\ Snaps(d, t)' <=> Snaps(d, t)
        /\ Wakes(d, t) \/ Leaves(d, t) \/ Enters(d, t) \/ Snaps(d, t) => d # c /\ h'[d] = h[d]
  BY <1>0, <1>2, <1>3, <1>i, WakeupAssumption DEF Wakes, Leaves, Enters, Snaps
<1>6. /\ \A t \in Tids, e \in Elements : Entry(e, t)' <=> Entry(e, t)
      /\ \A t \in Tids : OnCpu(t)' <=> OnCpu(t)
      /\ \A t \in Tids : (Cleared(t)' <=> Cleared(t)) /\ (Left(t)' <=> Left(t))
      /\ \A d \in CPU : next # None => ~Leaves(d, next) /\ ~Enters(d, next)
  <2>1. \A t \in Tids : (Cleared(t)' <=> Cleared(t)) /\ (Left(t)' <=> Left(t))
    BY <1>5 DEF Cleared, Left
  <2>2. \A d \in CPU : next # None => ~Leaves(d, next) /\ ~Enters(d, next)
    BY <1>0 DEF MidSwitch, Leaves, Enters
  <2>. QED
    BY <1>0, <2>1, <2>2 DEF Entry, OnCpu
<1>7. InvTypes'
  BY <1>0, <1>1, <1>3 DEF InvTypes
<1>8. InvTimes'
  BY <1>0, <1>1, <1>2, <1>3 DEF IInv, InvTimes, TypeFacts
<1>9. InvSched'
  <2>1. \A d \in CPU : /\ h'[d].op = "switch" => \A t \in Tids : task'[t].where # d
                       /\ h'[d].op = "waking" => h'[d].tid \in Tids
                       /\ h'[d].op = "snapshot" => h'[d].tid \in Tids
    BY <1>0, <1>2, <1>3, <1>4 DEF IInv, InvSched
  <2>2. \A d \in CPU, t \in Tids :
          /\ Leaves(d, t)' => ~OnCpu(t)' /\ ~Enters(d, t)'
          /\ Enters(d, t)' => task'[t].where = "queue"
          /\ Snaps(d, t)' => task'[t].where = d /\ task'[t].state = "running"
          /\ Wakes(d, t)' => task'[t].state # "dead"
    BY <1>0, <1>5, <1>6, WakeupAssumption DEF IInv, InvSched
  <2>3. \A b, d \in CPU, t \in Tids :
          /\ Leaves(b, t)' /\ Leaves(d, t)' => b = d
          /\ Enters(b, t)' /\ Enters(d, t)' => b = d
          /\ ~(Leaves(b, t)' /\ Enters(d, t)')
          /\ Wakes(b, t)' /\ Wakes(d, t)' => b = d \/ task'[t].where \in {b, d}
    BY <1>0, <1>5, <1>6, WakeupAssumption DEF IInv, InvSched
  <2>. QED
    BY <1>0, <1>6, <2>1, <2>2, <2>3 DEF IInv, InvSched
<1>10. InvHold'
  <2>1. \A d \in CPU : d # c => h'[d] = h[d]
    BY <1>3
  <2>2. h'[c] = g
    BY <1>3
  <2>. QED
    BY <1>0, <1>2, <1>5, <1>6, <2>1, <2>2, WakeupAssumption DEF IInv, InvHold
<1>11. InvOn'
  BY <1>0, <1>5, <1>6 DEF IInv, InvOn, Match
<1>12. InvOff'
  BY <1>0, <1>5, <1>6 DEF IInv, InvOff, OffEntry, Match
<1>13. InvAsleep'
  BY <1>0, <1>5, <1>6 DEF IInv, InvAsleep
<1>14. InvWhole'
  BY <1>0, <1>5, <1>6 DEF IInv, InvWhole
<1>15. InvSnapshot'
  BY <1>0, <1>5 DEF IInv, InvSnapshot, Quiet, CopySane, CopyTrue
<1>. QED
  BY <1>7, <1>8, <1>9, <1>10, <1>11, <1>12, <1>13, <1>14, <1>15 DEF IInv

\* A task is switched out: its entry is found or made, to be cleared.
LEMMA SwitchFromTask ==
    ASSUME IInv, NEW c \in CPU, NEW next \in Tids \cup {None}, NEW preempt \in BOOLEAN,
           SchedSwitch(c, next, preempt), Running(c) # None
    PROVE  IInv'
<1>a. PICK t, g, w, y :
        /\ t = Running(c) /\ w = [truth EXCEPT ![t] = NoTruth]
        /\ g = SwitchOf(t, next)
        /\ y = IF task[t].state = "dead" \/ (task[t].state = "sleeping" /\ ~preempt)
               THEN "off" ELSE "queue"
  OBVIOUS
<1>0. /\ h[c] = Idle /\ next # t
      /\ (next # None => task[next].where = "queue" /\ ~MidSwitch(next))
      /\ Current(c, t, g, w) /\ task' = [task EXCEPT ![t].where = y] /\ now' = now
  BY <1>a DEF SchedSwitch, SwitchOf
<1>t. t \in Tids /\ task[t].where = c
  BY <1>a, RunningFacts
<1>1. InvTypes /\ TypeFacts /\ h \in [CPU -> HandlerType] /\ truth \in [Tids -> TruthType]
        /\ task \in [Tids -> TaskType]
  BY Fields DEF IInv, InvTypes
<1>2. /\ g \in HandlerType /\ g.op = "switch" /\ g.step = 1 /\ g.tid = t /\ g.next = next
      /\ g.elem = None /\ g.lost = FALSE /\ g.ts = 0
  BY <1>a, <1>t, SwitchHandler
<1>w. /\ w \in [Tids -> TruthType] /\ w[t].whole = FALSE
      /\ \A u \in Tids : u # t => w[u] = truth[u]
  <2>1. NoTruth \in TruthType /\ NoTruth.whole = FALSE
    BY IdleFacts DEF NoTruth
  <2>. QED
    BY <1>1, <1>a, <1>t, <2>1
<1>x. PICK x \in Elements \cup {None}, gone \in SUBSET Elements : Taken(c, t, g, w, x, gone)
  BY <1>0, <1>2, <1>t, <1>w, CurrentFacts
<1>k. /\ \A u \in Tids : /\ task'[u].birth = task[u].birth /\ task'[u].state = task[u].state
                         /\ task'[u].where = IF u = t THEN y ELSE task[u].where
      /\ task' \in [Tids -> TaskType]
      /\ y \in {"off", "queue"} /\ y \notin CPU
      /\ y = "off" => task[t].state # "running"
  <2>1. y \in {"off", "queue"} /\ y \notin CPU /\ (y = "off" => task[t].state # "running")
    BY <1>a, WakeupAssumption
  <2>. QED
    BY <1>0, <1>1, <1>t, <2>1 DEF TaskType
<1>3. /\ h' \in [CPU -> HandlerType] /\ elem' \in [Elements -> ElemType]
      /\ truth' \in [Tids -> TruthType]
      /\ \A d \in CPU : d # c =>
            /\ h'[d].op = h[d].op /\ h'[d].step = h[d].step /\ h'[d].tid = h[d].tid
            /\ h'[d].next = h[d].next /\ h'[d].elem = h[d].elem /\ h'[d].early = h[d].early
            /\ h'[d].ts = h[d].ts /\ h'[d].ctx = h[d].ctx /\ h'[d].event = h[d].event
            /\ h'[d].lost <=> (h[d].lost \/ h[d].elem \in gone)
      /\ \A u \in Tids : u # t =>
            /\ truth'[u].waking = truth[u].waking /\ truth'[u].wakeup = truth[u].wakeup
            /\ truth'[u].run = truth[u].run /\ truth'[u].waker = truth[u].waker
            /\ truth'[u].whole => truth[u].whole /\ \A e \in gone : elem[e].tid # u
      /\ ~truth'[t].whole
      /\ \A e \in Elements : e \notin gone => elem'[e] = elem[e]
  BY <1>t, <1>w, <1>x DEF Taken, Held
<1>4. /\ h'[c].op = "switch" /\ h'[c].step = 1 /\ h'[c].tid = t /\ h'[c].next = next
      /\ h'[c].lost = FALSE /\ h'[c].ts = 0 /\ h'[c].elem = x
  <2>1. h'[c] = [g EXCEPT !.elem = x]
    BY <1>x DEF Taken, Held
  <2>. QED
    BY <1>2, <2>1 DEF HandlerType
<1>5. /\ \A e \in Elements : Entry(e, t)' <=> e = x
      /\ \A u \in Tids, e \in Elements :
            u # t => (Entry(e, u)' <=> (e \notin gone /\ Entry(e, u)))
      /\ \A e, f \in Elements : elem'[e].tid = elem'[f].tid /\ elem'[e].tid # None => e = f
      /\ \A e \in Elements :
            /\ elem'[e].birth <= now /\ elem'[e].waking <= now /\ elem'[e].wakeup <= now
            /\ elem'[e].run <= now
            /\ elem'[e].waking # 0 => elem'[e].birth < elem'[e].waking
  BY <1>k, <1>t, <1>x, TakenEntries
<1>i. Idle.op = "idle" /\ Idle.elem = None
  BY IdleFacts
<1>6. \A d \in CPU, u \in Tids :
        /\ Wakes(d, u)' <=> Wakes(d, u)
        /\ Leaves(d, u)' <=> (Leaves(d, u) \/ (d = c /\ u = t))
        /\ Enters(d, u)' <=> (Enters(d, u) \/ (d = c /\ u = next))
        /\ Snaps(d, u)' <=> Snaps(d, u)
        /\ Wakes(d, u) \/ Leaves(d, u) \/ Enters(d, u) \/ Snaps(d, u) => d # c
  BY <1>0, <1>3, <1>4, <1>i, <1>t DEF Wakes, Leaves, Enters, Snaps
<1>7. /\ OnCpu(t) /\ ~OnCpu(t)'
      /\ \A u \in Tids : u # t => (OnCpu(u)' <=> OnCpu(u))
      /\ ~Cleared(t)'
      /\ \A u \in Tids : u # t => (Cleared(u)' <=> Cleared(u)) /\ (Left(u)' <=> Left(u))
      /\ \A d \in CPU : ~Leaves(d, t) /\ ~Enters(d, t) /\ ~Snaps(d, t)
      /\ \A d \in CPU : Wakes(d, t) => h[d].early
      /\ \A d \in CPU : next # None => ~Leaves(d, next) /\ ~Enters(d, next)
  <2>1. OnCpu(t) /\ ~OnCpu(t)' /\ \A u \in Tids : u # t => (OnCpu(u)' <=> OnCpu(u))
    BY <1>k, <1>t DEF OnCpu
  <2>2. ~Cleared(t)'
    BY <1>4, <1>6, <1>t DEF Cleared
  <2>3. \A u \in Tids : u # t => (Cleared(u)' <=> Cleared(u)) /\ (Left(u)' <=> Left(u))
    BY <1>3, <1>6 DEF Cleared, Left
  <2>4. \A d \in CPU : ~Leaves(d, t) /\ ~Enters(d, t) /\ ~Snaps(d, t)
    BY <1>6, <1>t, <2>1, WakeupAssumption DEF IInv, InvSched
  <2>5. \A d \in CPU : Wakes(d, t) => h[d].early
    BY <1>t, WakeupAssumption DEF IInv, InvAsleep
  <2>6. \A d \in CPU : next # None => ~Leaves(d, next) /\ ~Enters(d, next)
    BY <1>0 DEF MidSwitch, Leaves, Enters
  <2>. QED
    BY <2>1, <2>2, <2>3, <2>4, <2>5, <2>6
<1>8. InvTypes'
  BY <1>0, <1>1, <1>3, <1>k DEF InvTypes
<1>9. InvTimes'
  BY <1>0, <1>1, <1>3, <1>4, <1>5, <1>k DEF IInv, InvTimes, TypeFacts
<1>10. InvSched'
  <2>0. \A u \in Tids, d \in CPU : task'[u].where = d <=> (u # t /\ task[u].where = d)
    BY <1>k
  <2>1. \A d \in CPU : /\ h'[d].op = "switch" => \A u \in Tids : task'[u].where # d
                       /\ h'[d].op = "waking" => h'[d].tid \in Tids
                       /\ h'[d].op = "snapshot" => h'[d].tid \in Tids
    <3>1. \A u \in Tids : task'[u].where # c
      BY <1>t, <2>0 DEF IInv, InvSched, OnCpu
    <3>. QED
      BY <1>3, <1>4, <2>0, <3>1 DEF IInv, InvSched
  <2>2. \A u, v \in Tids : OnCpu(u)' /\ task'[u].where = task'[v].where => u = v
    BY <1>k DEF IInv, InvSched, OnCpu
  <2>3. \A d \in CPU, u \in Tids :
          /\ Leaves(d, u)' => ~OnCpu(u)' /\ ~Enters(d, u)'
          /\ Enters(d, u)' => task'[u].where = "queue"
          /\ Snaps(d, u)' => task'[u].where = d /\ task'[u].state = "running"
          /\ Wakes(d, u)' => task'[u].state # "dead"
    BY <1>0, <1>6, <1>7, <1>k, <1>t, WakeupAssumption DEF IInv, InvSched
  <2>4. \A b, d \in CPU, u \in Tids :
          /\ Leaves(b, u)' /\ Leaves(d, u)' => b = d
          /\ Enters(b, u)' /\ Enters(d, u)' => b = d
          /\ ~(Leaves(b, u)' /\ Enters(d, u)')
    BY <1>0, <1>6, <1>7, <1>t, WakeupAssumption DEF IInv, InvSched
  <2>5. \A b, d \in CPU, u \in Tids :
          Wakes(b, u)' /\ Wakes(d, u)' => b = d \/ task'[u].where \in {b, d}
    BY <1>6, <1>k, <1>t DEF IInv, InvSched
  <2>6. \A u \in Tids : task'[u].where = "off" => task'[u].state # "running"
    BY <1>k DEF IInv, InvSched
  <2>. QED
    BY <2>1, <2>2, <2>3, <2>4, <2>5, <2>6 DEF InvSched
<1>11. InvHold'
  <2>1. ASSUME NEW d \in CPU, NEW e \in Elements, h'[d].elem = e
        PROVE  /\ h'[d].op # "idle" /\ h'[d].tid # None
               /\ ~h'[d].lost => elem'[e].tid = h'[d].tid
    <3>1. CASE d = c
      <4>1. Entry(e, t)'
        BY <1>4, <1>5, <2>1, <3>1
      <4>. QED
        BY <1>4, <1>t, <3>1, <4>1, WakeupAssumption DEF Entry
    <3>2. CASE d # c
      BY <1>3, <2>1, <3>2 DEF IInv, InvHold
    <3>. QED
      BY <3>1, <3>2
  <2>2. \A d \in CPU : /\ h'[d].op = "waking" =>
                            h'[d].step \in 1..7 /\ (h'[d].elem = None => h'[d].step = 7)
                       /\ h'[d].op = "switch" => h'[d].step \in 1..4
    BY <1>3, <1>4 DEF IInv, InvHold
  <2>3. ASSUME NEW d \in CPU, NEW u \in Tids, NEW e \in Elements, Leaves(d, u)' \/ Snaps(d, u)'
        PROVE  /\ h'[d].elem = e /\ ~h'[d].lost => elem'[e].birth = task'[u].birth
               /\ Entry(e, u)' => h'[d].elem = e /\ ~h'[d].lost
    <3>1. CASE d = c
      <4>1. u = t
        BY <1>6, <2>3, <3>1
      <4>. QED
        BY <1>4, <1>5, <3>1, <4>1 DEF Entry
    <3>2. CASE d # c
      <4>1. u # t /\ (Leaves(d, u) \/ Snaps(d, u))
        BY <1>6, <1>7, <2>3, <3>2
      <4>2. /\ h[d].elem = e /\ ~h[d].lost => elem[e].birth = task[u].birth
            /\ Entry(e, u) => h[d].elem = e /\ ~h[d].lost
        BY <4>1 DEF IInv, InvHold
      <4>. QED
        BY <1>3, <1>5, <1>k, <3>2, <4>1, <4>2
    <3>. QED
      BY <3>1, <3>2
  <2>. QED
    BY <1>5, <2>1, <2>2, <2>3 DEF InvHold
<1>12. InvOn'
  <2>1. ASSUME NEW u \in Tids, NEW e \in Elements, Entry(e, u)', OnCpu(u)', NEW d \in CPU
        PROVE  /\ elem'[e].run # 0 => elem'[e].run = truth'[u].run
               /\ ~elem'[e].foreign /\ WakeKnown(elem'[e]) => Match(e, u)'
               /\ Wakes(d, u)' /\ h'[d].elem = e /\ ~h'[d].lost /\ h'[d].step >= 2
                     => ~WakeKnown(elem'[e])
    <3>1. u # t /\ OnCpu(u) /\ Entry(e, u) /\ elem'[e] = elem[e] /\ e \notin gone
      BY <1>3, <1>5, <1>7, <2>1
    <3>2. Match(e, u)' <=> Match(e, u)
      BY <1>3, <3>1 DEF Match
    <3>. QED
      BY <1>3, <1>6, <2>1, <3>1, <3>2 DEF IInv, InvOn
  <2>. QED
    BY <2>1 DEF InvOn
<1>13. InvOff'
  <2>1. ASSUME NEW u \in Tids, NEW e \in Elements, u # t, Entry(e, u), e \notin gone,
               OffEntry(u, e)
        PROVE  OffEntry(u, e)'
    <3>1. elem'[e] = elem[e] /\ (Match(e, u)' <=> Match(e, u))
      BY <1>3, <2>1 DEF Match
    <3>2. task'[u].state = task[u].state
      BY <1>k
    <3>3. \A d \in CPU : Leaves(d, u)' <=> Leaves(d, u)
      BY <1>6, <2>1
    <3>. QED
      BY <1>3, <1>6, <1>7, <2>1, <3>1, <3>2, <3>3 DEF OffEntry
  <2>. QED
    BY <1>5, <1>7, <2>1 DEF IInv, InvOff
<1>14. InvAsleep'
  <2>1. ASSUME NEW d \in CPU, NEW u \in Tids, Wakes(d, u)', ~h'[d].early
        PROVE  u # t /\ Wakes(d, u) /\ ~h[d].early /\ d # c
    BY <1>3, <1>6, <1>7, <2>1
  <2>. QED
    BY <1>3, <1>5, <1>6, <1>k, <2>1 DEF IInv, InvAsleep
<1>15. InvWhole'
  <2>1. \A u \in Tids, e \in Elements : Entry(e, u) /\ truth'[u].whole =>
          Entry(e, u)' /\ elem'[e] = elem[e] /\ u # t
    BY <1>3, <1>5 DEF Entry
  <2>2. \A u \in Tids : truth'[u].whole => u # t /\ truth[u].whole /\ task'[u].where = task[u].where
    BY <1>3, <1>k
  <2>. QED
    BY <1>6, <1>7, <1>k, <2>1, <2>2 DEF IInv, InvWhole
<1>16. InvSnapshot'
  <2>1. ASSUME NEW d \in CPU, NEW u \in Tids, Snaps(d, u)
        PROVE  /\ CopySane(u, h[d].elem, h[d].lost, h[d].step, h[d].event)'
               /\ \A e \in Elements : h'[d].elem = e /\ ~h'[d].lost => elem'[e].run <= h'[d].ts
               /\ ~h'[d].early => \A b \in CPU : ~Wakes(b, u)'
               /\ \A e \in Elements :
                     ~h'[d].early /\ h'[d].elem = e /\ ~h'[d].lost /\ ~elem'[e].foreign =>
                     CopyTrue(u, e, h[d].step, h[d].event)'
    <3>0. d # c /\ u # t
      BY <1>6, <1>7, <2>1
    <3>1. CopySane(u, h[d].elem, h[d].lost, h[d].step, h[d].event)'
      BY <1>3, <1>k, <2>1, <3>0 DEF IInv, InvSnapshot, CopySane
    <3>2. \A e \in Elements : h'[d].elem = e /\ ~h'[d].lost => elem'[e].run <= h'[d].ts
      BY <1>3, <2>1, <3>0 DEF IInv, InvSnapshot
    <3>3. ~h'[d].early => \A b \in CPU : ~Wakes(b, u)'
      BY <1>3, <1>6, <2>1, <3>0 DEF IInv, InvSnapshot, Quiet
    <3>4. ASSUME NEW e \in Elements, ~h'[d].early, h'[d].elem = e, ~h'[d].lost, ~elem'[e].foreign
          PROVE  CopyTrue(u, e, h[d].step, h[d].event)'
      <4>1. CopyTrue(u, e, h[d].step, h[d].event) /\ elem'[e] = elem[e]
              /\ h'[d].step = h[d].step /\ h'[d].event = h[d].event
        BY <1>3, <2>1, <3>0, <3>4 DEF IInv, InvSnapshot, Quiet
      <4>. QED
        BY <1>3, <2>1, <3>0, <4>1 DEF CopyTrue
    <3>. QED
      BY <3>1, <3>2, <3>3, <3>4
  <2>. QED
    BY <1>6, <2>1 DEF InvSnapshot, Quiet
<1>. QED
  BY <1>8, <1>9, <1>10, <1>11, <1>12, <1>13, <1>14, <1>15, <1>16 DEF IInv

---------------------------------------------------------------------------
(* The invariant holds, and what follows from it.                            *)

\* The invariant holds initially: nothing is in the map, nobody runs.
LEMMA InitInv == Init => IInv
<1>. SUFFICES ASSUME Init PROVE IInv
  OBVIOUS
<1>0. /\ now = 1
      /\ task = [t \in Tids |-> [birth |-> 1, where |-> "queue", state |-> "running"]]
      /\ elem = [e \in Elements |-> [tid |-> None, birth |-> 0, foreign |-> FALSE, waking |-> 0,
                                     wakeup |-> 0, run |-> 0, ctx |-> 0, waker |-> 0]]
      /\ h = [c \in CPU |-> Idle] /\ truth = [t \in Tids |-> NoTruth]
  BY DEF Init
<1>t. 0 \in Time /\ 1 \in Time /\ 0 \in Contexts /\ Idle \in HandlerType /\ NoTruth \in TruthType
        /\ Idle.op = "idle" /\ Idle.elem = None /\ Idle.ts = 0 /\ NoTruth.whole = FALSE
  BY IdleFacts, WakeupAssumption DEF Time, Contexts, NoTruth
<1>1. \A t \in Tids : /\ task[t].birth = 1 /\ task[t].where = "queue" /\ task[t].state = "running"
                      /\ ~truth[t].whole /\ ~OnCpu(t)
  BY <1>0, <1>t, WakeupAssumption DEF OnCpu
<1>2. \A e \in Elements : /\ elem[e].tid = None /\ elem[e].birth = 0 /\ elem[e].waking = 0
                          /\ elem[e].wakeup = 0 /\ elem[e].run = 0
  BY <1>0
<1>3. \A c \in CPU : h[c].op = "idle" /\ h[c].elem = None /\ h[c].ts = 0
  BY <1>0, <1>t
<1>4. /\ \A c \in CPU, t \in Tids : ~Wakes(c, t) /\ ~Leaves(c, t) /\ ~Enters(c, t) /\ ~Snaps(c, t)
      /\ \A e \in Elements, t \in Tids : ~Entry(e, t)
  BY <1>2, <1>3, WakeupAssumption DEF Wakes, Leaves, Enters, Snaps, Entry
<1>5. InvTypes
  <2>1. task \in [Tids -> TaskType]
    BY <1>0, <1>t DEF TaskType
  <2>2. elem \in [Elements -> ElemType]
    BY <1>0, <1>t DEF ElemType
  <2>3. h \in [CPU -> HandlerType]
    BY <1>0, <1>t
  <2>4. truth \in [Tids -> TruthType]
    BY <1>0, <1>t
  <2>5. now \in Time \ {0}
    BY <1>0, <1>t
  <2>. QED
    BY <2>1, <2>2, <2>3, <2>4, <2>5 DEF InvTypes
<1>6. InvTimes
  BY <1>0, <1>1, <1>2, <1>3 DEF InvTimes
<1>7. InvSched
  BY <1>1, <1>3, <1>4 DEF InvSched
<1>8. InvHold
  BY <1>2, <1>3, <1>4, WakeupAssumption DEF InvHold
<1>9. InvOn /\ InvOff /\ InvAsleep /\ InvWhole /\ InvSnapshot
  BY <1>1, <1>4 DEF InvOn, InvOff, InvAsleep, InvWhole, InvSnapshot, Quiet
<1>. QED
  BY <1>5, <1>6, <1>7, <1>8, <1>9 DEF IInv

\* Every step preserves the invariant.
LEMMA NextInv == IInv /\ [Next]_vars => IInv'
<1>. SUFFICES ASSUME IInv, [Next]_vars PROVE IInv'
  OBVIOUS
<1>1. ASSUME NEW e \in Elements, Evict(e) PROVE IInv'
  BY <1>1, EvictInv
<1>2. ASSUME NEW c \in CPU, NEW t \in Tids, NEW ctx \in Contexts, SchedWaking(c, t, ctx)
      PROVE  IInv'
  BY <1>2, SchedWakingInv
<1>3. ASSUME NEW c \in CPU, NEW next \in Tids \cup {None}, NEW preempt \in BOOLEAN,
             SchedSwitch(c, next, preempt)
      PROVE  IInv'
  BY <1>3, SwitchFromIdle, SwitchFromTask
<1>4. ASSUME NEW c \in CPU, WakingStep(c) PROVE IInv'
  BY <1>4, WakingStepInv
<1>5. ASSUME NEW c \in CPU, SchedWakeup(c) PROVE IInv'
  BY <1>5, SchedWakeupInv
<1>6. ASSUME NEW c \in CPU, SwitchClear(c) PROVE IInv'
  BY <1>6, SwitchClearInv
<1>7. ASSUME NEW c \in CPU, SwitchNext(c) PROVE IInv'
  BY <1>7, SwitchNextInv
<1>8. ASSUME NEW c \in CPU, Snapshot(c) PROVE IInv'
  BY <1>8, SnapshotInv
<1>9. ASSUME NEW c \in CPU, SnapshotStep(c) PROVE IInv'
  BY <1>9, SnapshotStepInv
<1>10. ASSUME NEW c \in CPU, SnapshotEnd(c) PROVE IInv'
  BY <1>10, SnapshotEndInv
<1>11. ASSUME NEW t \in Tids,
              \/ SetState(t, "running", "sleeping")
              \/ SetState(t, "sleeping", "running")
              \/ SetState(t, "running", "dead")
       PROVE  IInv'
  BY <1>11, SetStateInv
<1>12. ASSUME NEW t \in Tids, Fork(t) PROVE IInv'
  BY <1>12, ForkInv
<1>13. CASE UNCHANGED vars
  <2>1. now' = now /\ task' = task /\ elem' = elem /\ h' = h /\ truth' = truth
    BY <1>13 DEF vars
  <2>2. InvTypes' /\ InvTimes'
    BY <2>1 DEF IInv, InvTypes, InvTimes
  <2>3. InvSched' /\ InvHold'
    BY <2>1 DEF IInv, InvSched, InvHold, Wakes, Leaves, Enters, Snaps, OnCpu, Entry
  <2>4. InvOn' /\ InvAsleep' /\ InvWhole'
    BY <2>1 DEF IInv, InvOn, InvAsleep, InvWhole, Wakes, Leaves, OnCpu, Entry, Match
  <2>5. InvOff'
    BY <2>1 DEF IInv, InvOff, OffEntry, Wakes, Leaves, OnCpu, Entry, Match, Cleared, Left
  <2>6. InvSnapshot'
    BY <2>1 DEF IInv, InvSnapshot, Quiet, Wakes, Snaps, CopySane, CopyTrue
  <2>. QED
    BY <2>2, <2>3, <2>4, <2>5, <2>6 DEF IInv
<1>. QED
  BY <1>1, <1>2, <1>3, <1>4, <1>5, <1>6, <1>7, <1>8, <1>9, <1>10, <1>11, <1>12, <1>13 DEF Next

\* The inductive invariant holds in every reachable state.
THEOREM Invariance == Spec => []IInv
  BY InitInv, NextInv, PTL DEF Spec

\* The fields of the state have their types, at most one task runs on a CPU,
\* and the map holds at most one element per thread id.
THEOREM TypeCorrectness == Spec => []TypeOK
<1>1. IInv => TypeOK
  <2>. SUFFICES ASSUME IInv PROVE TypeOK
    OBVIOUS
  <2>1. now \in Time /\ TypeFacts
    BY Fields DEF IInv, InvTypes
  <2>2. \A t \in Tids : /\ task[t].birth \in Time
                        /\ task[t].where \in CPU \cup {"queue", "off"}
                        /\ task[t].state \in {"running", "sleeping", "dead"}
    BY DEF IInv, InvTypes, TaskType
  <2>3. ASSUME NEW c \in CPU PROVE Cardinality(On(c)) <= 1
    <3>1. CASE On(c) = {}
      BY <3>1, FS_EmptySet
    <3>2. CASE On(c) # {}
      <4>1. PICK t \in Tids : task[t].where = c
        BY <3>2 DEF On
      <4>2. On(c) = {t}
        BY <4>1 DEF On, IInv, InvSched, OnCpu
      <4>. QED
        BY <4>2, FS_Singleton
    <3>. QED
      BY <3>1, <3>2
  <2>4. ASSUME NEW e \in Elements
        PROVE  /\ elem[e].tid \in Tids \cup {None} /\ elem[e].ctx \in Contexts
               /\ {elem[e].birth, elem[e].waking, elem[e].wakeup, elem[e].run, elem[e].waker}
                     \subseteq Time
               /\ \A f \in Elements : e # f => elem[e].tid # elem[f].tid \/ elem[e].tid = None
    <3>1. elem[e] \in ElemType
      BY DEF IInv, InvTypes
    <3>. QED
      BY <3>1 DEF ElemType, IInv, InvHold
  <2>. QED
    BY <2>1, <2>2, <2>3, <2>4 DEF TypeOK, TypeFacts
<1>. QED
  BY <1>1, Invariance, PTL

\* What network_wakeup_snapshot reports is what preceded the system call.
THEOREM SnapshotCorrect == Spec => []SnapshotIsTrue
<1>1. IInv => SnapshotIsTrue
  <2>. SUFFICES ASSUME IInv, NEW c \in CPU, Finished(c), Own(c)
                PROVE  /\ h[c].event.waking # 0 => h[c].event.waking > task[h[c].tid].birth
                       /\ ~h[c].early =>
                            /\ h[c].event.status \in {2, 3} => h[c].event.run = truth[h[c].tid].run
                            /\ h[c].event.status = 2 =>
                                 /\ h[c].event.waking # 0
                                 /\ h[c].event.waking = truth[h[c].tid].waking
                                 /\ h[c].event.wakeup = truth[h[c].tid].wakeup
                                 /\ h[c].event.ctx = TaskContext =>
                                       h[c].event.waker = truth[h[c].tid].waker
    BY DEF SnapshotIsTrue
  <2>a. PICK t, e, ev : t = h[c].tid /\ e = h[c].elem /\ ev = h[c].event
    OBVIOUS
  <2>1. t \in Tids /\ Snaps(c, t) /\ e \in Elements \cup {None} /\ h[c].step = 5 /\ ~h[c].lost
    BY <2>a, Fields DEF IInv, InvSched, Finished, Own, Snaps, TypeFacts
  <2>2. CopySane(t, e, h[c].lost, 5, ev)
    BY <2>1, <2>a DEF IInv, InvSnapshot
  <2>3. e = None => ev.status = 1
    BY <2>2 DEF CopySane, NoEvent
  <2>4. e # None /\ ~h[c].early => CopyTrue(t, e, 5, ev)
    BY <2>1, <2>a DEF IInv, InvSnapshot, Quiet, Own
  <2>. QED
    BY <2>1, <2>2, <2>3, <2>4, <2>a DEF CopySane, CopyTrue
<1>. QED
  BY <1>1, Invariance, PTL

\* A whole wake is in the snapshot.
THEOREM WakeCorrect == Spec => []WakeNotMissed
<1>1. IInv => WakeNotMissed
  <2>. SUFFICES ASSUME IInv, NEW c \in CPU, Finished(c), Own(c), ~h[c].early,
                       truth[h[c].tid].whole
                PROVE  h[c].event.status = 2
    BY DEF WakeNotMissed
  <2>a. PICK t, e, ev : t = h[c].tid /\ e = h[c].elem /\ ev = h[c].event
    OBVIOUS
  <2>1. t \in Tids /\ Snaps(c, t) /\ h[c].step = 5 /\ ~h[c].lost
    BY <2>a DEF IInv, InvSched, Finished, Own, Snaps
  <2>2. PICK f \in Elements : Entry(f, t)
    BY <2>1, <2>a DEF IInv, InvWhole
  <2>3. e = f
    BY <2>1, <2>2, <2>a DEF IInv, InvHold
  <2>4. e # None
    BY <2>2, <2>3, WakeupAssumption
  <2>5. CopyTrue(t, e, 5, ev)
    BY <2>1, <2>2, <2>3, <2>4, <2>a DEF IInv, InvSnapshot, Quiet, Own
  <2>. QED
    BY <2>5, <2>a DEF CopyTrue
<1>. QED
  BY <1>1, Invariance, PTL
=============================================================================
