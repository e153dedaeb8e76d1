--------------------------- MODULE NetworkWakeup ----------------------------
(* The wake that preceded a network system call (progs/network_wakeup.h).    *)
(*                                                                           *)
(* Handlers of sched_waking, sched_wakeup and sched_switch write the         *)
(* scheduling history of a traced task into its entry of m_network_wakeups,  *)
(* an LRU map by thread id, and network_wakeup_snapshot copies it at         *)
(* sys_enter.  Nothing locks the entry: a waker on another CPU writes it     *)
(* while its target is still running, is being switched out, has exited and  *)
(* left its id to another task, or after the element was given to another    *)
(* key.  The scheduler, which is not part of the program, is modelled as far *)
(* as it orders the tracepoints: wakers of a task exclude each other         *)
(* (pi_lock), except that a task may be woken on its own CPU; sched_wakeup   *)
(* and sched_switch of one task exclude each other (the run queue's lock); a *)
(* task that is running or queued is woken where it is; and a task does not  *)
(* exit while a waker holds its lock.                                        *)
EXTENDS Naturals, FiniteSets

CONSTANTS
    Tids,           \* thread ids of traced tasks
    CPU,
    Elements,       \* elements of m_network_wakeups
    None,
    MaxTime         \* bound: readings of the clock

ASSUME WakeupAssumption ==
    /\ None \notin Tids \cup CPU \cup Elements
    /\ CPU \cap {"queue", "off"} = {}
    /\ MaxTime \in Nat \ {0}

VARIABLES
    now,    \* bpf_ktime_get_ns
    task,   \* per thread id: its task in the scheduler; start_time is the birth
    elem,   \* network_wakeup_state_t, and the key it is stored under
    h,      \* per CPU: the handler it is in
    truth   \* history, per thread id: what really preceded the present run

vars == <<now, task, elem, h, truth>>

Time == 0..MaxTime
TaskContext == 1
Contexts == {0, TaskContext}        \* 0: an interrupt, or not known

\* network_syscall_event_t: status 1 unknown, 2 observed, 3 run without wake.
NoEvent == [status |-> 1, waking |-> 0, wakeup |-> 0, run |-> 0, ctx |-> 0, waker |-> 0]
Idle == [op |-> "idle", step |-> 0, tid |-> None, next |-> None, elem |-> None,
         lost |-> FALSE, early |-> FALSE, ts |-> 0, ctx |-> 0, event |-> NoEvent]
NoTruth == [waking |-> 0, wakeup |-> 0, run |-> 0, waker |-> 0, whole |-> FALSE]
Fresh(t) == [tid |-> t, birth |-> task[t].birth, foreign |-> FALSE,
             waking |-> 0, wakeup |-> 0, run |-> 0, ctx |-> 0, waker |-> 0]

Init ==
    /\ now = 1
    /\ task = [t \in Tids |-> [birth |-> 1, where |-> "queue", state |-> "running"]]
    /\ elem = [e \in Elements |-> [tid |-> None, birth |-> 0, foreign |-> FALSE, waking |-> 0,
                                   wakeup |-> 0, run |-> 0, ctx |-> 0, waker |-> 0]]
    /\ h = [c \in CPU |-> Idle]
    /\ truth = [t \in Tids |-> NoTruth]

On(c) == {t \in Tids : task[t].where = c}
Running(c) == IF On(c) = {} THEN None ELSE CHOOSE t \in On(c) : TRUE
MidSwitch(t) == \E c \in CPU : h[c].op = "switch" /\ t \in {h[c].tid, h[c].next}
Wakers(t) == {c \in CPU : h[c].op = "waking" /\ h[c].tid = t}
Tick == now < MaxTime /\ now' = now + 1

-----------------------------------------------------------------------------
(* The map.                                                                  *)

\* bpf_map_lookup_elem
Lookup(t) == IF \E e \in Elements : elem[e].tid = t
             THEN CHOOSE e \in Elements : elem[e].tid = t ELSE None

\* Elements taken from their key: a handler that found one of them before
\* still holds it.
Losing(handlers, gone) ==
    [c \in CPU |-> IF handlers[c].elem \in gone THEN [handlers[c] EXCEPT !.lost = TRUE]
                   ELSE handlers[c]]

\* Their keys keep no whole wake.
Forgetting(history, gone) ==
    [t \in Tids |-> IF \E e \in gone : elem[e].tid = t THEN [history[t] EXCEPT !.whole = FALSE]
                   ELSE history[t]]

\* The LRU map gives an element to a key outside the model.
Evict(e) ==
    /\ elem[e].tid # None
    /\ truth' = Forgetting(truth, {e})
    /\ elem' = [elem EXCEPT ![e].tid = None]
    /\ h' = Losing(h, {e})
    /\ UNCHANGED <<now, task>>

SameTask(e, t) == e # None /\ elem[e].birth = task[t].birth

\* bpf_map_update_elem: the key moves to another element.
BugInserted(t, old, new) == [elem EXCEPT ![new] = Fresh(t)]
Inserted(t, old, new) ==
    [e \in Elements |-> CASE e = new -> Fresh(t)
                          [] e = old -> [elem[e] EXCEPT !.tid = None]
                          [] OTHER -> elem[e]]

\* network_wakeup_current for the task t on c, which goes on as handler: the
\* entry of this very task, or a new one in place of what the id's former
\* owner left, in a free element or in that of another key.
Current(c, t, handler, history) ==
    LET old == Lookup(t)
        Hold(e, gone) ==
            /\ h' = [Losing(h, gone) EXCEPT ![c] = [handler EXCEPT !.elem = e]]
            /\ truth' = Forgetting(history, gone)
    IN \/ /\ SameTask(old, t)
          /\ Hold(old, {})
          /\ UNCHANGED elem
       \/ /\ ~SameTask(old, t)
          /\ \/ /\ Hold(None, {})
                /\ UNCHANGED elem
             \/ \E new \in Elements \ {old} :
                   /\ Hold(new, {new, old} \ {None})
                   /\ elem' = Inserted(t, old, new)

\* network_wakeup_clear, in the order of its assignments.
Clear(x, step) ==
    CASE step = 1 -> [x EXCEPT !.waking = 0, !.wakeup = 0, !.run = 0]
      [] step = 2 -> [x EXCEPT !.waker = 0]
      [] step = 3 -> [x EXCEPT !.ctx = 0]

\* A handler's store into the element it holds, whosever it is by now.
Store(c, x) ==
    elem' = [elem EXCEPT ![h[c].elem] =
                [x EXCEPT !.foreign = @ \/ (h[c].lost /\ x.tid # None)]]

-----------------------------------------------------------------------------
(* sched_waking and sched_wakeup.                                            *)

\* try_to_wake_up on CPU c, by its current task or by an interrupt, and the
\* lookup of network_sched_waking.
SchedWaking(c, t, ctx) ==
    /\ h[c] = Idle
    /\ task[t].state = "sleeping"
    /\ Wakers(t) = {} \/ task[t].where = c
    /\ h' = [h EXCEPT ![c] = [Idle EXCEPT
                !.op = "waking", !.tid = t, !.ctx = ctx, !.elem = Lookup(t),
                !.step = IF Lookup(t) = None THEN 7 ELSE 1,
                !.early = task[t].where # "off" \/ MidSwitch(t)]]
    /\ truth' = [truth EXCEPT ![t].whole = @ /\ task[t].where \notin CPU]
    /\ UNCHANGED <<now, task, elem>>

\* network_sched_waking: clear, waking_ts, waking_context and, in the context
\* of a task, the identity of the waker (known here by the time of its wake).
WakingStep(c) ==
    /\ h[c].op = "waking" /\ h[c].step \in 1..6
    /\ LET x == elem[h[c].elem]
       IN CASE h[c].step \in 1..3 -> Store(c, Clear(x, h[c].step)) /\ UNCHANGED now
            [] h[c].step = 4 -> Tick /\ Store(c, [x EXCEPT !.waking = now + 1])
            [] h[c].step = 5 -> Store(c, [x EXCEPT !.ctx = h[c].ctx]) /\ UNCHANGED now
            [] h[c].step = 6 -> /\ Store(c, IF x.ctx = TaskContext
                                            THEN [x EXCEPT !.waker = h[c].ts] ELSE x)
                                /\ UNCHANGED now
    /\ h' = [h EXCEPT ![c].step = @ + 1, ![c].ts = IF h[c].step = 4 THEN now + 1 ELSE @]
    /\ UNCHANGED <<task, truth>>

\* sched_wakeup belongs to a wake that was seen, and comes before the run.
BugWakeExpected(x) == x.waking # 0 /\ x.run # 0
WakeExpected(x) == x.waking # 0 /\ x.run = 0

\* The task becomes TASK_RUNNING, and network_sched_wakeup.  Which CPU does
\* this does not matter to the handler.
SchedWakeup(c) ==
    LET t == h[c].tid
        e == Lookup(t)
    IN /\ h[c].op = "waking" /\ h[c].step = 7
       /\ ~MidSwitch(t)
       /\ Tick
       /\ task' = [task EXCEPT ![t].state = "running",
                               ![t].where = IF @ = "off" THEN "queue" ELSE @]
       /\ elem' = IF e # None /\ WakeExpected(elem[e])
                  THEN [elem EXCEPT ![e].wakeup = now + 1] ELSE elem
       /\ truth' = IF task[t].where \in CPU THEN truth
                   ELSE [truth EXCEPT ![t] =
                           [waking |-> h[c].ts, wakeup |-> now + 1, run |-> 0,
                            waker |-> IF h[c].ctx = TaskContext THEN h[c].ts ELSE 0,
                            whole |-> ~h[c].early /\ ~h[c].lost /\ SameTask(h[c].elem, t)]]
       /\ h' = [h EXCEPT ![c] = Idle]

-----------------------------------------------------------------------------
(* sched_switch.                                                             *)

\* CPU c leaves its task, which sleeps, is preempted or has exited, and
\* network_sched_switch finds the entry of prev, who is still current.
SchedSwitch(c, next, preempt) ==
    LET prev == Running(c)
        handler == [Idle EXCEPT !.op = "switch", !.step = 1, !.tid = prev, !.next = next]
    IN /\ h[c] = Idle
       /\ next # prev
       /\ next # None => task[next].where = "queue" /\ ~MidSwitch(next)
       /\ IF prev = None
          THEN /\ h' = [h EXCEPT ![c] = handler]
               /\ UNCHANGED <<task, elem, truth>>
          ELSE /\ Current(c, prev, handler, [truth EXCEPT ![prev] = NoTruth])
               /\ task' = [task EXCEPT ![prev].where =
                     IF \/ task[prev].state = "dead"
                        \/ task[prev].state = "sleeping" /\ ~preempt
                     THEN "off" ELSE "queue"]
       /\ UNCHANGED now

BugSwitchClear(c) ==
    /\ h[c].op = "switch" /\ h[c].step \in 1..3 /\ h[c].elem # None
    /\ IF task[h[c].tid].where = "queue" THEN UNCHANGED elem
       ELSE Store(c, Clear(elem[h[c].elem], h[c].step))
    /\ h' = [h EXCEPT ![c].step = @ + 1]
    /\ UNCHANGED <<now, task, truth>>
\* network_wakeup_clear of prev.
SwitchClear(c) ==
    /\ h[c].op = "switch" /\ h[c].step \in 1..3 /\ h[c].elem # None
    /\ Store(c, Clear(elem[h[c].elem], h[c].step))
    /\ h' = [h EXCEPT ![c].step = @ + 1]
    /\ UNCHANGED <<now, task, truth>>

\* run_start_ts of next, whose generation is not known here; next runs.
SwitchNext(c) ==
    LET next == h[c].next
        e == IF next = None THEN None ELSE Lookup(next)
    IN /\ h[c].op = "switch" /\ (h[c].step = 4 \/ h[c].elem = None)
       /\ h' = [h EXCEPT ![c] = Idle]
       /\ IF next = None
          THEN UNCHANGED <<now, task, truth, elem>>
          ELSE /\ Tick
               /\ task' = [task EXCEPT ![next].where = c]
               /\ truth' = [truth EXCEPT ![next].run = now + 1]
               /\ elem' = IF e = None THEN elem ELSE [elem EXCEPT ![e].run = now + 1]

-----------------------------------------------------------------------------
(* The task.                                                                 *)

\* sys_enter: start_ts, and network_wakeup_current of network_wakeup_snapshot.
Snapshot(c) ==
    LET t == Running(c)
    IN /\ h[c] = Idle
       /\ t # None /\ task[t].state = "running"
       /\ Tick
       /\ Current(c, t, [Idle EXCEPT !.op = "snapshot", !.step = 1, !.tid = t,
                                     !.ts = now + 1, !.early = Wakers(t) # {}], truth)
       /\ UNCHANGED task

RunKnown(x, ts) == x.run # 0 /\ x.run <= ts
WakeKnown(x) == x.waking # 0 /\ x.wakeup >= x.waking /\ x.run >= x.wakeup

\* network_wakeup_snapshot reads the entry again for every check and copy.
SnapshotStep(c) ==
    /\ h[c].op = "snapshot" /\ h[c].step \in 1..4
    /\ LET x == elem[h[c].elem]
           Goto(step, event) ==
               h' = [h EXCEPT ![c].step = step, ![c].event = event]
           event == h[c].event
       IN CASE h[c].step = 1 ->
                  Goto(IF h[c].elem # None /\ RunKnown(x, h[c].ts) THEN 2 ELSE 5, event)
            [] h[c].step = 2 ->
                  Goto(IF WakeKnown(x) THEN 3 ELSE 5,
                       [event EXCEPT !.status = 3, !.run = x.run])
            [] h[c].step = 3 ->
                  Goto(4, [event EXCEPT !.status = 2, !.waking = x.waking, !.wakeup = x.wakeup])
            [] h[c].step = 4 ->
                  Goto(5, [event EXCEPT !.waker = x.waker, !.ctx = x.ctx])
    /\ UNCHANGED <<now, task, elem, truth>>

SnapshotEnd(c) ==
    /\ h[c].op = "snapshot" /\ h[c].step = 5
    /\ h' = [h EXCEPT ![c] = Idle]
    /\ UNCHANGED <<now, task, elem, truth>>

\* The task means to sleep, or finds that it need not.
SetState(t, from, to) ==
    /\ task[t].where \in CPU /\ h[task[t].where] = Idle
    /\ task[t].state = from
    /\ to = "dead" => Wakers(t) = {}
    /\ task' = [task EXCEPT ![t].state = to]
    /\ UNCHANGED <<now, elem, h, truth>>

\* Another task gets the id of one that has exited.
Fork(t) ==
    /\ task[t].state = "dead" /\ task[t].where = "off" /\ ~MidSwitch(t)
    /\ Tick
    /\ task' = [task EXCEPT ![t] = [birth |-> now + 1, where |-> "queue", state |-> "running"]]
    /\ truth' = [truth EXCEPT ![t] = NoTruth]
    /\ UNCHANGED <<elem, h>>

Next ==
    \/ \E e \in Elements : Evict(e)
    \/ \E c \in CPU :
          \/ \E t \in Tids, ctx \in Contexts : SchedWaking(c, t, ctx)
          \/ \E next \in Tids \cup {None}, preempt \in BOOLEAN : SchedSwitch(c, next, preempt)
          \/ WakingStep(c)
          \/ SchedWakeup(c)
          \/ SwitchClear(c)
          \/ SwitchNext(c)
          \/ Snapshot(c)
          \/ SnapshotStep(c)
          \/ SnapshotEnd(c)
    \/ \E t \in Tids :
          \/ SetState(t, "running", "sleeping")
          \/ SetState(t, "sleeping", "running")
          \/ SetState(t, "running", "dead")
          \/ Fork(t)

Spec == Init /\ [][Next]_vars

-----------------------------------------------------------------------------
(* Properties.                                                               *)

\* Types; an id has at most one entry.
TypeOK ==
    /\ now \in Time
    /\ \A t \in Tids :
          /\ task[t].birth \in Time
          /\ task[t].where \in CPU \cup {"queue", "off"}
          /\ task[t].state \in {"running", "sleeping", "dead"}
    /\ \A c \in CPU : Cardinality(On(c)) <= 1
    /\ \A e \in Elements :
          /\ elem[e].tid \in Tids \cup {None} /\ elem[e].ctx \in Contexts
          /\ {elem[e].birth, elem[e].waking, elem[e].wakeup, elem[e].run, elem[e].waker}
                \subseteq Time
          /\ \A f \in Elements : e # f => elem[e].tid # elem[f].tid \/ elem[e].tid = None
    /\ \A c \in CPU :
          /\ h[c].op \in {"idle", "waking", "switch", "snapshot"}
          /\ h[c].elem \in Elements \cup {None} /\ h[c].step \in 0..7

\* The snapshot that c has just finished.
Finished(c) == h[c].op = "snapshot" /\ h[c].step = 5
\* Its element was never written through a pointer older than its entry.
Own(c) == ~h[c].lost /\ (h[c].elem # None => ~elem[h[c].elem].foreign)

\* What a system call reports is what preceded it: the run is the present one,
\* and "observed" means that one wake of this very task, with these times and
\* this waker, made it runnable before the run.  A preempted task does not
\* inherit the wake of an earlier run.  This holds unless a waker that found
\* the task about to sleep is still in its handler when the task, after all
\* awake, enters the call; even then nothing is taken from the time before
\* the task was born.
SnapshotIsTrue ==
    \A c \in CPU : Finished(c) /\ Own(c) =>
        LET event == h[c].event
            was == truth[h[c].tid]
        IN /\ event.waking # 0 => event.waking > task[h[c].tid].birth
           /\ ~h[c].early =>
                 /\ event.status \in {2, 3} => event.run = was.run
                 /\ event.status = 2 =>
                       /\ event.waking # 0
                       /\ event.waking = was.waking /\ event.wakeup = was.wakeup
                       /\ event.ctx = TaskContext => event.waker = was.waker

\* A wake is not missed: if the task was asleep and had its entry when it was
\* woken, and keeps the entry, the call reports the wake.
WakeNotMissed ==
    \A c \in CPU : Finished(c) /\ Own(c) /\ ~h[c].early /\ truth[h[c].tid].whole =>
        h[c].event.status = 2
=============================================================================
