---------------------------- MODULE TraceCapture ----------------------------
(***************************************************************************)
(* src/trace_capture.c and the part of main in src/anettrace.c that drives *)
(* it: starting the system Perfetto process, stopping and reaping it,      *)
(* merging its trace with the network trace and cleaning up.  The Perfetto *)
(* process, the files other programs create, signals and time are the      *)
(* environment, which moves between any two steps of main.                 *)
(*                                                                         *)
(* A file is absent, another user's, or ours: empty, with data, or (the    *)
(* output) the merged result.  Time is counted in polls of                 *)
(* wait_perfetto_stop.                                                     *)
(***************************************************************************)
EXTENDS Integers

CONSTANTS
    Grace,           \* PERFETTO_STOP_TIMEOUT_MS in polls
    Idle,            \* PERFETTO_STOP_IDLE_MS in polls
    MaxWrites,       \* bound: writes of the Perfetto process while it stops
    CreateAtRename   \* other programs may create files between the last
                     \* access() and the rename()

ASSUME StopAssumption == Grace \in Nat /\ Idle \in Nat \ {0} /\ MaxWrites \in Nat
ASSUME CreateAssumption == CreateAtRename \in BOOLEAN

VARIABLES
    \* how the program was called and built
    system_only, ring_buffer, android,
    \* struct capture_state
    stop_requested, started, child_reaped, config_created, system_created,
    file,            \* the state of each file
    child, status,   \* the Perfetto process and its wait status
    sigkilled,       \* SIGKILL was sent to it
    stop,            \* a signal was received
    pc, err,         \* main: where it is, whether an error is pending
    then, back,      \* where stop_perfetto and trace_capture_abort return to
    elapsed, idle, grown,    \* wait_perfetto_stop; grown: since the last stat
    \* history: polls since the last write, writes, a signal was sent to a pid
    \* that is not ours, files created by others, stop_perfetto gave up
    quiet, writes, stray, created, given_up

args == <<system_only, ring_buffer, android>>
state == <<stop_requested, started, child_reaped, config_created, system_created>>
process == <<child, status, sigkilled>>
noted == <<created, given_up>>
timing == <<elapsed, idle, grown, quiet, writes>>
vars == <<args, state, file, process, stop, pc, err, then, back, timing, stray, noted>>

Files == {"output", "system", "network", "config", "combined"}

Init ==
    /\ system_only \in BOOLEAN /\ ring_buffer \in BOOLEAN /\ android \in BOOLEAN
    /\ stop_requested = FALSE /\ started = FALSE /\ child_reaped = FALSE
    /\ config_created = FALSE /\ system_created = FALSE
    /\ \E f \in Files \cup {"none"} :       \* at most one file is in the way
          file = [g \in Files |-> IF g = f THEN "user" ELSE "absent"]
    /\ child = "none" /\ status = "none" /\ sigkilled = FALSE
    /\ stop = FALSE
    /\ pc = "start" /\ err = FALSE /\ then = "none" /\ back = "none"
    /\ elapsed = 0 /\ idle = 0 /\ grown = TRUE
    /\ quiet = 0 /\ writes = 0 /\ stray = FALSE /\ created = 0 /\ given_up = FALSE

\* What most steps of main leave alone.
Quietly == UNCHANGED <<args, process, timing, stray, noted, stop>>

Go(where, bad) == pc' = where /\ err' = bad

Set(f, s) == file' = [file EXCEPT ![f] = s]

---------------------------------------------------------------------------
(* trace_capture_start *)

\* Mutant: nobody says where the program goes on after the abort.
BugFailStart == Go("abort", TRUE) /\ UNCHANGED back

\* trace_capture_abort on the way out of start; main then aborts once more,
\* except in a system only capture.
FailStart == Go("abort", TRUE) /\ back' = IF system_only THEN "done" ELSE "main_err"

\* Arguments and paths.
StartChecks ==
    /\ pc = "start"
    /\ LET taken == \E f \in {"output", "system", "config"} : file[f] # "absent"
           network == ~system_only /\ file["network"] # "absent"
       IN  \/ /\ taken \/ network
              /\ FailStart
           \/ /\ ~taken /\ ~network
              /\ Go("probe", FALSE) /\ UNCHANGED back
    /\ UNCHANGED <<state, file, then>> /\ Quietly

\* perfetto_supports_notify reaps its own child on every path.
Probe ==
    /\ pc = "probe"
    /\ \/ Go("config", FALSE) /\ UNCHANGED back
       \/ FailStart
    /\ UNCHANGED <<state, file, then>> /\ Quietly

WriteConfig ==
    /\ pc = "config"
    /\ \/ /\ FailStart                              \* open failed
          /\ UNCHANGED <<file, config_created>>
       \/ /\ file["config"] = "absent"
          /\ Set("config", "data") /\ config_created' = TRUE
          /\ \/ Go(IF system_only /\ ~android THEN "open_system" ELSE "fork", FALSE)
                /\ UNCHANGED back
             \/ FailStart                           \* write failed
    /\ UNCHANGED <<stop_requested, started, child_reaped, system_created, then>>
    /\ Quietly

\* Off Android a system only capture creates the trace for the child.
OpenSystem ==
    /\ pc = "open_system"
    /\ \/ /\ file["system"] = "absent"
          /\ Set("system", "empty") /\ system_created' = TRUE
          /\ Go("fork", FALSE) /\ UNCHANGED back
       \/ FailStart /\ UNCHANGED <<file, system_created>>
    /\ UNCHANGED <<stop_requested, started, child_reaped, config_created, then>>
    /\ Quietly

Fork ==
    /\ pc = "fork"
    /\ \/ /\ child' = "running" /\ started' = TRUE /\ system_created' = TRUE
          /\ Go("ready", FALSE) /\ UNCHANGED back
       \/ FailStart /\ UNCHANGED <<child, started, system_created>>
    /\ UNCHANGED <<args, stop_requested, child_reaped, config_created, file, status,
                   sigkilled, stop, then, timing, stray, noted>>

\* waitpid returned the child's status.
Reap == child = "zombie" /\ child' = "reaped" /\ UNCHANGED <<status, sigkilled>>

\* The child was reaped by start itself: it is not to be stopped.
StartReaps ==
    /\ pc \in {"ready", "check"}
    /\ Reap
    /\ started' = FALSE
    /\ FailStart
    /\ UNCHANGED <<args, stop_requested, child_reaped, config_created, system_created,
                   file, stop, then, timing, stray, noted>>

\* The acknowledgement, or 200 ms without an exit of an old Perfetto.  On a
\* timeout, a signal or an error reported by the child the start fails.
Ready ==
    /\ pc = "ready"
    /\ \/ Go("check", FALSE) /\ UNCHANGED back
       \/ FailStart
    /\ UNCHANGED <<state, file, then>> /\ Quietly

\* The last look at the child before start returns 0.
CheckChild ==
    /\ pc = "check"
    /\ child = "running"
    /\ Go(IF system_only THEN "wait_system" ELSE "open_network", FALSE)
    /\ UNCHANGED <<state, file, then, back>> /\ Quietly

---------------------------------------------------------------------------
(* trace_capture_stop, wait_perfetto_stop and stop_perfetto *)

Ours == child \in {"running", "zombie"}

\* SIGTERM, once.
TraceCaptureStop ==
    IF started /\ ~stop_requested
    THEN /\ stop_requested' = TRUE
         /\ stray' = (stray \/ ~Ours)
    ELSE UNCHANGED <<stop_requested, stray>>

\* stop_perfetto is entered; when it is done main goes on at where.
StopPerfetto(where) ==
    /\ TraceCaptureStop
    /\ pc' = "await" /\ then' = where
    /\ elapsed' = 0 /\ idle' = 0 /\ grown' = TRUE
    /\ UNCHANGED <<err, quiet, writes>>

AwaitReap ==
    /\ pc = "await"
    /\ Reap
    /\ child_reaped' = TRUE
    /\ Go(then, FALSE)
    /\ UNCHANGED <<args, stop_requested, started, config_created, system_created, file,
                   stop, then, back, timing, stray, noted>>

\* stop_perfetto returns an error without having reaped the child.
GiveUp ==
    /\ Go(then, TRUE) /\ given_up' = TRUE
    /\ UNCHANGED <<args, state, process, timing, stray, created, stop, file, then, back>>

\* stat finds no trace file.
AwaitNoFile ==
    /\ pc = "await" /\ child = "running" /\ file["system"] = "absent"
    /\ GiveUp

\* waitpid, the clock or stat failed: no evidence of a stalled writer.
AwaitFails ==
    /\ pc = "await"
    /\ GiveUp

IdleNow == IF grown THEN 0 ELSE idle

\* Mutants: the grace period alone decides; the idle limit is never passed.
BugStalled == elapsed >= Grace
BugNeverStalled == elapsed >= Grace /\ IdleNow > Idle

Stalled == elapsed >= Grace /\ IdleNow >= Idle

Upto(n, bound) == IF n < bound THEN n ELSE bound

AwaitSleep ==
    /\ pc = "await" /\ child = "running" /\ file["system"] # "absent"
    /\ ~Stalled
    /\ elapsed' = Upto(elapsed + 1, Grace) /\ idle' = Upto(IdleNow + 1, Idle)
    /\ grown' = FALSE /\ quiet' = Upto(quiet + 1, Idle)
    /\ UNCHANGED <<args, state, file, process, stop, pc, err, then, back, writes, stray,
                   noted>>

AwaitStalled ==
    /\ pc = "await" /\ child = "running" /\ file["system"] # "absent"
    /\ Stalled
    /\ pc' = "kill"
    /\ UNCHANGED <<state, file, err, then, back>> /\ Quietly

Kill ==
    /\ pc = "kill"
    /\ sigkilled' = (sigkilled \/ child = "running")
    /\ stray' = (stray \/ ~Ours)
    /\ pc' = "reap"
    /\ UNCHANGED <<args, state, file, child, status, stop, err, then, back, timing, noted>>

\* A child that exited by itself just before the SIGKILL is no error.
KillReap ==
    /\ pc = "reap"
    /\ Reap
    /\ child_reaped' = TRUE
    /\ Go(then, status = "killed")
    /\ UNCHANGED <<args, stop_requested, started, config_created, system_created, file,
                   stop, then, back, timing, stray, noted>>

\* Two seconds have passed.
KillTimeout ==
    /\ pc = "reap" /\ child = "running"
    /\ GiveUp

---------------------------------------------------------------------------
(* trace_capture_abort *)

\* Mutant: a child that was already asked to stop is not waited for.
BugMustStop == started /\ ~stop_requested

MustStop == started /\ ~child_reaped

Abort ==
    /\ pc = "abort"
    /\ IF MustStop
       THEN StopPerfetto("abort_cleanup")
       ELSE pc' = "abort_cleanup" /\ UNCHANGED <<err, then, timing, stop_requested, stray>>
    /\ UNCHANGED <<args, started, child_reaped, config_created, system_created, file,
                   process, stop, back, noted>>

\* Mutant: a failed capture is cleaned up like a finished one.
BugCleanup(failed) ==
    [file EXCEPT !["system"] = IF system_created THEN "absent" ELSE @,
                 !["network"] = IF ~system_only THEN "absent" ELSE @,
                 !["config"] = IF config_created THEN "absent" ELSE @]

\* cleanup_temporary.
CleanupTemporary(failed) ==
    [file EXCEPT !["system"] = IF ~failed /\ system_created THEN "absent" ELSE @,
                 !["network"] = IF ~failed /\ ~system_only THEN "absent" ELSE @,
                 !["config"] = IF config_created THEN "absent" ELSE @]

\* A child that is started and reaped never gets here, so started is cleared
\* on every path.
AbortCleanup ==
    /\ pc = "abort_cleanup"
    /\ file' = CleanupTemporary(TRUE)
    /\ started' = FALSE
    /\ Go(back, TRUE)
    /\ UNCHANGED <<stop_requested, child_reaped, config_created, system_created, then,
                   back>>
    /\ Quietly

---------------------------------------------------------------------------
(* main, with a network capture *)

\* perfetto_export_native_open and the rest of the setup.  A signal that
\* came before polling starts is honoured here.
OpenNetwork ==
    /\ pc = "open_network"
    /\ \/ /\ Go("main_err", TRUE) /\ UNCHANGED file
       \/ /\ file["network"] = "absent"
          /\ Set("network", "empty")
          /\ \/ ~stop /\ Go("polling", FALSE)
             \/ Go("main_err", TRUE)
    /\ UNCHANGED <<state, then, back>> /\ Quietly

\* The label err: the exporter is closed, the capture aborted.
MainErr ==
    /\ pc = "main_err"
    /\ Go("abort", TRUE) /\ back' = "done"
    /\ UNCHANGED <<state, file, then>> /\ Quietly

\* trace_poll returns, trace_capture_stop is called (in trace_poll too, once
\* it has started), finish_trace closes the network trace.
PollEnds ==
    /\ pc = "polling"
    /\ TraceCaptureStop
    /\ \E s \in {"empty", "data"} : Set("network", s)
    /\ \/ Go("finish", FALSE) /\ UNCHANGED back
       \/ Go("abort", TRUE) /\ back' = "done"     \* polling or export failed
    /\ UNCHANGED <<args, started, child_reaped, config_created, system_created, process,
                   stop, then, timing, noted>>

---------------------------------------------------------------------------
(* trace_capture_wait_system *)

\* A signal, or the end of the window.
WaitSystemStops ==
    /\ pc = "wait_system"
    /\ stop \/ ~ring_buffer
    /\ TraceCaptureStop
    /\ Go("finish", FALSE)
    /\ UNCHANGED <<args, started, child_reaped, config_created, system_created, file,
                   process, stop, then, back, timing, noted>>

WaitSystemReaps ==
    /\ pc = "wait_system"
    /\ Reap
    /\ child_reaped' = TRUE
    /\ Go("finish", FALSE)
    /\ UNCHANGED <<args, stop_requested, started, config_created, system_created, file,
                   stop, then, back, timing, stray, noted>>

WaitSystemFails ==
    /\ pc = "wait_system"
    /\ Go("abort", TRUE) /\ back' = "done"
    /\ UNCHANGED <<state, file, then>> /\ Quietly

---------------------------------------------------------------------------
(* trace_capture_finish and merge_traces *)

\* Both callers have requested a stop unless the child is reaped, so the
\* wait_child of 250 ms is never reached.
Finish ==
    /\ pc = "finish"
    /\ IF child_reaped
       THEN Go("evaluate", FALSE) /\ UNCHANGED <<then, timing, stop_requested, stray>>
       ELSE StopPerfetto("evaluate")
    /\ UNCHANGED <<args, started, child_reaped, config_created, system_created, file,
                   process, stop, back, noted>>

\* Mutant: the exit status is not looked at.
BugComplete ==
    /\ ~err
    /\ file["system"] = "data"
    /\ system_only \/ file["network"] = "data"

\* A clean exit and traces that are not empty.
Complete ==
    /\ ~err
    /\ status = "ok"
    /\ file["system"] = "data"
    /\ system_only \/ file["network"] = "data"

\* The clocks of a ring capture can fail too.
Evaluate ==
    /\ pc = "evaluate"
    /\ started' = FALSE
    /\ \/ Complete /\ Go("merge", FALSE)
       \/ ~Complete /\ Go("cleanup", TRUE)
       \/ Complete /\ ring_buffer /\ Go("cleanup", TRUE)
    /\ UNCHANGED <<stop_requested, child_reaped, config_created, system_created, file,
                   then, back>>
    /\ Quietly

MergeOpen ==
    /\ pc = "merge"
    /\ \/ file["combined"] = "absent" /\ Set("combined", "empty") /\ Go("copy", FALSE)
       \/ Go("cleanup", TRUE) /\ UNCHANGED file
    /\ UNCHANGED <<state, then, back>> /\ Quietly

\* Copy or trim, fsync, close.
MergeCopy ==
    /\ pc = "copy"
    /\ \/ Set("combined", "data") /\ Go("access", FALSE)
       \/ Set("combined", "absent") /\ Go("cleanup", TRUE)
    /\ UNCHANGED <<state, then, back>> /\ Quietly

MergeAccess ==
    /\ pc = "access"
    /\ IF file["output"] = "absent"
       THEN Go("rename", FALSE) /\ UNCHANGED file
       ELSE Set("combined", "absent") /\ Go("cleanup", TRUE)
    /\ UNCHANGED <<state, then, back>> /\ Quietly

RenameFails == Set("combined", "absent") /\ Go("cleanup", TRUE)

MergeRename ==
    /\ pc = "rename"
    /\ \/ /\ file' = [file EXCEPT !["combined"] = "absent", !["output"] = "result"]
          /\ Go("cleanup", FALSE)
       \/ RenameFails
    /\ UNCHANGED <<state, then, back>> /\ Quietly

FinishCleanup ==
    /\ pc = "cleanup"
    /\ file' = CleanupTemporary(err)
    /\ pc' = "done"
    /\ UNCHANGED <<state, err, then, back>> /\ Quietly

---------------------------------------------------------------------------
(* The environment *)

ChildCreates ==
    /\ child = "running" /\ file["system"] = "absent" /\ pc # "done"
    /\ Set("system", "empty")
    /\ UNCHANGED <<args, state, process, stop, pc, err, then, back, timing, stray, noted>>

\* A write is seen by the next stat.  Before the stop only the first counts.
ChildWrites ==
    /\ child = "running" /\ file["system"] \in {"empty", "data"} /\ pc # "done"
    /\ pc = "await" \/ file["system"] = "empty"
    /\ writes < MaxWrites
    /\ Set("system", "data")
    /\ writes' = writes + 1 /\ grown' = TRUE /\ quiet' = 0
    /\ UNCHANGED <<args, state, process, stop, pc, err, then, back, elapsed, idle, stray,
                   noted>>

ChildExits ==
    /\ child = "running" /\ pc # "done"
    /\ child' = "zombie"
    /\ status' \in IF sigkilled THEN {"killed"} ELSE {"ok", "failed"}
    /\ UNCHANGED <<args, state, file, sigkilled, stop, pc, err, then, back, timing, stray,
                   noted>>

SignalStop ==
    /\ ~stop /\ pc # "done"
    /\ stop' = TRUE
    /\ UNCHANGED <<args, state, file, process, pc, err, then, back, timing, stray, noted>>

\* Another program creates one of the files: not the system trace, which
\* Perfetto itself opens by name, and not the configuration once it was
\* unlinked, which a second abort unlinks again.
OthersCreate(f) ==
    /\ created = 0 /\ pc # "done"
    /\ file[f] = "absent"
    /\ CreateAtRename \/ pc # "rename"
    /\ f = "config" => ~config_created
    /\ Set(f, "user") /\ created' = 1
    /\ UNCHANGED <<args, state, process, stop, pc, err, then, back, timing, stray,
                   given_up>>

Steps ==
    \/ StartChecks \/ Probe \/ WriteConfig \/ OpenSystem \/ Fork \/ StartReaps
    \/ Ready \/ CheckChild
    \/ AwaitReap \/ AwaitNoFile \/ AwaitSleep \/ AwaitStalled \/ Kill \/ KillReap
    \/ KillTimeout \/ Abort \/ AbortCleanup
    \/ OpenNetwork \/ MainErr \/ PollEnds
    \/ WaitSystemStops \/ WaitSystemReaps
    \/ Finish \/ Evaluate \/ MergeOpen \/ MergeCopy \/ MergeAccess \/ MergeRename
    \/ FinishCleanup

\* System calls that fail without a reason in the model.
Faults == AwaitFails \/ WaitSystemFails

Environment ==
    \/ ChildCreates \/ ChildWrites \/ ChildExits \/ SignalStop
    \/ \E f \in Files \ {"system"} : OthersCreate(f)

Next == Steps \/ Faults \/ Environment

Spec == Init /\ [][Next]_vars

\* main runs, and trace_poll returns once it is told to (CapturePipeline).
\* Nothing is assumed of faults or of the Perfetto process: it may never
\* create its file, write or exit.
FairSpec == Spec /\ WF_vars(Steps)

---------------------------------------------------------------------------
(* Properties *)

Places == {"start", "probe", "config", "open_system", "fork", "ready", "check",
           "wait_system", "open_network", "main_err", "polling", "await", "kill",
           "reap", "abort", "abort_cleanup", "finish", "evaluate", "merge", "copy",
           "access", "rename", "cleanup", "done"}

\* Types.  Every abort and every stop knows where it returns to.
TypeOK ==
    /\ system_only \in BOOLEAN /\ ring_buffer \in BOOLEAN /\ android \in BOOLEAN
    /\ stop_requested \in BOOLEAN /\ started \in BOOLEAN /\ child_reaped \in BOOLEAN
    /\ config_created \in BOOLEAN /\ system_created \in BOOLEAN
    /\ file \in [Files -> {"absent", "user", "empty", "data", "result"}]
    /\ child \in {"none", "running", "zombie", "reaped"}
    /\ status \in {"none", "ok", "failed", "killed"} /\ sigkilled \in BOOLEAN
    /\ stop \in BOOLEAN /\ err \in BOOLEAN /\ stray \in BOOLEAN
    /\ pc \in Places /\ then \in Places \cup {"none"} /\ back \in Places \cup {"none"}
    /\ elapsed \in 0..Grace /\ idle \in 0..Idle /\ quiet \in 0..Idle
    /\ grown \in BOOLEAN /\ writes \in 0..MaxWrites /\ created \in 0..1
    /\ given_up \in BOOLEAN

\* Whatever fails, no configuration and no staging file stays behind.
\* Success means that Perfetto was reaped after a clean exit, the merged
\* trace is in place, and nothing else of the capture is left.
EndsClean ==
    pc = "done" =>
        /\ \A f \in {"config", "combined"} : file[f] \in {"absent", "user"}
        /\ ~err => /\ child = "reaped" /\ status = "ok"
                   /\ file["output"] = "result"
                   /\ \A f \in Files \ {"output"} : file[f] \in {"absent", "user"}

\* SIGKILL is only decided on after the whole grace period and after the
\* trace has not grown for the whole idle limit.
KillJustified ==
    [][pc = "await" /\ pc' = "kill" => elapsed >= Grace /\ quiet >= Idle]_vars

\* Perfetto is neither confused with another process nor forgotten: no signal
\* is ever sent once it was reaped, since its pid may belong to another
\* program by then; and no path leaves it unreaped unless it was asked to
\* stop, was waited for in vain and the program reports an error.
ChildAccounted ==
    /\ ~stray
    /\ pc = "done" /\ Ours => stop_requested /\ given_up /\ err

KeepsOriginals ==
    \A f \in {"system", "network"} :
        file[f] \in {"empty", "data"} /\ file'[f] = "absent" =>
            file["output"] = "result" /\ child = "reaped"
KeepsUserFiles == \A f \in Files : file[f] = "user" => file'[f] = "user"

\* No trace is lost: a system or network trace is only deleted once the merged
\* trace exists and Perfetto, its writer, is gone; and a file of another
\* program is neither overwritten nor deleted.
FilesKept == [][KeepsOriginals /\ KeepsUserFiles]_vars

\* A file of another program is neither overwritten nor deleted, also when it
\* appears between access() and rename().
UserFilesKept == [][KeepsUserFiles]_vars

\* A signal ends the program, even if Perfetto hangs: a stalled child is
\* killed, and one that cannot be reaped is given up.
SignalEnds == stop ~> pc = "done"
=============================================================================
