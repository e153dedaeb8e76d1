------------------------ MODULE TraceCaptureProofs ------------------------
(***************************************************************************)
(* TraceCapture keeps its safety properties for every grace period, idle   *)
(* limit and number of writes, whatever fails and whenever the Perfetto    *)
(* process exits.                                                          *)
(*                                                                         *)
(* The argument follows the program counter of main.  InvControl says what *)
(* main may rely on at each place: before the fork there is no child, while *)
(* it captures or stops the child is started and not reaped, once it       *)
(* merges the child was reaped after a clean exit.  InvChild relates the   *)
(* flags of the capture state to the child itself, InvFiles says which     *)
(* files are ours at each place, InvIdle relates the idle counter to the   *)
(* time that really passed.                                                *)
(***************************************************************************)
EXTENDS TraceCapture, TLAPS

(* The invariant, in parts *)

BeforeFork == {"start", "probe", "config", "open_system", "fork"}
Capturing == {"ready", "check", "wait_system", "open_network", "polling"}
Stopping == {"await", "kill", "reap"}
Aborting == {"abort", "abort_cleanup"}
Merging == {"merge", "copy", "access", "rename"}

\* A file of this capture: not absent, and not another program's.
Made(f) == file[f] \notin {"absent", "user"}

\* The pid in the capture state is that of a child not yet reaped for as long
\* as a signal may be sent to it, and a child that is no longer tracked was
\* asked to stop and given up.
InvChild ==
    /\ ~stray
    /\ started /\ ~child_reaped => Ours
    /\ started => child # "none"
    /\ child_reaped => child = "reaped"
    /\ Ours /\ ~started => stop_requested /\ given_up

\* What main knows at each place.
InvControl ==
    /\ pc \in BeforeFork => child = "none" /\ ~started /\ ~child_reaped
    /\ pc \in Capturing => started /\ ~child_reaped
    /\ pc \in {"wait_system", "finish"} => started
    /\ pc \in {"open_network", "polling"} => ~system_only
    /\ pc \in Stopping => /\ started /\ ~child_reaped /\ stop_requested
                          /\ then \in {"abort_cleanup", "evaluate"}
    /\ pc \in Aborting \/ (pc \in Stopping /\ then = "abort_cleanup") =>
           back \in {"done", "main_err"}
    /\ pc \in {"abort_cleanup", "evaluate"} /\ Ours => stop_requested /\ given_up
    /\ pc = "evaluate" => child = "reaped" \/ (Ours /\ err)
    /\ pc \in Merging \/ (pc \in {"cleanup", "done"} /\ ~err) =>
           child = "reaped" /\ status = "ok" /\ ~err
    /\ pc \in Merging \cup {"cleanup", "done"} => ~started

\* Which files are there, and whose they are.
InvFiles ==
    /\ Made("config") => config_created
    /\ file["config"] = "user" => ~config_created
    /\ pc \in {"start", "probe", "config"} => ~config_created
    /\ Made("combined") <=> pc \in {"copy", "access", "rename"}
    /\ file["output"] \in {"absent", "user", "result"}
    /\ file["output"] = "result" <=> pc \in {"cleanup", "done"} /\ ~err
    /\ pc = "rename" /\ ~CreateAtRename => file["output"] = "absent"
    /\ file["system"] = "user" =>
           child = "none" /\ pc \in {"start", "main_err", "done"} \cup Aborting
    /\ child # "none" => system_created
    /\ Made("network") => ~system_only
    /\ pc = "polling" => Made("network")
    /\ pc \in Merging \/ (pc = "cleanup" /\ ~err) => system_only \/ Made("network")
    /\ pc = "done" => ~Made("config")
    /\ pc = "done" /\ ~err => ~Made("system") /\ ~Made("network")

\* The idle counter of wait_perfetto_stop never runs ahead of the time that
\* really passed since the last write.
InvIdle == ~grown => idle <= quiet

IInv == TypeOK /\ InvChild /\ InvControl /\ InvFiles /\ InvIdle

\* TypeOK in parts that one prover call can handle.
TypeErr == err \in BOOLEAN

TypeState ==
    /\ system_only \in BOOLEAN /\ ring_buffer \in BOOLEAN /\ android \in BOOLEAN
    /\ stop_requested \in BOOLEAN /\ started \in BOOLEAN /\ child_reaped \in BOOLEAN
    /\ config_created \in BOOLEAN /\ system_created \in BOOLEAN

TypeFlags ==
    /\ sigkilled \in BOOLEAN /\ grown \in BOOLEAN /\ stop \in BOOLEAN
    /\ stray \in BOOLEAN /\ given_up \in BOOLEAN

TypeFiles == file \in [Files -> {"absent", "user", "empty", "data", "result"}]

TypeChild ==
    /\ child \in {"none", "running", "zombie", "reaped"}
    /\ status \in {"none", "ok", "failed", "killed"}

TypePlaces ==
    /\ pc \in Places /\ then \in Places \cup {"none"} /\ back \in Places \cup {"none"}

TypeCounts ==
    /\ elapsed \in 0..Grace /\ idle \in 0..Idle /\ quiet \in 0..Idle
    /\ writes \in 0..MaxWrites /\ created \in 0..1

---------------------------------------------------------------------------
(* Types are preserved *)

\* main's pending error stays a flag.
LEMMA ErrStep ==
    ASSUME IInv, Next
    PROVE  TypeErr'
<1>. USE DEF Go, Set, Quietly, args, state, process, timing, noted, IInv, TypeOK,
             TypeErr
<1>1. CASE StartChecks \/ Probe \/ WriteConfig \/ OpenSystem \/ Fork \/ StartReaps
          \/ Ready \/ CheckChild
  BY <1>1 DEF StartChecks, FailStart, Probe, WriteConfig, OpenSystem, Fork,
             StartReaps, Reap, Ready, CheckChild
<1>2. CASE AwaitReap \/ AwaitNoFile \/ AwaitFails \/ AwaitSleep \/ AwaitStalled \/
          Kill \/ KillReap \/ KillTimeout
  BY <1>2 DEF AwaitReap, Reap, AwaitNoFile, GiveUp, AwaitFails, AwaitSleep,
             Stalled, IdleNow, Upto, AwaitStalled, Kill, KillReap, KillTimeout
<1>3. CASE Abort \/ AbortCleanup \/ OpenNetwork \/ MainErr \/ PollEnds
  BY <1>3 DEF Abort, StopPerfetto, TraceCaptureStop, MustStop, AbortCleanup,
             CleanupTemporary, OpenNetwork, MainErr, PollEnds
<1>4. CASE WaitSystemStops \/ WaitSystemReaps \/ WaitSystemFails
  BY <1>4 DEF WaitSystemStops, TraceCaptureStop, WaitSystemReaps, Reap,
             WaitSystemFails
<1>5. CASE Finish \/ Evaluate \/ MergeOpen \/ MergeCopy \/ MergeAccess \/
          MergeRename \/ FinishCleanup
  BY <1>5 DEF Finish, StopPerfetto, TraceCaptureStop, Evaluate, Complete,
             MergeOpen, MergeCopy, MergeAccess, MergeRename, RenameFails,
             FinishCleanup, CleanupTemporary
<1>6. CASE ChildCreates \/ ChildWrites \/ ChildExits \/ SignalStop
  BY <1>6 DEF ChildCreates, ChildWrites, ChildExits, SignalStop
<1>7. ASSUME NEW f \in Files \ {"system"}, OthersCreate(f) PROVE TypeErr'
  BY <1>7 DEF OthersCreate
<1>. QED
  BY <1>1, <1>2, <1>3, <1>4, <1>5, <1>6, <1>7 DEF Next, Steps, Faults, Environment

\* The arguments and the flags of the capture state stay flags.
LEMMA StateStep ==
    ASSUME IInv, Next
    PROVE  TypeState'
<1>. USE DEF Go, Set, Quietly, args, state, process, timing, noted, IInv, TypeOK,
             TypeState
<1>1. CASE StartChecks \/ Probe \/ WriteConfig \/ OpenSystem \/ Fork \/ StartReaps
          \/ Ready \/ CheckChild
  BY <1>1 DEF StartChecks, FailStart, Probe, WriteConfig, OpenSystem, Fork,
             StartReaps, Reap, Ready, CheckChild
<1>2. CASE AwaitReap \/ AwaitNoFile \/ AwaitFails \/ AwaitSleep \/ AwaitStalled \/
          Kill \/ KillReap \/ KillTimeout
  BY <1>2 DEF AwaitReap, Reap, AwaitNoFile, GiveUp, AwaitFails, AwaitSleep,
             Stalled, IdleNow, Upto, AwaitStalled, Kill, KillReap, KillTimeout
<1>3. CASE Abort \/ AbortCleanup \/ OpenNetwork \/ MainErr \/ PollEnds
  BY <1>3 DEF Abort, StopPerfetto, TraceCaptureStop, MustStop, AbortCleanup,
             CleanupTemporary, OpenNetwork, MainErr, PollEnds
<1>4. CASE WaitSystemStops \/ WaitSystemReaps \/ WaitSystemFails
  BY <1>4 DEF WaitSystemStops, TraceCaptureStop, WaitSystemReaps, Reap,
             WaitSystemFails
<1>5. CASE Finish \/ Evaluate \/ MergeOpen \/ MergeCopy \/ MergeAccess \/
          MergeRename \/ FinishCleanup
  BY <1>5 DEF Finish, StopPerfetto, TraceCaptureStop, Evaluate, Complete,
             MergeOpen, MergeCopy, MergeAccess, MergeRename, RenameFails,
             FinishCleanup, CleanupTemporary
<1>6. CASE ChildCreates \/ ChildWrites \/ ChildExits \/ SignalStop
  BY <1>6 DEF ChildCreates, ChildWrites, ChildExits, SignalStop
<1>7. ASSUME NEW f \in Files \ {"system"}, OthersCreate(f) PROVE TypeState'
  BY <1>7 DEF OthersCreate
<1>. QED
  BY <1>1, <1>2, <1>3, <1>4, <1>5, <1>6, <1>7 DEF Next, Steps, Faults, Environment

\* So do what is known of signals, growth and giving up.
LEMMA FlagsStep ==
    ASSUME IInv, Next
    PROVE  TypeFlags'
<1>. USE DEF Go, Set, Quietly, args, state, process, timing, noted, IInv, TypeOK,
             TypeFlags
<1>1. CASE StartChecks \/ Probe \/ WriteConfig \/ OpenSystem \/ Fork \/ StartReaps
          \/ Ready \/ CheckChild
  BY <1>1 DEF StartChecks, FailStart, Probe, WriteConfig, OpenSystem, Fork,
             StartReaps, Reap, Ready, CheckChild
<1>2. CASE AwaitReap \/ AwaitNoFile \/ AwaitFails \/ AwaitSleep \/ AwaitStalled \/
          Kill \/ KillReap \/ KillTimeout
  BY <1>2 DEF AwaitReap, Reap, AwaitNoFile, GiveUp, AwaitFails, AwaitSleep,
             Stalled, IdleNow, Upto, AwaitStalled, Kill, KillReap, KillTimeout
<1>3. CASE Abort \/ AbortCleanup \/ OpenNetwork \/ MainErr \/ PollEnds
  BY <1>3 DEF Abort, StopPerfetto, TraceCaptureStop, MustStop, AbortCleanup,
             CleanupTemporary, OpenNetwork, MainErr, PollEnds
<1>4. CASE WaitSystemStops \/ WaitSystemReaps \/ WaitSystemFails
  BY <1>4 DEF WaitSystemStops, TraceCaptureStop, WaitSystemReaps, Reap,
             WaitSystemFails
<1>5. CASE Finish \/ Evaluate \/ MergeOpen \/ MergeCopy \/ MergeAccess \/
          MergeRename \/ FinishCleanup
  BY <1>5 DEF Finish, StopPerfetto, TraceCaptureStop, Evaluate, Complete,
             MergeOpen, MergeCopy, MergeAccess, MergeRename, RenameFails,
             FinishCleanup, CleanupTemporary
<1>6. CASE ChildCreates \/ ChildWrites \/ ChildExits \/ SignalStop
  BY <1>6 DEF ChildCreates, ChildWrites, ChildExits, SignalStop
<1>7. ASSUME NEW f \in Files \ {"system"}, OthersCreate(f) PROVE TypeFlags'
  BY <1>7 DEF OthersCreate
<1>. QED
  BY <1>1, <1>2, <1>3, <1>4, <1>5, <1>6, <1>7 DEF Next, Steps, Faults, Environment

\* Files are created, written, renamed and unlinked within their type.
LEMMA TypeFilesStep ==
    ASSUME IInv, Next
    PROVE  TypeFiles'
<1>. USE DEF Go, Set, Quietly, args, state, process, timing, noted, IInv, TypeOK,
             TypeFiles, Files
<1>1. CASE StartChecks \/ Probe \/ WriteConfig \/ OpenSystem \/ Fork \/ StartReaps
          \/ Ready \/ CheckChild
  BY <1>1 DEF StartChecks, FailStart, Probe, WriteConfig, OpenSystem, Fork,
             StartReaps, Reap, Ready, CheckChild
<1>2. CASE AwaitReap \/ AwaitNoFile \/ AwaitFails \/ AwaitSleep \/ AwaitStalled \/
          Kill \/ KillReap \/ KillTimeout
  BY <1>2 DEF AwaitReap, Reap, AwaitNoFile, GiveUp, AwaitFails, AwaitSleep,
             Stalled, IdleNow, Upto, AwaitStalled, Kill, KillReap, KillTimeout
<1>3. CASE Abort \/ AbortCleanup \/ OpenNetwork \/ MainErr \/ PollEnds
  BY <1>3 DEF Abort, StopPerfetto, TraceCaptureStop, MustStop, AbortCleanup,
             CleanupTemporary, OpenNetwork, MainErr, PollEnds
<1>4. CASE WaitSystemStops \/ WaitSystemReaps \/ WaitSystemFails
  BY <1>4 DEF WaitSystemStops, TraceCaptureStop, WaitSystemReaps, Reap,
             WaitSystemFails
<1>5. CASE Finish \/ Evaluate \/ MergeOpen \/ MergeCopy \/ MergeAccess \/
          MergeRename \/ FinishCleanup
  BY <1>5 DEF Finish, StopPerfetto, TraceCaptureStop, Evaluate, Complete,
             MergeOpen, MergeCopy, MergeAccess, MergeRename, RenameFails,
             FinishCleanup, CleanupTemporary
<1>6. CASE ChildCreates \/ ChildWrites \/ ChildExits \/ SignalStop
  BY <1>6 DEF ChildCreates, ChildWrites, ChildExits, SignalStop
<1>7. ASSUME NEW f \in Files \ {"system"}, OthersCreate(f) PROVE TypeFiles'
  BY <1>7 DEF OthersCreate
<1>. QED
  BY <1>1, <1>2, <1>3, <1>4, <1>5, <1>6, <1>7 DEF Next, Steps, Faults, Environment

\* The process moves from none to reaped.
LEMMA TypeChildStep ==
    ASSUME IInv, Next
    PROVE  TypeChild'
<1>. USE DEF Go, Set, Quietly, args, state, process, timing, noted, IInv, TypeOK,
             TypeChild
<1>1. CASE StartChecks \/ Probe \/ WriteConfig \/ OpenSystem \/ Fork \/ StartReaps
          \/ Ready \/ CheckChild
  BY <1>1 DEF StartChecks, FailStart, Probe, WriteConfig, OpenSystem, Fork,
             StartReaps, Reap, Ready, CheckChild
<1>2. CASE AwaitReap \/ AwaitNoFile \/ AwaitFails \/ AwaitSleep \/ AwaitStalled \/
          Kill \/ KillReap \/ KillTimeout
  BY <1>2 DEF AwaitReap, Reap, AwaitNoFile, GiveUp, AwaitFails, AwaitSleep,
             Stalled, IdleNow, Upto, AwaitStalled, Kill, KillReap, KillTimeout
<1>3. CASE Abort \/ AbortCleanup \/ OpenNetwork \/ MainErr \/ PollEnds
  BY <1>3 DEF Abort, StopPerfetto, TraceCaptureStop, MustStop, AbortCleanup,
             CleanupTemporary, OpenNetwork, MainErr, PollEnds
<1>4. CASE WaitSystemStops \/ WaitSystemReaps \/ WaitSystemFails
  BY <1>4 DEF WaitSystemStops, TraceCaptureStop, WaitSystemReaps, Reap,
             WaitSystemFails
<1>5. CASE Finish \/ Evaluate \/ MergeOpen \/ MergeCopy \/ MergeAccess \/
          MergeRename \/ FinishCleanup
  BY <1>5 DEF Finish, StopPerfetto, TraceCaptureStop, Evaluate, Complete,
             MergeOpen, MergeCopy, MergeAccess, MergeRename, RenameFails,
             FinishCleanup, CleanupTemporary
<1>6. CASE ChildCreates \/ ChildWrites \/ ChildExits \/ SignalStop
  BY <1>6 DEF ChildCreates, ChildWrites, ChildExits, SignalStop
<1>7. ASSUME NEW f \in Files \ {"system"}, OthersCreate(f) PROVE TypeChild'
  BY <1>7 DEF OthersCreate
<1>. QED
  BY <1>1, <1>2, <1>3, <1>4, <1>5, <1>6, <1>7 DEF Next, Steps, Faults, Environment

\* Control goes to a place that exists: stop_perfetto and trace_capture_abort
\* know where they return to.
LEMMA PlacesStep ==
    ASSUME IInv, Next
    PROVE  TypePlaces'
<1>. USE DEF Go, Set, Quietly, args, state, process, timing, noted, IInv, TypeOK,
             TypePlaces, InvControl, Places, Stopping, Aborting
<1>1. CASE StartChecks \/ Probe \/ WriteConfig \/ OpenSystem \/ Fork \/ StartReaps
          \/ Ready \/ CheckChild
  BY <1>1 DEF StartChecks, FailStart, Probe, WriteConfig, OpenSystem, Fork,
             StartReaps, Reap, Ready, CheckChild
<1>2. CASE AwaitReap \/ AwaitNoFile \/ AwaitFails \/ AwaitSleep \/ AwaitStalled \/
          Kill \/ KillReap \/ KillTimeout
  BY <1>2 DEF AwaitReap, Reap, AwaitNoFile, GiveUp, AwaitFails, AwaitSleep,
             Stalled, IdleNow, Upto, AwaitStalled, Kill, KillReap, KillTimeout
<1>3. CASE Abort \/ AbortCleanup \/ OpenNetwork \/ MainErr \/ PollEnds
  BY <1>3 DEF Abort, StopPerfetto, TraceCaptureStop, MustStop, AbortCleanup,
             CleanupTemporary, OpenNetwork, MainErr, PollEnds
<1>4. CASE WaitSystemStops \/ WaitSystemReaps \/ WaitSystemFails
  BY <1>4 DEF WaitSystemStops, TraceCaptureStop, WaitSystemReaps, Reap,
             WaitSystemFails
<1>5. CASE Finish \/ Evaluate \/ MergeOpen \/ MergeCopy \/ MergeAccess \/
          MergeRename \/ FinishCleanup
  BY <1>5 DEF Finish, StopPerfetto, TraceCaptureStop, Evaluate, Complete,
             MergeOpen, MergeCopy, MergeAccess, MergeRename, RenameFails,
             FinishCleanup, CleanupTemporary
<1>6. CASE ChildCreates \/ ChildWrites \/ ChildExits \/ SignalStop
  BY <1>6 DEF ChildCreates, ChildWrites, ChildExits, SignalStop
<1>7. ASSUME NEW f \in Files \ {"system"}, OthersCreate(f) PROVE TypePlaces'
  BY <1>7 DEF OthersCreate
<1>. QED
  BY <1>1, <1>2, <1>3, <1>4, <1>5, <1>6, <1>7 DEF Next, Steps, Faults, Environment

\* The counters stay within their bounds.
LEMMA CountsStep ==
    ASSUME IInv, Next
    PROVE  TypeCounts'
<1>. USE StopAssumption DEF Go, Set, Quietly, args, state, process, timing, noted,
             IInv, TypeOK, TypeCounts
<1>1. CASE StartChecks \/ Probe \/ WriteConfig \/ OpenSystem \/ Fork \/ StartReaps
          \/ Ready \/ CheckChild
  BY <1>1 DEF StartChecks, FailStart, Probe, WriteConfig, OpenSystem, Fork,
             StartReaps, Reap, Ready, CheckChild
<1>2. CASE AwaitReap \/ AwaitNoFile \/ AwaitFails \/ AwaitSleep \/ AwaitStalled \/
          Kill \/ KillReap \/ KillTimeout
  BY <1>2 DEF AwaitReap, Reap, AwaitNoFile, GiveUp, AwaitFails, AwaitSleep,
             Stalled, IdleNow, Upto, AwaitStalled, Kill, KillReap, KillTimeout
<1>3. CASE Abort \/ AbortCleanup \/ OpenNetwork \/ MainErr \/ PollEnds
  BY <1>3 DEF Abort, StopPerfetto, TraceCaptureStop, MustStop, AbortCleanup,
             CleanupTemporary, OpenNetwork, MainErr, PollEnds
<1>4. CASE WaitSystemStops \/ WaitSystemReaps \/ WaitSystemFails
  BY <1>4 DEF WaitSystemStops, TraceCaptureStop, WaitSystemReaps, Reap,
             WaitSystemFails
<1>5. CASE Finish \/ Evaluate \/ MergeOpen \/ MergeCopy \/ MergeAccess \/
          MergeRename \/ FinishCleanup
  BY <1>5 DEF Finish, StopPerfetto, TraceCaptureStop, Evaluate, Complete,
             MergeOpen, MergeCopy, MergeAccess, MergeRename, RenameFails,
             FinishCleanup, CleanupTemporary
<1>6. CASE ChildCreates \/ ChildWrites \/ ChildExits \/ SignalStop
  BY <1>6 DEF ChildCreates, ChildWrites, ChildExits, SignalStop
<1>7. ASSUME NEW f \in Files \ {"system"}, OthersCreate(f) PROVE TypeCounts'
  BY <1>7 DEF OthersCreate
<1>. QED
  BY <1>1, <1>2, <1>3, <1>4, <1>5, <1>6, <1>7 DEF Next, Steps, Faults, Environment

---------------------------------------------------------------------------
(* The other parts are preserved *)

\* Only a child that was reaped or given up stops being tracked.
LEMMA ChildStep ==
    ASSUME IInv, Next
    PROVE  InvChild'
<1>. USE DEF Go, Set, Quietly, args, state, process, timing, noted, IInv, TypeOK,
             InvChild, InvControl, Ours, BeforeFork, Capturing, Stopping, Aborting,
             Merging
<1>1. CASE StartChecks \/ Probe \/ WriteConfig \/ OpenSystem \/ Fork \/ StartReaps
          \/ Ready \/ CheckChild
  BY <1>1 DEF StartChecks, FailStart, Probe, WriteConfig, OpenSystem, Fork,
             StartReaps, Reap, Ready, CheckChild
<1>2. CASE AwaitReap \/ AwaitNoFile \/ AwaitFails \/ AwaitSleep \/ AwaitStalled \/
          Kill \/ KillReap \/ KillTimeout
  BY <1>2 DEF AwaitReap, Reap, AwaitNoFile, GiveUp, AwaitFails, AwaitSleep,
             Stalled, IdleNow, Upto, AwaitStalled, Kill, KillReap, KillTimeout
<1>3. CASE Abort \/ AbortCleanup \/ OpenNetwork \/ MainErr \/ PollEnds
  BY <1>3 DEF Abort, StopPerfetto, TraceCaptureStop, MustStop, AbortCleanup,
             CleanupTemporary, OpenNetwork, MainErr, PollEnds
<1>4. CASE WaitSystemStops \/ WaitSystemReaps \/ WaitSystemFails
  BY <1>4 DEF WaitSystemStops, TraceCaptureStop, WaitSystemReaps, Reap,
             WaitSystemFails
<1>5. CASE Finish \/ Evaluate \/ MergeOpen \/ MergeCopy \/ MergeAccess \/
          MergeRename \/ FinishCleanup
  BY <1>5 DEF Finish, StopPerfetto, TraceCaptureStop, Evaluate, Complete,
             MergeOpen, MergeCopy, MergeAccess, MergeRename, RenameFails,
             FinishCleanup, CleanupTemporary
<1>6. CASE ChildCreates \/ ChildWrites \/ ChildExits \/ SignalStop
  BY <1>6 DEF ChildCreates, ChildWrites, ChildExits, SignalStop
<1>7. ASSUME NEW f \in Files \ {"system"}, OthersCreate(f) PROVE InvChild'
  BY <1>7 DEF OthersCreate
<1>. QED
  BY <1>1, <1>2, <1>3, <1>4, <1>5, <1>6, <1>7 DEF Next, Steps, Faults, Environment

\* main arrives at each place with what it may rely on there.
LEMMA ControlStep ==
    ASSUME IInv, Next
    PROVE  InvControl'
<1>. USE DEF Go, Set, Quietly, args, state, process, timing, noted, IInv, TypeOK,
             InvChild, InvControl, Ours, BeforeFork, Capturing, Stopping, Aborting,
             Merging, Places
<1>1. CASE StartChecks \/ Probe \/ WriteConfig \/ OpenSystem \/ Fork \/ StartReaps
          \/ Ready \/ CheckChild
  BY <1>1 DEF StartChecks, FailStart, Probe, WriteConfig, OpenSystem, Fork,
             StartReaps, Reap, Ready, CheckChild
<1>2. CASE AwaitReap \/ AwaitNoFile \/ AwaitFails \/ AwaitSleep \/ AwaitStalled \/
          Kill \/ KillReap \/ KillTimeout
  BY <1>2 DEF AwaitReap, Reap, AwaitNoFile, GiveUp, AwaitFails, AwaitSleep,
             Stalled, IdleNow, Upto, AwaitStalled, Kill, KillReap, KillTimeout
<1>3. CASE Abort \/ AbortCleanup \/ OpenNetwork \/ MainErr \/ PollEnds
  BY <1>3 DEF Abort, StopPerfetto, TraceCaptureStop, MustStop, AbortCleanup,
             CleanupTemporary, OpenNetwork, MainErr, PollEnds
<1>4. CASE WaitSystemStops \/ WaitSystemReaps \/ WaitSystemFails
  BY <1>4 DEF WaitSystemStops, TraceCaptureStop, WaitSystemReaps, Reap,
             WaitSystemFails
<1>5. CASE Finish \/ Evaluate \/ MergeOpen \/ MergeCopy \/ MergeAccess \/
          MergeRename \/ FinishCleanup
  BY <1>5 DEF Finish, StopPerfetto, TraceCaptureStop, Evaluate, Complete,
             MergeOpen, MergeCopy, MergeAccess, MergeRename, RenameFails,
             FinishCleanup, CleanupTemporary
<1>6. CASE ChildCreates \/ ChildWrites \/ ChildExits \/ SignalStop
  BY <1>6 DEF ChildCreates, ChildWrites, ChildExits, SignalStop
<1>7. ASSUME NEW f \in Files \ {"system"}, OthersCreate(f) PROVE InvControl'
  BY <1>7 DEF OthersCreate
<1>. QED
  BY <1>1, <1>2, <1>3, <1>4, <1>5, <1>6, <1>7 DEF Next, Steps, Faults, Environment

\* A file is created where none was, and unlinked only by who created it.
LEMMA FilesStep ==
    ASSUME IInv, Next
    PROVE  InvFiles'
<1>. USE DEF Go, Set, Quietly, args, state, process, timing, noted, IInv, TypeOK,
             InvChild, InvControl, InvFiles, Made, Files, Ours, BeforeFork,
             Capturing, Stopping, Aborting, Merging, Places
<1>1. CASE StartChecks \/ Probe \/ WriteConfig \/ OpenSystem \/ Fork \/ StartReaps
          \/ Ready \/ CheckChild
  BY <1>1 DEF StartChecks, FailStart, Probe, WriteConfig, OpenSystem, Fork,
             StartReaps, Reap, Ready, CheckChild
<1>2. CASE AwaitReap \/ AwaitNoFile \/ AwaitFails \/ AwaitSleep \/ AwaitStalled \/
          Kill \/ KillReap \/ KillTimeout
  BY <1>2 DEF AwaitReap, Reap, AwaitNoFile, GiveUp, AwaitFails, AwaitSleep,
             Stalled, IdleNow, Upto, AwaitStalled, Kill, KillReap, KillTimeout
<1>3. CASE Abort \/ AbortCleanup \/ OpenNetwork \/ MainErr \/ PollEnds
  BY <1>3 DEF Abort, StopPerfetto, TraceCaptureStop, MustStop, AbortCleanup,
             CleanupTemporary, OpenNetwork, MainErr, PollEnds
<1>4. CASE WaitSystemStops \/ WaitSystemReaps \/ WaitSystemFails
  BY <1>4 DEF WaitSystemStops, TraceCaptureStop, WaitSystemReaps, Reap,
             WaitSystemFails
<1>5. CASE Finish \/ Evaluate \/ MergeOpen \/ MergeCopy \/ MergeAccess \/
          MergeRename \/ FinishCleanup
  BY <1>5 DEF Finish, StopPerfetto, TraceCaptureStop, Evaluate, Complete,
             MergeOpen, MergeCopy, MergeAccess, MergeRename, RenameFails,
             FinishCleanup, CleanupTemporary
<1>6. CASE ChildCreates \/ ChildWrites \/ ChildExits \/ SignalStop
  BY <1>6 DEF ChildCreates, ChildWrites, ChildExits, SignalStop
<1>7. ASSUME NEW f \in Files \ {"system"}, OthersCreate(f) PROVE InvFiles'
  BY <1>7 DEF OthersCreate
<1>. QED
  BY <1>1, <1>2, <1>3, <1>4, <1>5, <1>6, <1>7 DEF Next, Steps, Faults, Environment

\* A write resets the idle counter before the next look at it.
LEMMA IdleStep ==
    ASSUME IInv, Next
    PROVE  InvIdle'
<1>. USE StopAssumption DEF Go, Set, Quietly, args, state, process, timing, noted,
             IInv, TypeOK, InvIdle
<1>1. CASE StartChecks \/ Probe \/ WriteConfig \/ OpenSystem \/ Fork \/ StartReaps
          \/ Ready \/ CheckChild
  BY <1>1 DEF StartChecks, FailStart, Probe, WriteConfig, OpenSystem, Fork,
             StartReaps, Reap, Ready, CheckChild
<1>2. CASE AwaitReap \/ AwaitNoFile \/ AwaitFails \/ AwaitSleep \/ AwaitStalled \/
          Kill \/ KillReap \/ KillTimeout
  BY <1>2 DEF AwaitReap, Reap, AwaitNoFile, GiveUp, AwaitFails, AwaitSleep,
             Stalled, IdleNow, Upto, AwaitStalled, Kill, KillReap, KillTimeout
<1>3. CASE Abort \/ AbortCleanup \/ OpenNetwork \/ MainErr \/ PollEnds
  BY <1>3 DEF Abort, StopPerfetto, TraceCaptureStop, MustStop, AbortCleanup,
             CleanupTemporary, OpenNetwork, MainErr, PollEnds
<1>4. CASE WaitSystemStops \/ WaitSystemReaps \/ WaitSystemFails
  BY <1>4 DEF WaitSystemStops, TraceCaptureStop, WaitSystemReaps, Reap,
             WaitSystemFails
<1>5. CASE Finish \/ Evaluate \/ MergeOpen \/ MergeCopy \/ MergeAccess \/
          MergeRename \/ FinishCleanup
  BY <1>5 DEF Finish, StopPerfetto, TraceCaptureStop, Evaluate, Complete,
             MergeOpen, MergeCopy, MergeAccess, MergeRename, RenameFails,
             FinishCleanup, CleanupTemporary
<1>6. CASE ChildCreates \/ ChildWrites \/ ChildExits \/ SignalStop
  BY <1>6 DEF ChildCreates, ChildWrites, ChildExits, SignalStop
<1>7. ASSUME NEW f \in Files \ {"system"}, OthersCreate(f) PROVE InvIdle'
  BY <1>7 DEF OthersCreate
<1>. QED
  BY <1>1, <1>2, <1>3, <1>4, <1>5, <1>6, <1>7 DEF Next, Steps, Faults, Environment

\* The invariant holds at the start.
LEMMA InitInv == Init => IInv
<1>. SUFFICES ASSUME Init PROVE IInv
  OBVIOUS
<1>1. TypeErr /\ TypeState /\ TypeFlags
  BY DEF Init, TypeErr, TypeState, TypeFlags
<1>2. TypeFiles /\ TypeChild
  BY DEF Init, TypeFiles, TypeChild
<1>3. TypePlaces /\ TypeCounts
  BY StopAssumption DEF Init, TypePlaces, TypeCounts, Places
<1>4. InvChild /\ InvControl /\ InvIdle
  BY DEF Init, InvChild, InvControl, InvIdle, Ours, BeforeFork, Capturing, Stopping,
         Aborting, Merging
<1>5. InvFiles
  BY DEF Init, InvFiles, Made, Files, Aborting, Merging
<1>. QED
  BY <1>1, <1>2, <1>3, <1>4, <1>5 DEF IInv, TypeOK, TypeErr, TypeState, TypeFlags,
     TypeFiles, TypeChild, TypePlaces, TypeCounts

\* Every step of main, of Perfetto and of other programs preserves it.
LEMMA NextInv == IInv /\ [Next]_vars => IInv'
<1>1. ASSUME IInv, Next PROVE IInv'
  <2>1. TypeOK'
    <3>1. TypeErr' /\ TypeState' /\ TypeFlags' /\ TypeFiles'
      BY <1>1, ErrStep, StateStep, FlagsStep, TypeFilesStep
    <3>2. TypeChild' /\ TypePlaces' /\ TypeCounts'
      BY <1>1, TypeChildStep, PlacesStep, CountsStep
    <3>. QED
      BY <3>1, <3>2 DEF TypeOK, TypeErr, TypeState, TypeFlags, TypeFiles, TypeChild,
                        TypePlaces, TypeCounts
  <2>. QED
    BY <1>1, <2>1, ChildStep, ControlStep, FilesStep, IdleStep DEF IInv
<1>2. ASSUME IInv, UNCHANGED vars PROVE IInv'
  <2>. USE <1>2 DEF vars, args, state, process, timing, noted
  <2>1. TypeOK' <=> TypeOK
    BY DEF TypeOK
  <2>2. InvChild' <=> InvChild
    BY DEF InvChild, Ours
  <2>3. InvControl' <=> InvControl
    BY DEF InvControl, Ours
  <2>4. InvFiles' <=> InvFiles
    BY DEF InvFiles, Made
  <2>. QED
    BY <2>1, <2>2, <2>3, <2>4 DEF IInv, InvIdle
<1>. QED
  BY <1>1, <1>2

---------------------------------------------------------------------------
(* The theorems *)

\* The inductive invariant holds in every reachable state.
THEOREM Invariance == Spec => []IInv
BY InitInv, NextInv, PTL DEF Spec

\* The types hold: in particular every abort and every stop of Perfetto
\* returns to a place of main.
THEOREM TypeCorrectness == Spec => []TypeOK
<1>1. IInv => TypeOK
  BY DEF IInv
<1>. QED
  BY <1>1, Invariance, PTL

\* No signal is sent to a pid that was reaped, and trace_capture.c leaves no
\* child behind that it did not ask to stop and wait for.
THEOREM ChildCorrect == Spec => []ChildAccounted
<1>1. IInv => ChildAccounted
  BY DEF IInv, TypeOK, InvChild, InvControl, ChildAccounted, Ours
<1>. QED
  BY <1>1, Invariance, PTL

\* Whatever fails on the way, the program ends without staging files, and it
\* reports success only with the merged trace in place.
THEOREM EndCorrect == Spec => []EndsClean
<1>1. IInv => EndsClean
  <2>. SUFFICES ASSUME IInv, pc = "done" PROVE EndsClean
    BY DEF EndsClean
  <2>1. ~Made("config") /\ ~Made("combined")
    BY DEF IInv, InvFiles
  <2>2. ASSUME ~err
        PROVE  /\ child = "reaped" /\ status = "ok" /\ file["output"] = "result"
               /\ ~Made("system") /\ ~Made("network")
    BY <2>2 DEF IInv, InvFiles, InvControl
  <2>. QED
    BY <2>1, <2>2 DEF EndsClean, Made, Files
<1>. QED
  BY <1>1, Invariance, PTL

\* wait_perfetto_stop decides on SIGKILL only after the grace period and a
\* whole idle limit without a write, however writes and polls interleave.
THEOREM KillCorrect == Spec => KillJustified
<1>. DEFINE Justified == pc = "await" /\ pc' = "kill" => elapsed >= Grace /\ quiet >= Idle
<1>1. ASSUME IInv, Next PROVE Justified
  <2>. SUFFICES ASSUME pc = "await", pc' = "kill" PROVE elapsed >= Grace /\ quiet >= Idle
    OBVIOUS
  <2>1. AwaitStalled
    <3>. USE DEF Go, Quietly, IInv, InvControl, Stopping, Aborting
    <3>1. CASE StartChecks \/ Probe \/ WriteConfig \/ OpenSystem \/ Fork \/
              StartReaps \/ Ready \/ CheckChild
      BY <1>1, <3>1 DEF StartChecks, FailStart, Probe, WriteConfig, OpenSystem,
                      Fork, StartReaps, Reap, Ready, CheckChild
    <3>2. CASE AwaitReap \/ AwaitNoFile \/ AwaitFails \/ AwaitSleep \/ Kill \/
              KillReap \/ KillTimeout
      BY <1>1, <3>2 DEF AwaitReap, Reap, AwaitNoFile, GiveUp, AwaitFails,
                      AwaitSleep, Stalled, IdleNow, Upto, Kill, KillReap,
                      KillTimeout
    <3>3. CASE Abort \/ AbortCleanup \/ OpenNetwork \/ MainErr \/ PollEnds
      BY <1>1, <3>3 DEF Abort, StopPerfetto, TraceCaptureStop, MustStop,
                      AbortCleanup, CleanupTemporary, OpenNetwork, MainErr,
                      PollEnds
    <3>4. CASE WaitSystemStops \/ WaitSystemReaps \/ WaitSystemFails
      BY <1>1, <3>4 DEF WaitSystemStops, TraceCaptureStop, WaitSystemReaps, Reap,
                      WaitSystemFails
    <3>5. CASE Finish \/ Evaluate \/ MergeOpen \/ MergeCopy \/ MergeAccess \/
              MergeRename \/ FinishCleanup
      BY <1>1, <3>5 DEF Finish, StopPerfetto, TraceCaptureStop, Evaluate, Complete,
                      MergeOpen, MergeCopy, MergeAccess, MergeRename, RenameFails,
                      FinishCleanup, CleanupTemporary
    <3>6. CASE ChildCreates \/ ChildWrites \/ ChildExits \/ SignalStop
      BY <1>1, <3>6 DEF ChildCreates, ChildWrites, ChildExits, SignalStop
    <3>7. CASE \E f \in Files \ {"system"} : OthersCreate(f)
      BY <3>7 DEF OthersCreate
    <3>. QED
      BY <1>1, <3>1, <3>2, <3>3, <3>4, <3>5, <3>6, <3>7 DEF Next, Steps, Faults,
         Environment
  <2>. QED
    BY <1>1, <2>1, StopAssumption DEF AwaitStalled, Stalled, IdleNow, IInv, InvIdle, TypeOK
<1>2. IInv /\ [Next]_vars => [Justified]_vars
  BY <1>1
<1>. QED
  BY <1>2, Invariance, PTL DEF Spec, KillJustified

\* cleanup_temporary and merge_traces lose no trace and touch no file of
\* another program, provided no other program creates the output between the
\* access() and the rename() of merge_traces.
THEOREM FilesCorrect ==
    ASSUME CreateAtRename = FALSE
    PROVE  Spec => FilesKept
<1>1. ASSUME IInv, Next PROVE KeepsOriginals /\ KeepsUserFiles
  <2>. USE DEF KeepsOriginals, KeepsUserFiles, Go, Set, Quietly, args, state,
               process, timing, noted, IInv, TypeOK, InvChild, InvControl,
               InvFiles, Made, Files, Ours, BeforeFork, Capturing, Stopping,
               Aborting, Merging
  <2>1. CASE StartChecks \/ Probe \/ WriteConfig \/ OpenSystem \/ Fork \/
            StartReaps \/ Ready \/ CheckChild
    BY <1>1, <2>1 DEF StartChecks, FailStart, Probe, WriteConfig, OpenSystem, Fork,
                    StartReaps, Reap, Ready, CheckChild
  <2>2. CASE AwaitReap \/ AwaitNoFile \/ AwaitFails \/ AwaitSleep \/ AwaitStalled
            \/ Kill \/ KillReap \/ KillTimeout
    BY <1>1, <2>2 DEF AwaitReap, Reap, AwaitNoFile, GiveUp, AwaitFails, AwaitSleep,
                    Stalled, IdleNow, Upto, AwaitStalled, Kill, KillReap,
                    KillTimeout
  <2>3. CASE Abort \/ AbortCleanup \/ OpenNetwork \/ MainErr \/ PollEnds
    BY <1>1, <2>3 DEF Abort, StopPerfetto, TraceCaptureStop, MustStop,
                    AbortCleanup, CleanupTemporary, OpenNetwork, MainErr, PollEnds
  <2>4. CASE WaitSystemStops \/ WaitSystemReaps \/ WaitSystemFails
    BY <1>1, <2>4 DEF WaitSystemStops, TraceCaptureStop, WaitSystemReaps, Reap,
                    WaitSystemFails
  <2>5. CASE Finish \/ Evaluate \/ MergeOpen \/ MergeCopy \/ MergeAccess \/
            MergeRename \/ FinishCleanup
    BY <1>1, <2>5 DEF Finish, StopPerfetto, TraceCaptureStop, Evaluate, Complete,
                    MergeOpen, MergeCopy, MergeAccess, MergeRename, RenameFails,
                    FinishCleanup, CleanupTemporary
  <2>6. CASE ChildCreates \/ ChildWrites \/ ChildExits \/ SignalStop
    BY <1>1, <2>6 DEF ChildCreates, ChildWrites, ChildExits, SignalStop
  <2>7. CASE \E f \in Files \ {"system"} : OthersCreate(f)
    BY <1>1, <2>7 DEF OthersCreate
  <2>. QED
    BY <1>1, <2>1, <2>2, <2>3, <2>4, <2>5, <2>6, <2>7 DEF Next, Steps, Faults,
       Environment
<1>2. IInv /\ [Next]_vars => [KeepsOriginals /\ KeepsUserFiles]_vars
  BY <1>1
<1>. QED
  BY <1>2, Invariance, PTL DEF Spec, FilesKept
===========================================================================
