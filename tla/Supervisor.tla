------------------------------ MODULE Supervisor ------------------------------
(***************************************************************************)
(* The process supervision of internal/mihomo/manager.go: two child        *)
(* processes, mihomo-prod and mihomo-probe, that are started at boot,      *)
(* restarted with a growing delay when they die, restarted on purpose when *)
(* a hot reload fails, and stopped at shutdown or when another binary is   *)
(* activated.                                                              *)
(*                                                                         *)
(* Manager.mu is held for single blocks of code only, never across the     *)
(* start of a process, a signal or a sleep, so every block under the lock  *)
(* is one action and any other thread may run between two of them.         *)
(*                                                                         *)
(* Threads:                                                                *)
(*   Main    main(): Start at boot, Stop at shutdown, then the exit        *)
(*   Calls   one element per call of ApplyConfigBundle ("bundle"),         *)
(*           ApplyProbeConfig ("single") or ActivateBinary ("activate")    *)
(*   Pids    one element per process ever started; as a thread, p is the   *)
(*           goroutine that restarts its kind after p died unexpectedly    *)
(***************************************************************************)
EXTENDS Integers, FiniteSets

CONSTANTS
  Main,         \* the main goroutine
  Calls,        \* calls of the manager's operations, each made at most once
  Pids,         \* process incarnations (process ids are not reused)
  CallOps,      \* the operations callers may ask for
  None,         \* "no process" (a nil *exec.Cmd)
  SystemMayFail, \* may the system refuse a directory, a file or a new process?
  MaxCrashes    \* bound: processes that die on their own

ASSUME ThreadsAssumption ==
  /\ Main \notin Calls \cup Pids
  /\ Calls \cap Pids = {}
  /\ None \notin Pids
  /\ CallOps \subseteq {"bundle", "single", "activate"}
  /\ SystemMayFail \in BOOLEAN
  /\ MaxCrashes \in Nat

Kinds   == {"prod", "probe"}
Threads == {Main} \cup Calls \cup Pids

VARIABLES
  binary,        \* hasBinary
  stopping,      \* Manager.stopping
  cmd,           \* prodCmd and probeCmd: the process tracked for each kind
  expectedExit,  \* pids whose exit was announced by a stop or a restart
  backoff,       \* prodBackoff and probeBackoff, in seconds
  proc,          \* the operating system's view of each process
  kindOf,        \* the configuration each process was started with
  ctxOf,         \* the thread whose context started it (exec.CommandContext)
  watch,         \* waitProcess goroutine: not spawned, waiting, or returned
  timers,        \* pids whose thirty-second timer has not fired yet
  pc, op, kind,  \* of each thread: position, operation, kind it works on
  child,         \* process started by a thread and not recorded yet
  victims,       \* processes a thread is about to kill (stopCmd)
  expired,       \* calls whose own context is done
  lost,          \* history: kinds whose last attempt to start failed
  crashes        \* processes that died on their own so far

mgrVars    == <<binary, stopping, cmd, expectedExit, backoff>>
osVars     == <<proc, kindOf, ctxOf, watch, timers>>
threadVars == <<pc, op, kind, child, victims>>
history    == <<expired, lost, crashes>>
vars == <<mgrVars, osVars, threadVars, history>>



Stages == {"idle", "reload", "mark", "stop", "kill", "binary", "set", "files",
           "ensure", "sleep", "check", "exec", "record", "ret", "done", "serving",
           "shutdown", "exited"}
Ops    == {"boot", "quit", "bundle", "single", "activate", "timer", "none"}

\* The delays bumpBackoffLocked can produce.
Delays == {0, 1, 2, 4, 8, 16, 30}

Init ==
  /\ binary \in BOOLEAN
  /\ stopping = FALSE
  /\ cmd = [k \in Kinds |-> None]
  /\ expectedExit = {}
  /\ backoff = [k \in Kinds |-> 0]
  /\ proc = [p \in Pids |-> "unused"]
  /\ kindOf = [p \in Pids |-> "prod"]
  /\ ctxOf = [p \in Pids |-> Main]
  /\ watch = [p \in Pids |-> "none"]
  /\ timers = {}
  /\ pc = [t \in Threads |-> IF t = Main THEN "set" ELSE "idle"]
  /\ op = [t \in Threads |-> IF t = Main THEN "boot" ELSE "none"]
  /\ kind = [t \in Threads |-> "prod"]
  /\ child = [t \in Threads |-> None]
  /\ victims = [t \in Threads |-> {}]
  /\ expired = {}
  /\ lost = {}
  /\ crashes = 0

-----------------------------------------------------------------------------
(* Helpers.                                                                *)

Running  == pc[Main] # "exited"
Booted   == pc[Main] = "serving" \/ op[Main] = "quit"

\* Mutant of Tracked: markExpectedExitLocked without its nil check.
TrackedOrNil == {cmd[k] : k \in Kinds}
Tracked == {cmd[k] : k \in Kinds} \ {None}

\* Mutant of Forget: the branches of prod and probe swapped.
ForgetOther(k) == cmd' = [j \in Kinds |-> IF j = k THEN cmd[j] ELSE None]
Forget(k)      == cmd' = [cmd EXCEPT ![k] = None]

\* The announcement of p is used up. Mutant: the delete is missing.
KeepAnnounced(p) == expectedExit
Consume(p)       == expectedExit \ {p}

\* handleProcessExit: p is the tracked process of its kind.
IsCurrent(p) == cmd[kindOf[p]] = p

\* resetBackoffAfterStableRun: p is still the tracked process of its kind.
\* Mutant: the pid is not compared.
SomeTracked(p) == cmd[kindOf[p]] # None
Outlasted(p)   == cmd[kindOf[p]] = p

\* The restart goroutine gives up when the manager is stopping or a process is
\* tracked by now. Mutant: the nil test turned around.
NoNeedInverted(k) == stopping \/ cmd[k] = None
NoNeed(k)         == stopping \/ cmd[k] # None

BothKinds(t) == op[t] \in {"boot", "activate", "bundle"}

\* The context a call runs under is done: the deadline or the return of a
\* publish or of a request, the cancellation of rootCtx for the probe service.
\* Boot and the restart goroutines use context.Background().
CtxDone(t) ==
  \/ t \in expired
  \/ op[t] = "single" /\ op[Main] = "quit"

At(t, stage) == Running /\ pc[t] = stage
Goto(t, stage) == pc' = [pc EXCEPT ![t] = stage]

\* A step of a thread that moves it and changes nothing else.
Move(t, from, to) ==
  /\ At(t, from) /\ Goto(t, to)
  /\ UNCHANGED <<mgrVars, osVars, op, kind, child, victims, history>>

\* Where startProcess(ctx, k) returns to without an error: the second kind of
\* the operation, or its end.
Advance(t) ==
  IF BothKinds(t) /\ kind[t] = "prod"
    THEN /\ kind' = [kind EXCEPT ![t] = "probe"]
         /\ Goto(t, IF op[t] = "bundle" THEN "mark" ELSE "ensure")
    ELSE Goto(t, "ret") /\ UNCHANGED kind

\* bumpBackoffLocked: 1s, then doubled up to 30s.
Bumped(b) == IF b = 0 THEN 1 ELSE IF 2 * b > 30 THEN 30 ELSE 2 * b

\* Kinds an operation leaves without a process when the start of kind[t] fails:
\* Start returns before it has ensured the second kind.
Abandoned(t) ==
  IF op[t] \in {"boot", "activate"} /\ kind[t] = "prod" THEN Kinds
                                                         ELSE {kind[t]}

-----------------------------------------------------------------------------
(* The entries of the operations.                                          *)

\* A caller enters the manager. Probe configurations are applied under
\* probeConfigMu, one at a time; nothing orders the other calls.
Begin(c, o) ==
  /\ At(c, "idle") /\ Booted
  /\ o = "single" => \A d \in Calls : op[d] = "single" => pc[d] = "done"
  /\ op' = [op EXCEPT ![c] = o]
  /\ kind' = [kind EXCEPT ![c] = IF o = "single" THEN "probe" ELSE "prod"]
  /\ Goto(c, IF o = "activate" THEN "stop" ELSE "reload")
  /\ UNCHANGED <<mgrVars, osVars, child, victims, history>>

\* The hot reload worked, or there is no binary and only files were written.
\* It is answered by whatever process listens on the controller's port.
ReloadOk(c) ==
  /\ Move(c, "reload", "ret")
  /\ binary => \A k \in Kinds : (BothKinds(c) \/ k = kind[c]) =>
                 \E p \in Pids : proc[p] = "running" /\ kindOf[p] = k

\* The hot reload failed or timed out: fall back to a restart.
ReloadFail(c) == binary /\ Move(c, "reload", "mark")

\* restartProcess, under the lock: the exit of the tracked process is announced.
Mark(t) ==
  LET k == kind[t] IN
  /\ At(t, "mark")
  /\ victims' = [victims EXCEPT ![t] = {cmd[k]} \ {None}]
  /\ expectedExit' = expectedExit \cup ({cmd[k]} \ {None})
  /\ Forget(k)
  /\ backoff' = [backoff EXCEPT ![k] = 0]
  /\ Goto(t, "kill")
  /\ UNCHANGED <<binary, stopping, osVars, op, kind, child, history>>

\* Stop, under the lock.
StopLock(t) ==
  /\ At(t, "stop") \/ At(t, "shutdown")
  /\ stopping' = TRUE
  /\ victims' = [victims EXCEPT ![t] = Tracked]
  /\ expectedExit' = expectedExit \cup Tracked
  /\ cmd' = [k \in Kinds |-> None]
  /\ Goto(t, "kill")
  /\ UNCHANGED <<binary, backoff, osVars, op, kind, child, history>>

\* stopCmd: interrupt, half a second, kill. Stop kills prod before probe.
Kill(t) ==
  /\ At(t, "kill")
  /\ \E p \in victims[t] :
       /\ \A q \in victims[t] : kindOf[q] = "prod" => kindOf[p] = "prod"
       /\ proc' = [proc EXCEPT ![p] = "exited"]
       /\ victims' = [victims EXCEPT ![t] = @ \ {p}]
  /\ UNCHANGED <<mgrVars, kindOf, ctxOf, watch, timers, pc, op, kind, child,
                 history>>

\* After the last stopCmd: main returns, ActivateBinary goes on, and
\* restartProcess starts the kind again after 300ms.
Killed(t) ==
  /\ victims[t] = {}
  /\ Move(t, "kill", CASE op[t] = "quit"     -> "exited"
                       [] op[t] = "activate" -> "binary"
                       [] OTHER              -> "check")

\* ActivateBinary records the new binary, in a block of its own.
SetBinary(t) ==
  /\ At(t, "binary")
  /\ binary' = TRUE
  /\ Goto(t, "set")
  /\ UNCHANGED <<stopping, cmd, expectedExit, backoff, osVars, op, kind,
                 child, victims, history>>

\* Start, under the lock: stopping is cleared.
StartLock(t) ==
  /\ At(t, "set")
  /\ stopping' = FALSE
  /\ Goto(t, "files")
  /\ UNCHANGED <<binary, cmd, expectedExit, backoff, osVars, op, kind, child,
                 victims, history>>

\* The first configuration files are there; Start ensures both processes, if
\* there is a binary.
Prepared(t) == Move(t, "files", IF binary THEN "ensure" ELSE "ret")

\* The runtime directory cannot be made, before the lock is taken (after the
\* Stop of ActivateBinary the manager then stays stopping), or a configuration
\* file cannot be written, after it. The error ends the operation.
StartFails(t) ==
  /\ SystemMayFail
  /\ At(t, "set") \/ At(t, "files")
  /\ Goto(t, "ret")
  /\ lost' = Kinds
  /\ UNCHANGED <<mgrVars, osVars, op, kind, child, victims, expired, crashes>>

-----------------------------------------------------------------------------
(* Starting a process.                                                     *)

\* ensureProcess reads the tracked process, and starts one if there is none.
Ensure(t) ==
  /\ At(t, "ensure")
  /\ IF cmd[kind[t]] # None THEN Advance(t)
                            ELSE Goto(t, "check") /\ UNCHANGED kind
  /\ UNCHANGED <<mgrVars, osVars, op, child, victims, history>>

\* startProcess, first block: cancelled while stopping, nothing to do when a
\* process is tracked, otherwise go on WITHOUT the lock.
Check(t) ==
  /\ At(t, "check")
  /\ IF ~stopping /\ cmd[kind[t]] # None
       THEN Advance(t)
       ELSE Goto(t, IF stopping THEN "ret" ELSE "exec") /\ UNCHANGED kind
  /\ UNCHANGED <<mgrVars, osVars, op, child, victims, history>>

\* cmd.Start under the context of the caller.
ExecOk(t) ==
  /\ At(t, "exec") /\ ~CtxDone(t)
  /\ \E q \in Pids : proc[q] = "unused"
  /\ LET p == CHOOSE q \in Pids : proc[q] = "unused" IN
       /\ proc' = [proc EXCEPT ![p] = "running"]
       /\ kindOf' = [kindOf EXCEPT ![p] = kind[t]]
       /\ ctxOf' = [ctxOf EXCEPT ![p] = t]
       /\ child' = [child EXCEPT ![t] = p]
  /\ Goto(t, "record")
  /\ UNCHANGED <<mgrVars, watch, timers, op, kind, victims, history>>

\* cmd.Start fails: its context is done, or the system refuses. The error ends
\* the operation: nobody tries again.
ExecFail(t) ==
  /\ At(t, "exec") /\ (SystemMayFail \/ CtxDone(t))
  /\ lost' = lost \cup Abandoned(t)
  /\ Goto(t, "ret")
  /\ UNCHANGED <<mgrVars, osVars, op, kind, child, victims, expired, crashes>>

\* startProcess, second block: record the process, whatever happened since the
\* first block, and spawn the goroutine that waits for it and its timer.
Record(t) ==
  LET k == kind[t] IN
  /\ At(t, "record")
  /\ cmd' = [cmd EXCEPT ![k] = child[t]]
  /\ watch' = [watch EXCEPT ![child[t]] = "waiting"]
  /\ timers' = timers \cup {child[t]}
  /\ child' = [child EXCEPT ![t] = None]
  /\ lost' = lost \ {k}
  /\ Advance(t)
  /\ UNCHANGED <<binary, stopping, expectedExit, backoff, proc, kindOf, ctxOf,
                 op, victims, expired, crashes>>

\* The end of an operation; the callers of ApplyConfigBundle and of
\* ActivateBinary cancel their context as they return.
Return(t) ==
  /\ At(t, "ret")
  /\ Goto(t, IF t = Main THEN "serving" ELSE "done")
  /\ kind' = [kind EXCEPT ![t] = "prod"]
  /\ expired' = IF op[t] \in {"bundle", "activate"} THEN expired \cup {t} ELSE expired
  /\ UNCHANGED <<mgrVars, osVars, op, child, victims, lost, crashes>>

-----------------------------------------------------------------------------
(* Exits, restarts and timers.                                             *)

\* A process dies on its own.
Crash(p) ==
  /\ Running /\ proc[p] = "running" /\ crashes < MaxCrashes
  /\ crashes' = crashes + 1
  /\ proc' = [proc EXCEPT ![p] = "exited"]
  /\ UNCHANGED <<mgrVars, kindOf, ctxOf, watch, timers, threadVars, expired, lost>>

\* os/exec kills a process whose context is done.
CtxKill(p) ==
  /\ Running /\ proc[p] = "running" /\ CtxDone(ctxOf[p])
  /\ proc' = [proc EXCEPT ![p] = "exited"]
  /\ UNCHANGED <<mgrVars, kindOf, ctxOf, watch, timers, threadVars, history>>

\* cmd.Wait has returned and handleProcessExit runs.
Exited(p) == Running /\ watch[p] = "waiting" /\ proc[p] = "exited"

\* handleProcessExit of an announced exit, or of a process no longer tracked.
IgnoreExit(p) ==
  /\ Exited(p)
  /\ p \in expectedExit \/ ~IsCurrent(p)
  /\ expectedExit' = Consume(p)
  /\ watch' = [watch EXCEPT ![p] = "done"]
  /\ UNCHANGED <<binary, stopping, cmd, backoff, proc, kindOf, ctxOf, timers,
                 threadVars, history>>

\* handleProcessExit of the tracked process: forget it and, unless the manager
\* is stopping, spawn the goroutine that starts its kind again after the delay.
UnexpectedExit(p) ==
  LET k == kindOf[p] IN
  /\ Exited(p)
  /\ p \notin expectedExit /\ IsCurrent(p)
  /\ watch' = [watch EXCEPT ![p] = "done"]
  /\ Forget(k)
  /\ IF stopping
       THEN UNCHANGED <<backoff, pc, op, kind>>
       ELSE /\ backoff' = [backoff EXCEPT ![k] = Bumped(@)]
            /\ Goto(p, "sleep")
            /\ op' = [op EXCEPT ![p] = "timer"]
            /\ kind' = [kind EXCEPT ![p] = k]
  /\ UNCHANGED <<binary, stopping, expectedExit, proc, kindOf, ctxOf, timers,
                 child, victims, history>>

\* The delay is over: give up if the manager is stopping or if a process of the
\* kind is tracked by now, otherwise startProcess.
TimerFire(p) ==
  Move(p, "sleep", IF NoNeed(kind[p]) THEN "done" ELSE "check")

\* resetBackoffAfterStableRun of p: its timer fires thirty seconds after its
\* start, whatever became of p by then.
StableRun(p) ==
  /\ Running /\ p \in timers
  /\ timers' = timers \ {p}
  /\ backoff' = [backoff EXCEPT ![kindOf[p]] = IF Outlasted(p) THEN 0 ELSE @]
  /\ UNCHANGED <<binary, stopping, cmd, expectedExit, proc, kindOf, ctxOf, watch,
                 threadVars, history>>

\* The deadline of a publish, or a client that goes away.
CtxExpire(c) ==
  /\ Running /\ pc[c] \notin {"idle", "done"} /\ op[c] \in {"bundle", "activate"}
  /\ expired' = expired \cup {c}
  /\ UNCHANGED <<mgrVars, osVars, threadVars, lost, crashes>>

\* A signal or the restart button: rootCancel; mux.Shutdown precedes Stop.
RootCancel ==
  /\ At(Main, "serving")
  /\ Goto(Main, "shutdown")
  /\ op' = [op EXCEPT ![Main] = "quit"]
  /\ UNCHANGED <<mgrVars, osVars, kind, child, victims, history>>

\* The program is gone, with all its goroutines.
Terminated == ~Running /\ UNCHANGED vars

-----------------------------------------------------------------------------
\* The steps a thread takes by itself once its operation has begun.
Step(t) ==
  \/ Mark(t) \/ StopLock(t) \/ Kill(t) \/ Killed(t)
  \/ SetBinary(t) \/ StartLock(t) \/ Prepared(t) \/ StartFails(t)
  \/ Ensure(t) \/ Check(t) \/ ExecOk(t) \/ ExecFail(t) \/ Record(t) \/ Return(t)

Next ==
  \/ \E t \in Threads : Step(t)
  \/ \E c \in Calls : \/ \E o \in CallOps : Begin(c, o)
                      \/ ReloadOk(c) \/ ReloadFail(c) \/ CtxExpire(c)
  \/ \E p \in Pids : \/ Crash(p) \/ CtxKill(p) \/ IgnoreExit(p)
                     \/ UnexpectedExit(p) \/ TimerFire(p) \/ StableRun(p)
  \/ RootCancel
  \/ Terminated

Spec == Init /\ [][Next]_vars

\* Goroutines that can run do run, time passes (so the delay ends, and a reload
\* is answered or fails), and the system reports exits. Nothing makes a caller
\* call, a process crash, a context expire, or the user shut the program down.
\* A process is killed, waited for and restarted one after the other, so these steps
\* of one incarnation share a condition.
Fairness ==
  /\ WF_vars(Step(Main))
  /\ \A c \in Calls : WF_vars(Step(c) \/ ReloadOk(c) \/ ReloadFail(c))
  /\ \A p \in Pids :
       WF_vars(CtxKill(p) \/ IgnoreExit(p) \/ UnexpectedExit(p) \/ TimerFire(p) \/ Step(p))

FairSpec == Spec /\ Fairness
-----------------------------------------------------------------------------
(* Properties.                                                             *)

TypeOK ==
  /\ binary \in BOOLEAN /\ stopping \in BOOLEAN
  /\ cmd \in [Kinds -> Pids \cup {None}]
  /\ expectedExit \subseteq Pids
  /\ backoff \in [Kinds -> Delays]
  /\ proc \in [Pids -> {"unused", "running", "exited"}]
  /\ kindOf \in [Pids -> Kinds]
  /\ ctxOf \in [Pids -> Threads]
  /\ watch \in [Pids -> {"none", "waiting", "done"}]
  /\ timers \subseteq Pids
  /\ pc \in [Threads -> Stages]
  /\ op \in [Threads -> Ops]
  /\ kind \in [Threads -> Kinds]
  /\ child \in [Threads -> Pids \cup {None}]
  /\ victims \in [Threads -> SUBSET Pids]
  /\ expired \subseteq Threads
  /\ lost \subseteq Kinds
  /\ crashes \in Nat

\* A tracked process has the kind it is tracked for, a goroutine waits for its
\* exit, and that exit is not announced: no crash of a tracked process can be
\* swallowed as an expected one or go unnoticed (handleProcessExit).
TrackedWatched ==
  \A k \in Kinds : cmd[k] # None =>
    /\ kindOf[cmd[k]] = k
    /\ watch[cmd[k]] = "waiting"
    /\ cmd[k] \notin expectedExit

\* An announced exit does happen: the process is dead or a thread still has to
\* kill it, and the waiting goroutine has yet to consume the announcement. An
\* entry of expectedExit never outlives its process.
AnnouncedDoomed ==
  \A p \in expectedExit :
    /\ watch[p] = "waiting"
    /\ proc[p] = "exited" \/ \E t \in Threads : p \in victims[t]

\* The thread t is on its way to a process of kind k.
Restores(t, k) ==
  /\ pc[t] \in {"kill", "binary", "set", "files", "ensure", "sleep", "check", "exec",
               "record"}
  /\ op[t] # "quit"
  /\ kind[t] = k \/ (op[t] \in {"boot", "activate"} /\ kind[t] = "prod")

\* Whatever crashes, restarts, activations and timers interleave, a kind is
\* without a process only while somebody is restoring it, while the manager is
\* stopping, or because its last start failed.
NoSilentDeath ==
  \A k \in Kinds : binary /\ ~stopping /\ cmd[k] = None =>
    k \in lost \/ \E t \in Threads : Restores(t, k)

\* The delay of a kind shrinks only when the kind is restarted on purpose or when
\* the timer that fires is the tracked process's own: the late timer of a process
\* that was replaced never resets the delay of its successor's crash loop
\* (resetBackoffAfterStableRun compares the pid it was started with).
BackoffHeld ==
  [][\A k \in Kinds : backoff'[k] < backoff[k] =>
       \/ cmd[k] \in timers \ timers'
       \/ \E t \in Threads : kind[t] = k /\ pc[t] = "mark" /\ pc'[t] = "kill"]_vars

\* When a kind has lost its process, later every kind has one, or a start of it has
\* failed, or the manager is being stopped.
Restored ==
  (binary /\ \E k \in Kinds : cmd[k] = None)
    ~> (\A k \in Kinds : cmd[k] # None \/ k \in lost \/ stopping \/ ~Running)

\* Every announcement is consumed: again and again no exit is announced that has
\* not been handled, so expectedExit does not grow without end.
AnnouncementsConsumed ==
  (expectedExit # {}) ~> (expectedExit = {} \/ ~Running)

(* The inductive invariant: what the properties above rest on.             *)

\* Only a thread about to record a process holds one, a fresh one of its own.
Children ==
  \A t \in Threads :
    /\ pc[t] = "record" <=> child[t] # None
    /\ child[t] # None =>
         /\ proc[child[t]] # "unused" /\ watch[child[t]] = "none"
         /\ kindOf[child[t]] = kind[t]
         /\ \A u \in Threads : child[u] = child[t] => u = t

\* A process never started is not waited for; the restart goroutine of a process
\* is spawned when its exit has been handled.
Incarnations ==
  \A p \in Pids : /\ proc[p] = "unused" => watch[p] = "none"
                  /\ watch[p] # "done" => pc[p] = "idle"

\* Where each operation can be.
Shape ==
  \A t \in Threads :
    /\ victims[t] # {} => pc[t] = "kill"
    /\ pc[t] \in {"stop", "binary", "set", "files"} =>
         op[t] \in {"boot", "activate"} /\ kind[t] = "prod"
    /\ pc[t] = "kill" /\ op[t] = "activate" => kind[t] = "prod"
    /\ pc[t] \in {"reload", "mark"} => op[t] \in {"bundle", "single"}
    /\ pc[t] = "sleep" => op[t] = "timer"
    /\ pc[t] = "shutdown" => op[t] = "quit"

IInv == /\ TypeOK /\ Children /\ Incarnations /\ Shape
        /\ TrackedWatched /\ AnnouncedDoomed /\ NoSilentDeath

(* What the documentation says.                                            *)

\* README-.md:243: the Mihomo child processes are stopped, then the main process
\* exits. (A process whose exit was announced has at least been interrupted.)
StoppedBeforeExit ==
  pc[Main] = "exited" => \A p \in Pids : proc[p] = "running" => p \in expectedExit
=============================================================================
