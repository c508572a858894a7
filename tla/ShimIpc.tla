------------------------------ MODULE ShimIpc -------------------------------
(***************************************************************************)
(* How Shadow and the shim of a managed process pass control to each other *)
(* (src/phantom/src/main/host/thread_preload.c, process.c, and             *)
(* src/phantom/src/lib/shim/ipc.cc, preload_syscall.c, shim.c), and what   *)
(* happens when the process dies at any moment.                            *)
(*                                                                         *)
(* One process with up to MaxThreads threads.  The worker that runs the    *)
(* process's host is Shadow's only thread here; the threads of the process *)
(* and the child pid watcher run beside it.  Each thread has an IPC block: *)
(* a slot for a message and a semaphore in each direction.  The watcher    *)
(* appears as what it promises, ExitNotifier, and a thread is its own      *)
(* handle.  A release build: utility_assert does nothing.                  *)
(***************************************************************************)
EXTENDS Integers, FiniteSets

CONSTANTS
    MaxThreads,      \* bound: threads of the process
    MaxCalls,        \* bound: system calls of a thread
    ExplicitBlock    \* use_explicit_block_message

ASSUME ShimAssumption ==
    /\ MaxThreads \in Nat \ {0}
    /\ MaxCalls \in Nat
    /\ ExplicitBlock \in BOOLEAN

Threads == 1 .. MaxThreads     \* in the order of their creation; 1 is main
Proc == 0                      \* the process, for the watcher

ToShadowEvents == {"SYSCALL", "BLOCK", "ADD_THREAD_PARENT_RES", "SYSCALL_COMPLETE"}
ToPluginEvents == {"START", "BLOCK", "SYSCALL_COMPLETE", "SYSCALL_DO_NATIVE",
                   "ADD_THREAD_REQ", "SYSCALL"}
Calls == {"plain", "clone", "exit", "exit_group"}

VARIABLES
    \* IPCData, per thread
    toPlugin, toShadow, semPlugin, semShadow, pluginDied,
    ipcLive,       \* the IPC blocks that are initialised and not destroyed
    \* Shadow
    spc,           \* where the worker is
    active,        \* the thread it continues
    event,         \* currentEvent, per thread
    running,       \* threads with isRunning
    table,         \* proc->threads
    pending,       \* threads with a start task or a condition to wake them
    exiting,       \* proc->isExiting
    reaped,        \* waitpid has returned
    stopped,       \* the stop task has run
    swallowed,     \* threads whose STOP an exchange inside a handler has read
    \* the managed process, per thread
    ppc, call, ncalls,
    \* the watcher
    died, watches, used, informed, dropped

ipcVars == <<toPlugin, toShadow, semPlugin, semShadow, pluginDied, ipcLive>>
procVars == <<running, table, pending, exiting, reaped, stopped>>
shadowVars == <<spc, active, event, running, table, pending, exiting, reaped,
                stopped, swallowed>>
pluginVars == <<ppc, call, ncalls>>
watcherVars == <<died, watches, used, informed, dropped>>
vars == <<toPlugin, toShadow, semPlugin, semShadow, pluginDied, ipcLive, spc,
          active, event, running, table, pending, exiting, reaped, stopped,
          swallowed, ppc, call, ncalls, died, watches, used, informed, dropped>>

Watcher == INSTANCE ExitNotifier WITH
    Pids <- {Proc}, Handles <- Threads,
    dead <- died, callbacks <- watches, ran <- informed, closed <- dropped

Init ==
    /\ toPlugin = [t \in Threads |-> "none"]
    /\ toShadow = [t \in Threads |-> "none"]
    /\ semPlugin = [t \in Threads |-> 0]
    /\ semShadow = [t \in Threads |-> 0]
    /\ pluginDied = [t \in Threads |-> FALSE]
    /\ ipcLive = {}
    /\ spc = "start"
    /\ active = 1
    /\ event = [t \in Threads |-> "none"]
    /\ running = {}
    /\ table = {}
    /\ pending = {}
    /\ exiting = FALSE
    /\ reaped = FALSE
    /\ stopped = FALSE
    /\ swallowed = {}
    /\ ppc = [t \in Threads |-> "unborn"]
    /\ call = [t \in Threads |-> "plain"]
    /\ ncalls = [t \in Threads |-> 0]
    /\ Watcher!Init

-----------------------------------------------------------------------------
(***************************************************************************)
(* IPC.  Slot and semaphore change in one step: the other side does not    *)
(* look at the slot before it has taken the semaphore.                     *)
(***************************************************************************)
SendToPlugin(t, e) ==
    /\ toPlugin' = [toPlugin EXCEPT ![t] = e]
    /\ semPlugin' = [semPlugin EXCEPT ![t] = @ + 1]

SendToShadow(t, e) ==
    /\ toShadow' = [toShadow EXCEPT ![t] = e]
    /\ semShadow' = [semShadow EXCEPT ![t] = @ + 1]

\* Faulty variant: the flag that the process died is not looked at.
ReceivedSlot(t) == toShadow[t]

\* What shimevent_recvEventFromPlugin returns when it has the semaphore.
Received(t) == IF pluginDied[t] THEN "STOP" ELSE toShadow[t]

TakeFromPlugin(t) ==
    /\ semShadow[t] > 0
    /\ semShadow' = [semShadow EXCEPT ![t] = @ - 1]

TakeFromShadow(t) ==
    /\ semPlugin[t] > 0
    /\ semPlugin' = [semPlugin EXCEPT ![t] = @ - 1]

\* Faulty variant: only the flag is set.
MarkWithoutPost(S) ==
    /\ pluginDied' = [t \in Threads |-> pluginDied[t] \/ t \in S]
    /\ UNCHANGED semShadow

\* ipcData_markPluginExited for the threads of S.
MarkPluginExited(S) ==
    /\ pluginDied' = [t \in Threads |-> pluginDied[t] \/ t \in S]
    /\ semShadow' = [t \in Threads |-> semShadow[t] + (IF t \in S THEN 1 ELSE 0)]

-----------------------------------------------------------------------------
(***************************************************************************)
(* Shadow: starting the process                                            *)
(***************************************************************************)

\* _process_start up to the fork in threadpreload_run.
Start ==
    /\ spc = "start"
    /\ table' = {1}
    /\ ipcLive' = {1}
    /\ ppc' = [ppc EXCEPT ![1] = "init"]
    /\ spc' = "watch"
    /\ UNCHANGED <<toPlugin, toShadow, semPlugin, semShadow, pluginDied, active,
                   event, running, pending, exiting, reaped, stopped, swallowed,
                   call, ncalls, watcherVars>>

\* The rest of threadpreload_run.
WatchChild ==
    /\ spc = "watch"
    /\ Watcher!Watch(Proc, 1)
    /\ event' = [event EXCEPT ![1] = "START"]
    /\ running' = {1}
    /\ spc' = "resume"
    /\ UNCHANGED <<ipcVars, active, table, pending, exiting, reaped, stopped,
                   swallowed, pluginVars>>

-----------------------------------------------------------------------------
(***************************************************************************)
(* Shadow: threadpreload_resume of the active thread                       *)
(***************************************************************************)

\* process_isRunning
ProcessRunning == ~exiting /\ table # {}

\* process_continue: a start task runs, or a condition wakes the thread.
Continue(t) ==
    /\ spc = "idle"
    /\ t \in pending
    /\ ProcessRunning
    /\ pending' = pending \ {t}
    /\ active' = t
    /\ spc' = "resume"
    /\ UNCHANGED <<ipcVars, event, running, table, exiting, reaped, stopped,
                   swallowed, pluginVars, watcherVars>>

\* Send e, then wait for the next event at label.
SendAndAwait(e, label) ==
    /\ SendToPlugin(active, e)
    /\ spc' = label
    /\ UNCHANGED <<toShadow, semShadow, pluginDied, active, event, swallowed>>

ResumeStart ==
    /\ spc = "resume"
    /\ event[active] = "START"
    /\ SendAndAwait("START", "await")
    /\ UNCHANGED <<ipcLive, procVars, pluginVars, watcherVars>>

Handling(c) == spc = "resume" /\ event[active] = "SYSCALL" /\ call[active] = c

\* A system call is done, or is to be made natively.
SyscallDone ==
    /\ Handling("plain")
    /\ \E e \in {"SYSCALL_COMPLETE", "SYSCALL_DO_NATIVE"} : SendAndAwait(e, "await")
    /\ UNCHANGED <<ipcLive, procVars, pluginVars, watcherVars>>

SyscallBlocks ==
    /\ Handling("plain")
    /\ IF ExplicitBlock
       THEN /\ SendAndAwait("BLOCK", "awaitBlock")
            /\ UNCHANGED pending
       ELSE /\ spc' = "after"
            /\ pending' = pending \cup {active}
            /\ UNCHANGED <<toPlugin, toShadow, semPlugin, semShadow, pluginDied,
                           active, event, swallowed>>
    /\ UNCHANGED <<ipcLive, running, table, exiting, reaped, stopped, pluginVars,
                   watcherVars>>

SyscallExitGroup ==
    /\ Handling("exit_group")
    /\ exiting' = TRUE
    /\ SendAndAwait("SYSCALL_DO_NATIVE", "await")
    /\ UNCHANGED <<ipcLive, running, table, pending, reaped, stopped, pluginVars,
                   watcherVars>>

\* The thread is told to exit and nothing more is awaited from it.
SyscallExit ==
    /\ Handling("exit")
    /\ SendToPlugin(active, "SYSCALL_DO_NATIVE")
    /\ running' = running \ {active}
    /\ spc' = "after"
    /\ UNCHANGED <<toShadow, semShadow, pluginDied, ipcLive, active, event, table,
                   pending, exiting, reaped, stopped, swallowed, pluginVars,
                   watcherVars>>

\* _threadpreload_clone: the IPC block of the new thread.
NewThread == CHOOSE t \in Threads \ used : \A u \in Threads \ used : t <= u

SyscallClone ==
    /\ Handling("clone")
    /\ Watcher!Watch(Proc, NewThread)
    /\ ipcLive' = ipcLive \cup {NewThread}
    /\ SendAndAwait("ADD_THREAD_REQ", "awaitAdd")
    /\ UNCHANGED <<procVars, pluginVars>>

ReceivedStop ==
    /\ spc = "resume"
    /\ event[active] = "STOP"
    /\ running' = running \ {active}
    /\ spc' = "after"
    /\ UNCHANGED <<ipcVars, active, event, table, pending, exiting, reaped, stopped,
                   swallowed, pluginVars, watcherVars>>

\* _threadpreload_waitForNextEvent
AwaitEvent ==
    /\ spc = "await"
    /\ TakeFromPlugin(active)
    /\ event' = [event EXCEPT ![active] = Received(active)]
    /\ spc' = "resume"
    /\ UNCHANGED <<toPlugin, toShadow, semPlugin, pluginDied, ipcLive, active,
                   procVars, swallowed, pluginVars, watcherVars>>

\* The answer of an exchange inside a handler is not looked at.
Swallow ==
    swallowed' = IF Received(active) = "STOP" THEN swallowed \cup {active} ELSE swallowed

\* Faulty variant: the acknowledgement is not awaited.
AwaitNoBlock ==
    /\ spc = "awaitBlock"
    /\ pending' = pending \cup {active}
    /\ spc' = "after"
    /\ UNCHANGED <<ipcVars, active, event, swallowed,
                   running, table, exiting, reaped, stopped, pluginVars, watcherVars>>

AwaitBlock ==
    /\ spc = "awaitBlock"
    /\ TakeFromPlugin(active)
    /\ Swallow
    /\ pending' = pending \cup {active}
    /\ spc' = "after"
    /\ UNCHANGED <<toPlugin, toShadow, semPlugin, pluginDied, ipcLive, active, event,
                   running, table, exiting, reaped, stopped, pluginVars, watcherVars>>

\* thread_nativeSyscall(SYS_clone)
AwaitAdd ==
    /\ spc = "awaitAdd"
    /\ TakeFromPlugin(active)
    /\ Swallow
    /\ SendToPlugin(active, "SYSCALL")
    /\ spc' = "awaitClone"
    /\ UNCHANGED <<toShadow, pluginDied, ipcLive, active, event, procVars,
                   pluginVars, watcherVars>>

\* The new thread: the last whose IPC block was made.
LastThread == CHOOSE t \in used : \A u \in used : u <= t

\* The new thread is scheduled and the call of the old one is complete.  (The
\* branch for a native clone that failed is never taken, see Clone.)
AwaitClone ==
    /\ spc = "awaitClone"
    /\ TakeFromPlugin(active)
    /\ Swallow
    /\ event' = [event EXCEPT ![LastThread] = "START"]
    /\ running' = running \cup {LastThread}
    /\ table' = table \cup {LastThread}
    /\ pending' = pending \cup {LastThread}
    /\ SendToPlugin(active, "SYSCALL_COMPLETE")
    /\ spc' = "await"
    /\ UNCHANGED <<toShadow, pluginDied, ipcLive, active, exiting, reaped, stopped,
                   pluginVars, watcherVars>>

-----------------------------------------------------------------------------
(***************************************************************************)
(* Shadow: the end of process_continue, and process_stop                   *)
(***************************************************************************)

\* Threads S leave the process's table and are freed.
FreeThreads(S) ==
    /\ table' = table \ S
    /\ running' = running \ S
    /\ pending' = pending \ S
    /\ ipcLive' = ipcLive \ S

FrameIpc == UNCHANGED <<toPlugin, toShadow, semPlugin, semShadow, pluginDied>>

\* The thread is blocked.
StillRunning ==
    /\ spc = "after"
    /\ ~exiting
    /\ active \in running
    /\ spc' = "idle"
    /\ UNCHANGED <<ipcVars, active, event, procVars, swallowed, pluginVars, watcherVars>>

\* _process_reapThread waits for the native thread while there are others.
ThreadExited ==
    /\ spc = "after"
    /\ ~exiting
    /\ active \notin running
    /\ Cardinality(table) > 1 => ppc[active] = "gone"
    /\ FreeThreads({active})
    /\ spc' = IF table = {active} THEN "waitpid" ELSE "idle"
    /\ FrameIpc
    /\ UNCHANGED <<active, event, exiting, reaped, stopped, swallowed, pluginVars,
                   watcherVars>>

\* _process_handleProcessExit
ProcessExited ==
    /\ spc = "after"
    /\ exiting
    /\ FreeThreads(table)
    /\ spc' = "waitpid"
    /\ FrameIpc
    /\ UNCHANGED <<active, event, exiting, reaped, stopped, swallowed, pluginVars,
                   watcherVars>>

\* _process_getAndLogReturnCode
WaitPid ==
    /\ spc = "waitpid"
    /\ Proc \in died
    /\ reaped' = TRUE
    /\ spc' = "idle"
    /\ UNCHANGED <<ipcVars, active, event, running, table, pending, exiting, stopped,
                   swallowed, pluginVars, watcherVars>>

\* The threads of a process die with it.
Gone == [t \in Threads |-> IF ppc[t] = "unborn" THEN "unborn" ELSE "gone"]

\* process_stop kills the process if it still runs.
StopProcess ==
    /\ spc = "idle"
    /\ ~stopped
    /\ stopped' = TRUE
    /\ IF ProcessRunning
       THEN /\ exiting' = TRUE
            /\ FreeThreads(table)
            /\ spc' = "waitpid"
            /\ \/ Watcher!Exit(Proc)
               \/ Proc \in died /\ UNCHANGED watcherVars
            /\ ppc' = Gone
       ELSE UNCHANGED <<exiting, table, running, pending, ipcLive, spc, ppc, watcherVars>>
    /\ FrameIpc
    /\ UNCHANGED <<active, event, reaped, swallowed, call, ncalls>>

ShadowStep ==
    \/ Start \/ WatchChild
    \/ ResumeStart \/ SyscallDone \/ SyscallBlocks \/ SyscallExitGroup \/ SyscallExit
    \/ SyscallClone \/ ReceivedStop
    \/ AwaitEvent \/ AwaitBlock \/ AwaitAdd \/ AwaitClone
    \/ StillRunning \/ ThreadExited \/ ProcessExited \/ WaitPid

-----------------------------------------------------------------------------
(***************************************************************************)
(* The managed process                                                     *)
(***************************************************************************)
Alive == Proc \notin died /\ spc # "start"

PluginFrame == UNCHANGED <<shadowVars, pluginDied, ipcLive>>

\* _shim_ipc_wait_for_start_event, in the main thread and in others
RecvStart(t) ==
    /\ ppc[t] = "init"
    /\ TakeFromShadow(t)
    /\ ppc' = [ppc EXCEPT ![t] = "run"]
    /\ UNCHANGED <<toPlugin, toShadow, semShadow, call, ncalls, watcherVars>>
    /\ PluginFrame

\* _shadow_raw_syscall_event, up to the wait.  The last call a thread may
\* make here is to exit.
Syscall(t) ==
    /\ ppc[t] = "run"
    /\ \E c \in Calls :
          /\ c = "clone" => Threads \ used # {}
          /\ ncalls[t] = MaxCalls => c \in {"exit", "exit_group"}
          /\ call' = [call EXCEPT ![t] = c]
    /\ ncalls' = [ncalls EXCEPT ![t] = @ + 1]
    /\ SendToShadow(t, "SYSCALL")
    /\ ppc' = [ppc EXCEPT ![t] = "wait"]
    /\ UNCHANGED <<toPlugin, semPlugin, watcherVars>>
    /\ PluginFrame

Takes(t, e) == ppc[t] = "wait" /\ toPlugin[t] = e /\ TakeFromShadow(t)

RecvBlock(t) ==
    /\ Takes(t, "BLOCK")
    /\ SendToShadow(t, "BLOCK")
    /\ UNCHANGED <<toPlugin, pluginVars, watcherVars>>
    /\ PluginFrame

RecvComplete(t) ==
    /\ Takes(t, "SYSCALL_COMPLETE")
    /\ ppc' = [ppc EXCEPT ![t] = "run"]
    /\ UNCHANGED <<toPlugin, toShadow, semShadow, call, ncalls, watcherVars>>
    /\ PluginFrame

\* The call is made natively.
RecvDoNative(t) ==
    /\ Takes(t, "SYSCALL_DO_NATIVE")
    /\ LET left == {u \in Threads \ {t} : ppc[u] \notin {"unborn", "gone"}}
           ends == call[t] = "exit_group" \/ (call[t] = "exit" /\ left = {})
       IN  /\ ppc' = IF ends THEN Gone
                     ELSE [ppc EXCEPT ![t] = IF call[t] = "exit" THEN "gone" ELSE "run"]
           /\ IF ends THEN Watcher!Exit(Proc) ELSE UNCHANGED watcherVars
    /\ UNCHANGED <<toPlugin, toShadow, semShadow, call, ncalls>>
    /\ PluginFrame

\* shim_newThreadStart
RecvAddThread(t) ==
    /\ Takes(t, "ADD_THREAD_REQ")
    /\ SendToShadow(t, "ADD_THREAD_PARENT_RES")
    /\ UNCHANGED <<toPlugin, pluginVars, watcherVars>>
    /\ PluginFrame

\* The native clone.  shim_newThreadFinish waits for the new thread even when
\* the call failed and there is none.
Clone(t) ==
    /\ Takes(t, "SYSCALL")
    /\ \/ ppc' = [ppc EXCEPT ![t] = "finish", ![LastThread] = "born"]
       \/ ppc' = [ppc EXCEPT ![t] = "spin"]
    /\ UNCHANGED <<toPlugin, toShadow, semShadow, call, ncalls, watcherVars>>
    /\ PluginFrame

\* shim_newThreadChildInitd in the new thread u releases its parent.
ChildInitd(u) ==
    /\ ppc[u] = "born"
    /\ \E t \in Threads :
          /\ ppc[t] = "finish"
          /\ ppc' = [ppc EXCEPT ![u] = "init", ![t] = "wait"]
          /\ SendToShadow(t, "SYSCALL_COMPLETE")
    /\ UNCHANGED <<toPlugin, semPlugin, call, ncalls, watcherVars>>
    /\ PluginFrame

PluginStep(t) ==
    /\ Alive
    /\ \/ RecvStart(t) \/ Syscall(t) \/ RecvBlock(t) \/ RecvComplete(t)
       \/ RecvDoNative(t) \/ RecvAddThread(t) \/ Clone(t) \/ ChildInitd(t)

\* The process crashes or is killed from outside.
Die ==
    /\ Alive
    /\ Watcher!Exit(Proc)
    /\ ppc' = Gone
    /\ UNCHANGED <<toPlugin, toShadow, semPlugin, semShadow, call, ncalls>>
    /\ PluginFrame

\* The watcher thread runs the callbacks of the process, _markPluginExited.
Notify ==
    /\ Watcher!Notify({Proc})
    /\ MarkPluginExited({c[2] : c \in watches})
    /\ UNCHANGED <<toPlugin, toShadow, semPlugin, ipcLive, shadowVars, pluginVars>>

Next ==
    \/ ShadowStep
    \/ \E t \in Threads : Continue(t)
    \/ StopProcess
    \/ \E t \in Threads : PluginStep(t)
    \/ Die
    \/ Notify

Spec == Init /\ [][Next]_vars

\* Shadow and the watcher run; a managed thread that runs makes a system call
\* in the end: Shadow cannot preempt one that does not.
Fairness ==
    /\ WF_vars(ShadowStep)
    /\ WF_vars(Notify)
    /\ \A t \in Threads : WF_vars(PluginStep(t))

FairSpec == Spec /\ Fairness

-----------------------------------------------------------------------------
(***************************************************************************)
(* Properties                                                              *)
(***************************************************************************)
Awaiting == spc \in {"await", "awaitBlock", "awaitAdd", "awaitClone"}

\* Type correctness: only known messages in the slots, and only threads that
\* Shadow still has in its table are running.
TypeOK ==
    /\ toPlugin \in [Threads -> ToPluginEvents \cup {"none"}]
    /\ toShadow \in [Threads -> ToShadowEvents \cup {"none"}]
    /\ semPlugin \in [Threads -> Nat]
    /\ semShadow \in [Threads -> Nat]
    /\ pluginDied \in [Threads -> BOOLEAN]
    /\ ipcLive \subseteq Threads
    /\ spc \in {"start", "watch", "resume", "await", "awaitBlock", "awaitAdd",
                "awaitClone", "after", "waitpid", "idle"}
    /\ active \in Threads
    /\ event \in [Threads -> ToShadowEvents \cup {"none", "START", "STOP"}]
    /\ running \subseteq table
    /\ table \subseteq Threads
    /\ pending \subseteq Threads
    /\ exiting \in BOOLEAN /\ reaped \in BOOLEAN /\ stopped \in BOOLEAN
    /\ swallowed \subseteq Threads
    /\ ppc \in [Threads -> {"unborn", "born", "init", "run", "wait", "finish", "spin",
                           "gone"}]
    /\ call \in [Threads -> Calls]
    /\ ncalls \in [Threads -> Nat]

\* A managed thread runs its own code only while Shadow waits for it, and so
\* no two of them run at once and simulated time stands still meanwhile.
OneSideRuns ==
    \A t \in Threads : ppc[t] = "run" => spc = "await" /\ active = t

\* The semaphores are binary, as the name BinarySpinningSem has it, while the
\* process lives: no message is overwritten before it has been read.  The
\* watcher adds at most one.
TokenPassing ==
    \A t \in Threads :
        /\ Proc \notin died => semPlugin[t] + semShadow[t] <= 1
        /\ semShadow[t] <= 1 + (IF pluginDied[t] THEN 1 ELSE 0)

\* Neither side receives a message that its switch does not know.
KnownEvents ==
    /\ spc = "resume" => event[active] \in {"START", "SYSCALL", "STOP"}
    /\ \A t \in Threads :
          Proc \notin died /\ semPlugin[t] > 0 =>
              (ppc[t] = "init" <=> toPlugin[t] = "START")

\* Shadow is not left waiting for a process it knows to be dead, wherever the
\* death fell, unless an exchange inside a handler has read the notice.
StopNotLost ==
    \A t \in Threads :
        Awaiting /\ active = t /\ pluginDied[t] /\ t \notin swallowed => semShadow[t] > 0

\* Every thread Shadow still counts on learns that the process is dead: its
\* IPC block is marked, or the watcher has its callback.
EveryThreadWatched ==
    \A t \in table : spc # "watch" =>
        pluginDied[t] \/ (<<Proc, t>> \in watches)

\* The process is reaped as soon as none of its threads is left.
ReapedWhenEmpty == spc = "idle" /\ table = {} => reaped /\ Proc \in died

\* The exchange of messages: control is on one side at a time and every
\* message is read once, by a switch that knows it.
Exchange == TypeOK /\ OneSideRuns /\ TokenPassing /\ KnownEvents

\* The death of the process, by whatever path, is noticed by every thread
\* Shadow still counts on, and answered by reaping.
DeathNoticed == StopNotLost /\ EveryThreadWatched /\ ReapedWhenEmpty

\* Where Shadow waits for ever: an exchange inside a handler (block, clone) has
\* read the one notice that the process is dead, or the managed thread spins
\* after a native clone that failed.
Hangs == Awaiting /\ (active \in swallowed \/ ppc[active] = "spin")

\* Shadow gets control back or hangs in one of these two ways.  The read that
\* follows the death of the process, at whatever moment of an exchange it fell,
\* returns (ipcData_markPluginExited: "the next attempt to read from the plugin
\* should return immediately"); a second read does not.
ControlReturns == Awaiting ~> (~Awaiting \/ Hangs)
=============================================================================
