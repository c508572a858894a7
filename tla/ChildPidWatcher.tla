-------------------------- MODULE ChildPidWatcher ---------------------------
(***************************************************************************)
(* The thread that learns of the death of managed processes                *)
(* (src/phantom/src/main/utility/childpid_watcher.rs).                     *)
(*                                                                         *)
(* Everything is done under one lock, but two things are not: the children *)
(* die when they like, and the watcher thread takes its events from epoll  *)
(* before it takes the lock.  watch is therefore two steps, the second of  *)
(* which looks at the child again.                                         *)
(***************************************************************************)
EXTENDS Integers, Sequences

CONSTANTS
    Pids,        \* children; none is reaped while it is watched
    Clients,     \* threads that call watch and unwatch
    MaxHandles,  \* bound: calls of watch
    None,        \* no client
    Finish       \* Command::Finish; a pid in commands is RunCallbacks(pid)

ASSUME WatcherAssumption ==
    /\ MaxHandles \in Nat
    /\ None \notin Clients
    /\ Finish \notin Pids

Handles == 1 .. MaxHandles

VARIABLES
    dead,        \* children that have exited
    epoll,       \* children whose pidfd is in the epoll set
    readable,    \* those whose pidfd epoll reports as readable
    notified,    \* command_notifier can be read
    lock,        \* the client inside watch, or None
    arg, opened, \* the child it watches; whether it has opened the pidfd
    pidfds, callbacks, commands, nextHandle,   \* Inner
    tpc,         \* where the watcher thread is
    events,      \* the pids among the events it took from epoll
    dropping,    \* drop has sent Finish
    closed,      \* drop has joined the thread
    ran          \* the callbacks that have run, <<child, handle>>

innerVars == <<pidfds, callbacks, commands, nextHandle>>
pidVars == <<dead, epoll, readable, notified, lock, arg, opened, pidfds, callbacks,
             commands, nextHandle, tpc, events, dropping, closed, ran>>

WatcherInit ==
    /\ dead = {}
    /\ epoll = {}
    /\ readable = {}
    /\ notified = FALSE
    /\ lock = None
    /\ arg \in Pids
    /\ opened = FALSE
    /\ pidfds = {}
    /\ callbacks = {}
    /\ commands = <<>>
    /\ nextHandle = 1
    /\ tpc = "wait"
    /\ events = {}
    /\ dropping = FALSE
    /\ closed = FALSE
    /\ ran = {}

\* A child exits or is killed.
ChildExits(p) ==
    /\ p \notin dead
    /\ dead' = dead \cup {p}
    /\ readable' = readable \cup ({p} \cap epoll)
    /\ UNCHANGED <<epoll, notified, lock, arg, opened, innerVars, tpc, events, dropping,
                   closed, ran>>

\* Faulty variant: the thread is not told.
SendQuietly(cmd) == commands' = Append(commands, cmd) /\ UNCHANGED notified

SendCommand(cmd) == commands' = Append(commands, cmd) /\ notified' = TRUE

CallbacksOf(p) == {c \in callbacks : c[1] = p}

\* watch, up to epoll_ctl.  Epoll may or may not report a child that was dead
\* before it was added: the code does not rely on it.
WatchOpen(c, p) ==
    /\ lock = None
    /\ ~dropping
    /\ nextHandle <= MaxHandles
    /\ lock' = c
    /\ arg' = p
    /\ opened' = (p \notin pidfds)
    /\ pidfds' = pidfds \cup {p}
    /\ epoll' = epoll \cup {p}
    /\ \/ readable' = readable
       \/ p \in dead \ pidfds /\ readable' = readable \cup {p}
    /\ UNCHANGED <<dead, notified, callbacks, commands, nextHandle, tpc, events,
                   dropping, closed, ran>>

\* Faulty variant: the child is not looked at again.
CheckNothing == UNCHANGED <<commands, notified>>

\* is_zombie
CheckZombie ==
    IF opened /\ arg \in dead THEN SendCommand(arg)
    ELSE UNCHANGED <<commands, notified>>

\* watch, the rest.
WatchRegister(c) ==
    /\ lock = c
    /\ CheckZombie
    /\ callbacks' = callbacks \cup {<<arg, nextHandle>>}
    /\ nextHandle' = nextHandle + 1
    /\ lock' = None
    /\ UNCHANGED <<dead, epoll, readable, arg, opened, pidfds, tpc, events, dropping,
                   closed, ran>>

\* unwatch_pid for each p in S, but for the callbacks.
UnwatchPids(S) ==
    /\ pidfds' = pidfds \ S
    /\ epoll' = epoll \ S
    /\ readable' = readable \ S

Unwatch(p, h) ==
    /\ lock = None
    /\ ~dropping
    /\ CallbacksOf(p) # {}
    /\ callbacks' = callbacks \ {<<p, h>>}
    /\ IF CallbacksOf(p) \subseteq {<<p, h>>} THEN UnwatchPids({p})
       ELSE UNCHANGED <<pidfds, epoll, readable>>
    /\ UNCHANGED <<dead, notified, lock, arg, opened, commands, nextHandle, tpc, events,
                   dropping, closed, ran>>

-----------------------------------------------------------------------------
(***************************************************************************)
(* thread_loop                                                             *)
(***************************************************************************)

\* epoll_wait returns some of what is ready.
EpollWait ==
    /\ tpc = "wait"
    /\ readable # {} \/ notified
    /\ \E S \in SUBSET readable : (S # {} \/ notified) /\ events' = S
    /\ tpc' = "lock"
    /\ UNCHANGED <<dead, epoll, readable, notified, lock, arg, opened, innerVars, dropping,
                   closed, ran>>

\* The pids of the commands that are executed: those before a Finish.
Executed ==
    {commands[k] : k \in {i \in DOMAIN commands : \A j \in 1 .. i : commands[j] # Finish}}

Finishes == \E k \in DOMAIN commands : commands[k] = Finish

\* Faulty variant: the callbacks stay registered.
RunAndKeepCallbacks(S) ==
    /\ ran' = ran \cup {c \in callbacks : c[1] \in S}
    /\ UNCHANGED callbacks

\* run_callbacks_for_fd for each p in S, but for unwatch_pid.
RunCallbacks(S) ==
    /\ ran' = ran \cup {c \in callbacks : c[1] \in S}
    /\ callbacks' = {c \in callbacks : c[1] \notin S}

\* The lock is held from the first event to the last command.
ProcessEvents ==
    /\ tpc = "lock"
    /\ lock = None
    /\ RunCallbacks(events \cup Executed)
    /\ UnwatchPids(events \cup Executed)
    /\ notified' = FALSE
    /\ commands' = <<>>
    /\ events' = {}
    /\ tpc' = IF Finishes THEN "done" ELSE "wait"
    /\ UNCHANGED <<dead, lock, arg, opened, nextHandle, dropping, closed>>

-----------------------------------------------------------------------------
(***************************************************************************)
(* drop                                                                    *)
(***************************************************************************)
DropSend ==
    /\ lock = None
    /\ ~dropping
    /\ dropping' = TRUE
    /\ SendCommand(Finish)
    /\ UNCHANGED <<dead, epoll, readable, lock, arg, opened, pidfds, callbacks, nextHandle,
                   tpc, events, closed, ran>>

DropJoin ==
    /\ dropping
    /\ ~closed
    /\ tpc = "done"
    /\ closed' = TRUE
    /\ UnwatchPids(pidfds)
    /\ callbacks' = {}
    /\ UNCHANGED <<dead, notified, lock, arg, opened, commands, nextHandle, tpc,
                   events, dropping, ran>>

ThreadStep == EpollWait \/ ProcessEvents

WatcherNext ==
    \/ \E p \in Pids : ChildExits(p)
    \/ \E c \in Clients, p \in Pids : WatchOpen(c, p)
    \/ \E c \in Clients : WatchRegister(c)
    \/ \E p \in Pids, h \in Handles : Unwatch(p, h)
    \/ ThreadStep
    \/ DropSend
    \/ DropJoin

WatcherSpec == WatcherInit /\ [][WatcherNext]_pidVars

\* A thread that holds the lock releases it, and the watcher thread runs.
WatcherFairness ==
    /\ \A c \in Clients : WF_pidVars(WatchRegister(c))
    /\ WF_pidVars(ThreadStep)

FairWatcherSpec == WatcherSpec /\ WatcherFairness

-----------------------------------------------------------------------------
(***************************************************************************)
(* Properties                                                              *)
(***************************************************************************)
\* Type correctness: epoll reports only pidfds that are in its set.
WatcherTypeOK ==
    /\ dead \subseteq Pids
    /\ readable \subseteq epoll
    /\ epoll \subseteq Pids
    /\ notified \in BOOLEAN
    /\ lock \in Clients \cup {None}
    /\ arg \in Pids
    /\ opened \in BOOLEAN
    /\ pidfds \subseteq Pids
    /\ callbacks \subseteq Pids \X Handles
    /\ commands \in Seq(Pids \cup {Finish})
    /\ nextHandle \in 1 .. MaxHandles + 1
    /\ tpc \in {"wait", "lock", "done"}
    /\ events \subseteq Pids
    /\ dropping \in BOOLEAN
    /\ closed \in BOOLEAN
    /\ ran \subseteq Pids \X Handles

\* A pidfd is open exactly for the children with a callback: none is leaked
\* when callbacks run or are unregistered in any order.
PidfdsMatchCallbacks ==
    /\ epoll = pidfds
    /\ lock = None => pidfds = {c[1] : c \in callbacks}

\* The death of a watched child is never forgotten: until its callbacks have
\* run epoll reports it or a command for it waits, and the thread is told of
\* the commands.  It holds wherever the death falls in a call of watch.
NoLostExit ==
    /\ lock = None /\ tpc # "done" =>
          \A p \in dead : CallbacksOf(p) # {} => p \in readable \cup Executed
    /\ commands # <<>> => notified \/ tpc = "done"

\* The tables of the watcher, its epoll set and its commands agree: no pidfd
\* is left over and no exit is forgotten.
NothingLost == WatcherTypeOK /\ PidfdsMatchCallbacks /\ NoLostExit

\* The watcher does what its comments promise.
Promise == INSTANCE ExitNotifier WITH used <- 1 .. nextHandle - 1

ImplementsPromise == Promise!Spec

\* A callback that is registered for a child that has exited runs, unless it
\* is unregistered or the watcher is dropped.
EveryExitNotified ==
    \A p \in Pids : (p \in dead /\ CallbacksOf(p) # {}) ~>
                    (CallbacksOf(p) = {} \/ dropping)
=============================================================================
