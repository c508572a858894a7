--------------------------- MODULE ShimIpc_proofs ---------------------------
(***************************************************************************)
(* Proofs about ShimIpc, for every number of threads and of system calls   *)
(* and with or without explicit block messages: the exchange of messages,  *)
(* and what Shadow learns of the death of the process.                     *)
(***************************************************************************)
EXTENDS ShimIpc, TLAPS

Waits(t) == Awaiting /\ active = t
InClone == spc \in {"awaitAdd", "awaitClone"}

\* Room for one more thread, which a clone that Shadow handles relies on.
Room == Threads \ used # {}

\* What the managed thread answers to what Shadow last sent it.
Reply ==
    CASE spc = "await"      -> "SYSCALL"
      [] spc = "awaitBlock" -> "BLOCK"
      [] spc = "awaitAdd"   -> "ADD_THREAD_PARENT_RES"
      [] OTHER              -> "SYSCALL_COMPLETE"

\* The watcher: threads are made in order, and each is watched from the moment
\* its IPC block is made until the block is marked.
WatchInv ==
    /\ died \subseteq {Proc}
    /\ dropped = FALSE
    /\ \E n \in 0 .. MaxThreads : used = 1 .. n
    /\ used = {} <=> spc \in {"start", "watch"}
    /\ watches \subseteq {<<Proc, t>> : t \in used}
    /\ \A t \in Threads :
          /\ t \in used <=> (pluginDied[t] \/ <<Proc, t>> \in watches)
          /\ pluginDied[t] => Proc \in died /\ <<Proc, t>> \notin watches

\* Shadow's tables.  A thread with a task to continue it is running, and has
\* something to be continued from.
TableInv ==
    /\ pending \subseteq running
    /\ spc = "start" => /\ table = {} /\ died = {} /\ ~exiting /\ active = 1
                        /\ \A t \in Threads : ppc[t] = "unborn"
    /\ spc = "watch" => table = {1} /\ running = {} /\ active = 1
    /\ spc = "waitpid" => table = {}
    /\ spc \notin {"start", "watch"} => table \subseteq used
    /\ spc = "resume" \/ Awaiting => active \in running \ pending
    /\ spc = "after" => active \in table
    /\ InClone => LastThread \notin table /\ event[LastThread] # "STOP"
    /\ \A t \in Threads \ used : event[t] # "STOP"

\* What Shadow acts upon: a system call it can handle, a start, or the death.
EventInv ==
    /\ spc = "resume" => event[active] \in {"START", "SYSCALL", "STOP"}
    /\ spc = "resume" /\ event[active] = "SYSCALL" /\ call[active] = "clone" => Room
    /\ spc \in {"awaitBlock", "awaitAdd", "awaitClone"} => event[active] = "SYSCALL"
    /\ spc = "awaitBlock" => call[active] = "plain"
    /\ Awaiting => event[active] # "STOP"
    /\ \A t \in pending : event[t] = "START" \/ (event[t] = "SYSCALL" /\ call[t] = "plain")
    /\ \A t \in Threads : event[t] = "STOP" => Proc \in died

\* A message from a thread that is not known to be dead is the answer Shadow
\* waits for, and there is at most one.  The notice of the death stays until
\* it is read.
ToShadowInv ==
    \A t \in Threads :
        /\ semShadow[t] <= 1 + (IF pluginDied[t] THEN 1 ELSE 0)
        /\ semShadow[t] > 0 /\ ~pluginDied[t] =>
              /\ Waits(t) /\ toShadow[t] = Reply
              /\ spc = "await" /\ call[t] = "clone" => Room
        /\ pluginDied[t] /\ t \notin swallowed /\ event[t] # "STOP" => semShadow[t] > 0

\* What Shadow has asked of a thread it waits for.
Asked(t) ==
    \/ spc = "await" /\ toPlugin[t] \in {"START", "SYSCALL_COMPLETE"}
    \/ spc = "await" /\ toPlugin[t] = "SYSCALL_DO_NATIVE" /\ call[t] \in {"plain", "exit_group"}
    \/ spc = "awaitBlock" /\ toPlugin[t] = "BLOCK"
    \/ spc = "awaitAdd" /\ toPlugin[t] = "ADD_THREAD_REQ"
    \/ spc = "awaitClone" /\ toPlugin[t] = "SYSCALL"

\* A thread Shadow waits for: the question is on its way, or the answer is, or
\* the thread is at work.
Exchanging(t) ==
    \/ /\ semPlugin[t] = 1 /\ semShadow[t] = 0
       /\ ppc[t] = IF toPlugin[t] = "START" THEN "init" ELSE "wait"
       /\ Asked(t)
    \/ semPlugin[t] = 0 /\ semShadow[t] = 1 /\ ppc[t] = "wait"
    \/ /\ semPlugin[t] = 0 /\ semShadow[t] = 0
       /\ (spc = "await" /\ ppc[t] = "run") \/ (spc = "awaitClone" /\ ppc[t] \in {"finish", "spin"})

\* The thread that a clone in progress makes.
ChildState ==
    CASE spc = "awaitClone" /\ semShadow[active] = 1   -> "init"
      [] spc = "awaitClone" /\ ppc[active] = "finish"  -> "born"
      [] OTHER                                         -> "unborn"

\* A thread Shadow does not wait for: there is none yet, or it waits for
\* Shadow, or it was told to exit, or it is being made.
Resting(t) ==
    /\ semShadow[t] = 0
    /\ \/ /\ t \notin used /\ semPlugin[t] = 0
          /\ ppc[t] = IF spc = "watch" /\ t = 1 THEN "init" ELSE "unborn"
       \/ /\ t \in running /\ semPlugin[t] = 0
          /\ (event[t] = "START" /\ ppc[t] = "init") \/ (event[t] = "SYSCALL" /\ ppc[t] = "wait")
       \/ /\ t \in used \ running /\ ~(InClone /\ t = LastThread)
          /\ \/ semPlugin[t] = 0 /\ ppc[t] = "gone"
             \/ /\ semPlugin[t] = 1 /\ ppc[t] = "wait"
                /\ toPlugin[t] = "SYSCALL_DO_NATIVE" /\ call[t] = "exit"
       \/ InClone /\ t = LastThread /\ semPlugin[t] = 0 /\ ppc[t] = ChildState

\* While the process lives; and when it is dead so are its threads.
ThreadsInv ==
    /\ Proc \notin died => \A t \in Threads : IF Waits(t) THEN Exchanging(t) ELSE Resting(t)
    /\ Proc \notin died /\ exiting =>
          /\ spc = "await" /\ semPlugin[active] = 1
          /\ toPlugin[active] = "SYSCALL_DO_NATIVE" /\ call[active] = "exit_group"
    /\ Proc \in died => \A t \in Threads : ppc[t] \in {"unborn", "gone"}

\* The inductive invariant.
IInv ==
    /\ TypeOK /\ WatchInv /\ TableInv /\ EventInv /\ ToShadowInv /\ ThreadsInv
    /\ ReapedWhenEmpty
-----------------------------------------------------------------------------
\* The threads are numbered in the order of their creation: the new thread is
\* the next, and the last is the one made last.
LEMMA LastIsLast ==
    ASSUME NEW n \in Nat \ {0}, used = 1 .. n
    PROVE  LastThread = n
    BY DEF LastThread

\* A new thread is not in use, and is then the last.
LEMMA NewIsNext ==
    ASSUME WatchInv, Room
    PROVE  /\ NewThread \in Threads \ used
           /\ \E n \in 0 .. MaxThreads : used \cup {NewThread} = 1 .. n
           /\ used' = used \cup {NewThread} => LastThread' = NewThread
<1>1. PICK n \in 0 .. MaxThreads : used = 1 .. n
    BY DEF WatchInv
<1>2. n + 1 \in Threads \ used /\ \A u \in Threads \ used : n + 1 <= u
    BY <1>1, ShimAssumption DEF Room, Threads
<1>3. NewThread = n + 1
  <2>1. NewThread \in Threads \ used /\ \A u \in Threads \ used : NewThread <= u
      BY <1>2 DEF NewThread
  <2> QED BY <1>1, <1>2, <2>1, ShimAssumption DEF Threads
<1>4. used \cup {NewThread} = 1 .. n + 1 /\ n + 1 \in 0 .. MaxThreads
    BY <1>1, <1>2, <1>3, ShimAssumption DEF Threads
<1>5. used' = used \cup {NewThread} => LastThread' = NewThread
  <2> SUFFICES ASSUME used' = 1 .. n + 1 PROVE LastThread' = n + 1
      BY <1>3, <1>4
  <2>1. n + 1 \in used' /\ \A u \in used' : u <= n + 1
      BY <1>1
  <2> QED BY <2>1, <1>1 DEF LastThread
<1> QED BY <1>2, <1>3, <1>4, <1>5

\* There is a last thread as soon as there is a thread.
LEMMA LastInUse ==
    ASSUME WatchInv, used # {}
    PROVE  LastThread \in used /\ LastThread \in Threads /\ used \subseteq Threads
<1>1. PICK n \in 0 .. MaxThreads : used = 1 .. n
    BY DEF WatchInv
<1> QED BY <1>1, LastIsLast, ShimAssumption DEF Threads

\* Whom the watcher has been told of decides about both.
LEMMA SameThreads ==
    ASSUME used' = used
    PROVE  LastThread' = LastThread /\ (Room' <=> Room)
    BY DEF LastThread, Room

\* The process is forked: its main thread waits for the start event.
LEMMA StartInv ==
    ASSUME IInv, Start
    PROVE  IInv'
<1> USE DEF Start, watcherVars, IInv
<1>0. 1 \in Threads
    BY ShimAssumption DEF Threads
<1>s. LastThread' = LastThread /\ (Room' <=> Room)
    BY SameThreads
<1>1. TypeOK'
    BY <1>0 DEF TypeOK, TableInv
<1>2. WatchInv'
    BY DEF WatchInv, TypeOK, TableInv
<1>3. TableInv'
    BY <1>0, <1>s DEF TableInv, TypeOK, Awaiting, InClone, WatchInv
<1>4. EventInv'
    BY <1>s DEF EventInv, TableInv, TypeOK, Awaiting
<1>5. ToShadowInv'
    BY <1>s DEF ToShadowInv, TableInv, EventInv, TypeOK, Waits, Awaiting, Reply
<1>6. ThreadsInv'
  <2> SUFFICES ASSUME Proc \notin died, NEW t \in Threads
               PROVE  /\ Resting(t)' /\ ~Waits(t)' /\ ~exiting'
      BY DEF ThreadsInv, TableInv
  <2>1. Resting(t) /\ t \notin used /\ ppc[t] = "unborn"
      BY DEF ThreadsInv, Waits, Awaiting, WatchInv, TableInv
  <2> QED BY <1>0, <2>1 DEF Resting, TypeOK, TableInv, InClone, Waits, Awaiting, WatchInv
<1>7. ReapedWhenEmpty'
    BY DEF ReapedWhenEmpty, TableInv, TypeOK
<1> QED BY <1>1, <1>2, <1>3, <1>4, <1>5, <1>6, <1>7

\* A step that the watcher has no part in.
LEMMA WatchFrame ==
    ASSUME WatchInv, UNCHANGED <<died, dropped, used, watches, pluginDied>>,
           spc \in {"start", "watch"} <=> spc' \in {"start", "watch"}
    PROVE  WatchInv'
<1>1. /\ died' = died /\ dropped' = dropped /\ used' = used /\ watches' = watches
      /\ pluginDied' = pluginDied
    OBVIOUS
<1>2. used' = {} <=> spc' \in {"start", "watch"}
    BY <1>1 DEF WatchInv
<1> QED BY <1>1, <1>2 DEF WatchInv

\* The main thread is watched and running.
LEMMA WatchChildInv ==
    ASSUME IInv, WatchChild
    PROVE  IInv'
<1> USE DEF WatchChild, Watcher!Watch, ipcVars, pluginVars, IInv
<1>0. 1 \in Threads /\ used = {} /\ used' = 1 .. 1
    BY ShimAssumption DEF Threads, WatchInv
<1>1. TypeOK'
    BY <1>0 DEF TypeOK, TableInv
<1>2. WatchInv'
  <2>1. watches = {} /\ watches' = {<<Proc, 1>>}
      BY <1>0 DEF WatchInv
  <2>2. 1 \in 0 .. MaxThreads
      BY ShimAssumption
  <2> QED BY <1>0, <2>1, <2>2 DEF WatchInv, TypeOK
<1>3. TableInv'
    BY <1>0 DEF TableInv, TypeOK, Awaiting, InClone
<1>4. EventInv'
    BY <1>0 DEF EventInv, TableInv, TypeOK, Awaiting
<1>5. ToShadowInv'
    BY <1>0 DEF ToShadowInv, TableInv, EventInv, TypeOK, Waits, Awaiting, Reply
<1>6. ThreadsInv'
    BY <1>0 DEF ThreadsInv, ToShadowInv, TableInv, EventInv, TypeOK, Waits, Awaiting, InClone, Reply,
       Asked, Exchanging, ChildState, Resting
<1>7. ReapedWhenEmpty'
    BY DEF ReapedWhenEmpty, TableInv, TypeOK
<1> QED BY <1>1, <1>2, <1>3, <1>4, <1>5, <1>6, <1>7

\* A thread that has a task is continued from where it was.
LEMMA ContinueInv ==
    ASSUME IInv, NEW u \in Threads, Continue(u)
    PROVE  IInv'
<1> USE DEF Continue, ipcVars, pluginVars, watcherVars, ProcessRunning, IInv
<1>s. LastThread' = LastThread /\ (Room' <=> Room)
    BY SameThreads
<1>1. TypeOK'
    BY DEF TypeOK, ToPluginEvents, ToShadowEvents, Calls
<1>2. WatchInv'
    BY DEF WatchInv, TypeOK, TableInv
<1>3. TableInv'
    BY <1>s DEF TableInv, TypeOK, Awaiting, InClone
<1>4. EventInv'
    BY <1>s DEF EventInv, TableInv, TypeOK, Awaiting
<1>5. ToShadowInv'
    BY <1>s DEF ToShadowInv, TableInv, EventInv, TypeOK, Waits, Awaiting, Reply
<1>6. ThreadsInv'
    BY <1>s DEF ThreadsInv, ToShadowInv, TableInv, EventInv, TypeOK, Waits, Awaiting, InClone, Reply,
       Asked, Exchanging, ChildState, Resting
<1>7. ReapedWhenEmpty'
    BY DEF ReapedWhenEmpty, TableInv, TypeOK
<1> QED BY <1>1, <1>2, <1>3, <1>4, <1>5, <1>6, <1>7

\* The start event is sent.
LEMMA ResumeStartInv ==
    ASSUME IInv, ResumeStart
    PROVE  IInv'
<1> USE DEF ResumeStart, SendAndAwait, SendToPlugin, procVars, pluginVars, watcherVars, IInv
<1>s. LastThread' = LastThread /\ (Room' <=> Room)
    BY SameThreads
<1>1. TypeOK'
    BY DEF TypeOK, ToPluginEvents, ToShadowEvents, Calls
<1>2. WatchInv'
    BY DEF WatchInv, TypeOK, TableInv
<1>3. TableInv'
    BY <1>s DEF TableInv, TypeOK, Awaiting, InClone
<1>4. EventInv'
    BY <1>s DEF EventInv, TableInv, TypeOK, Awaiting
<1>5. ToShadowInv'
    BY <1>s DEF ToShadowInv, TableInv, EventInv, TypeOK, Waits, Awaiting, Reply
<1>6. ThreadsInv'
    BY <1>s DEF ThreadsInv, ToShadowInv, TableInv, EventInv, TypeOK, Waits, Awaiting, InClone, Reply,
       Asked, Exchanging, ChildState, Resting
<1>7. ReapedWhenEmpty'
    BY DEF ReapedWhenEmpty, TableInv, TypeOK
<1> QED BY <1>1, <1>2, <1>3, <1>4, <1>5, <1>6, <1>7

\* A call is answered.
LEMMA SyscallDoneInv ==
    ASSUME IInv, SyscallDone
    PROVE  IInv'
<1> USE DEF SyscallDone, Handling, SendAndAwait, SendToPlugin, procVars, pluginVars, watcherVars, IInv
<1>s. LastThread' = LastThread /\ (Room' <=> Room)
    BY SameThreads
<1>1. TypeOK'
  <2>1. toPlugin' \in [Threads -> ToPluginEvents \cup {"none"}]
      BY DEF TypeOK, ToPluginEvents
  <2>2. semPlugin' \in [Threads -> Nat]
      BY DEF TypeOK
  <2>3. spc' = "await" /\ UNCHANGED <<toShadow, semShadow, pluginDied, active, event, swallowed>>
      OBVIOUS
  <2> QED BY <2>1, <2>2, <2>3 DEF TypeOK
<1>2. WatchInv'
  <2>1. /\ UNCHANGED <<died, dropped, used, watches, pluginDied>>
        /\ spc \notin {"start", "watch"} /\ spc' \notin {"start", "watch"}
      OBVIOUS
  <2> QED BY <2>1, WatchFrame
<1>3. TableInv'
    BY <1>s DEF TableInv, TypeOK, Awaiting, InClone
<1>4. EventInv'
    BY <1>s DEF EventInv, TableInv, TypeOK, Awaiting
<1>5. ToShadowInv'
    BY <1>s DEF ToShadowInv, TableInv, EventInv, TypeOK, Waits, Awaiting, Reply
<1>6. ThreadsInv'
    BY <1>s DEF ThreadsInv, ToShadowInv, TableInv, EventInv, TypeOK, Waits, Awaiting, InClone, Reply,
       Asked, Exchanging, ChildState, Resting
<1>7. ReapedWhenEmpty'
    BY DEF ReapedWhenEmpty, TableInv, TypeOK
<1> QED BY <1>1, <1>2, <1>3, <1>4, <1>5, <1>6, <1>7

\* A call blocks: with or without a message.
LEMMA SyscallBlocksInv ==
    ASSUME IInv, SyscallBlocks
    PROVE  IInv'
<1> USE DEF SyscallBlocks, Handling, SendAndAwait, SendToPlugin, pluginVars, watcherVars, IInv
<1>s. LastThread' = LastThread /\ (Room' <=> Room)
    BY SameThreads
<1>1. TypeOK'
    BY DEF TypeOK, ToPluginEvents, ToShadowEvents, Calls
<1>2. WatchInv'
  <2>1. /\ UNCHANGED <<died, dropped, used, watches, pluginDied>>
        /\ spc \notin {"start", "watch"} /\ spc' \notin {"start", "watch"}
      OBVIOUS
  <2> QED BY <2>1, WatchFrame
<1>3. TableInv'
    BY <1>s DEF TableInv, TypeOK, Awaiting, InClone
<1>4. EventInv'
    BY <1>s DEF EventInv, TableInv, TypeOK, Awaiting
<1>5. ToShadowInv'
    BY <1>s DEF ToShadowInv, TableInv, EventInv, TypeOK, Waits, Awaiting, Reply
<1>6. ThreadsInv'
    BY <1>s DEF ThreadsInv, ToShadowInv, TableInv, EventInv, TypeOK, Waits, Awaiting, InClone, Reply,
       Asked, Exchanging, ChildState, Resting
<1>7. ReapedWhenEmpty'
    BY DEF ReapedWhenEmpty, TableInv, TypeOK
<1> QED BY <1>1, <1>2, <1>3, <1>4, <1>5, <1>6, <1>7

\* exit_group: the process is exiting from now on.
LEMMA SyscallExitGroupInv ==
    ASSUME IInv, SyscallExitGroup
    PROVE  IInv'
<1> USE DEF SyscallExitGroup, Handling, SendAndAwait, SendToPlugin, pluginVars, watcherVars, IInv
<1>s. LastThread' = LastThread /\ (Room' <=> Room)
    BY SameThreads
<1>1. TypeOK'
    BY DEF TypeOK, ToPluginEvents, ToShadowEvents, Calls
<1>2. WatchInv'
    BY DEF WatchInv, TypeOK, TableInv
<1>3. TableInv'
    BY <1>s DEF TableInv, TypeOK, Awaiting, InClone
<1>4. EventInv'
    BY <1>s DEF EventInv, TableInv, TypeOK, Awaiting
<1>5. ToShadowInv'
    BY <1>s DEF ToShadowInv, TableInv, EventInv, TypeOK, Waits, Awaiting, Reply
<1>6. ThreadsInv'
    BY <1>s DEF ThreadsInv, ToShadowInv, TableInv, EventInv, TypeOK, Waits, Awaiting, InClone, Reply,
       Asked, Exchanging, ChildState, Resting
<1>7. ReapedWhenEmpty'
    BY DEF ReapedWhenEmpty, TableInv, TypeOK
<1> QED BY <1>1, <1>2, <1>3, <1>4, <1>5, <1>6, <1>7

\* exit: the thread is told and nothing is awaited.
LEMMA SyscallExitInv ==
    ASSUME IInv, SyscallExit
    PROVE  IInv'
<1> USE DEF SyscallExit, Handling, SendToPlugin, pluginVars, watcherVars, IInv
<1>s. LastThread' = LastThread /\ (Room' <=> Room)
    BY SameThreads
<1>1. TypeOK'
    BY DEF TypeOK, ToPluginEvents, ToShadowEvents, Calls
<1>2. WatchInv'
    BY DEF WatchInv, TypeOK, TableInv
<1>3. TableInv'
    BY <1>s DEF TableInv, TypeOK, Awaiting, InClone
<1>4. EventInv'
    BY <1>s DEF EventInv, TableInv, TypeOK, Awaiting
<1>5. ToShadowInv'
    BY <1>s DEF ToShadowInv, TableInv, EventInv, TypeOK, Waits, Awaiting, Reply
<1>6. ThreadsInv'
    BY <1>s DEF ThreadsInv, ToShadowInv, TableInv, EventInv, TypeOK, Waits, Awaiting, InClone, Reply,
       Asked, Exchanging, ChildState, Resting
<1>7. ReapedWhenEmpty'
    BY DEF ReapedWhenEmpty, TableInv, TypeOK
<1> QED BY <1>1, <1>2, <1>3, <1>4, <1>5, <1>6, <1>7

\* clone: the IPC block of the new thread is made and watched.
LEMMA SyscallCloneInv ==
    ASSUME IInv, SyscallClone
    PROVE  IInv'
<1> USE DEF SyscallClone, Handling, Watcher!Watch, SendAndAwait, SendToPlugin, procVars, pluginVars, IInv
<1>s. /\ active \in Threads \cap used /\ NewThread \in Threads \ used
      /\ used' = used \cup {NewThread} /\ LastThread' = NewThread
      /\ \E n \in 0 .. MaxThreads : used' = 1 .. n
    BY NewIsNext DEF EventInv, TableInv, TypeOK
<1>1. TypeOK'
    BY <1>s DEF TypeOK, ToPluginEvents
<1>2. WatchInv'
  <2>1. watches' = watches \cup {<<Proc, NewThread>>}
      OBVIOUS
  <2>2. /\ died' \subseteq {Proc} /\ dropped' = FALSE /\ used' # {}
        /\ watches' \subseteq {<<Proc, t>> : t \in used'}
      BY <1>s, <2>1 DEF WatchInv
  <2>3. ASSUME NEW t \in Threads
        PROVE  /\ t \in used' <=> (pluginDied[t] \/ <<Proc, t>> \in watches')
               /\ pluginDied[t] => Proc \in died /\ <<Proc, t>> \notin watches'
    <3>1. <<Proc, t>> \in watches' <=> (<<Proc, t>> \in watches \/ t = NewThread)
        BY <2>1
    <3> QED BY <1>s, <3>1 DEF WatchInv
  <2> QED BY <1>s, <2>2, <2>3 DEF WatchInv
<1>3. TableInv'
    BY <1>s DEF TableInv, TypeOK, Awaiting, InClone
<1>4. EventInv'
    BY <1>s DEF EventInv, TableInv, TypeOK, Awaiting
<1>5. ToShadowInv'
    BY <1>s DEF ToShadowInv, TableInv, EventInv, TypeOK, Waits, Awaiting, Reply
<1>6. ThreadsInv'
  <2> SUFFICES ASSUME Proc \notin died, NEW t \in Threads
               PROVE  IF Waits(t)' THEN Exchanging(t)' ELSE Resting(t)'
      BY DEF ThreadsInv
  <2>1. Resting(t) /\ ~Waits(t) /\ ~InClone /\ ~exiting /\ spc # "watch"
      BY DEF ThreadsInv, Waits, Awaiting, InClone
  <2>2. CASE t = active
      BY <1>s, <2>1, <2>2 DEF Resting, Waits, Awaiting, Exchanging, Asked, TypeOK, TableInv
  <2>3. CASE t # active
      BY <1>s, <2>1, <2>3 DEF Resting, Waits, Awaiting, InClone, ChildState, TypeOK
  <2> QED BY <2>2, <2>3
<1>7. ReapedWhenEmpty'
    BY DEF ReapedWhenEmpty, TableInv, TypeOK
<1> QED BY <1>1, <1>2, <1>3, <1>4, <1>5, <1>6, <1>7

\* The notice of the death: the thread no longer runs.
LEMMA ReceivedStopInv ==
    ASSUME IInv, ReceivedStop
    PROVE  IInv'
<1> USE DEF ReceivedStop, ipcVars, pluginVars, watcherVars, IInv
<1>s. LastThread' = LastThread /\ (Room' <=> Room)
    BY SameThreads
<1>1. TypeOK'
    BY DEF TypeOK, ToPluginEvents, ToShadowEvents, Calls
<1>2. WatchInv'
    BY DEF WatchInv, TypeOK, TableInv
<1>3. TableInv'
    BY <1>s DEF TableInv, TypeOK, Awaiting, InClone
<1>4. EventInv'
    BY <1>s DEF EventInv, TableInv, TypeOK, Awaiting
<1>5. ToShadowInv'
    BY <1>s DEF ToShadowInv, TableInv, EventInv, TypeOK, Waits, Awaiting, Reply
<1>6. ThreadsInv'
    BY <1>s DEF ThreadsInv, ToShadowInv, TableInv, EventInv, TypeOK, Waits, Awaiting, InClone, Reply,
       Asked, Exchanging, ChildState, Resting
<1>7. ReapedWhenEmpty'
    BY DEF ReapedWhenEmpty, TableInv, TypeOK
<1> QED BY <1>1, <1>2, <1>3, <1>4, <1>5, <1>6, <1>7

\* The next event of the thread, or the notice.
LEMMA AwaitEventInv ==
    ASSUME IInv, AwaitEvent
    PROVE  IInv'
<1> USE DEF AwaitEvent, TakeFromPlugin, Received, procVars, pluginVars, watcherVars, IInv
<1>s. LastThread' = LastThread /\ (Room' <=> Room)
    BY SameThreads
<1>1. TypeOK'
    BY DEF TypeOK, ToPluginEvents, ToShadowEvents, Calls
<1>2. WatchInv'
    BY DEF WatchInv, TypeOK, TableInv
<1>3. TableInv'
    BY <1>s DEF TableInv, TypeOK, Awaiting, InClone
<1>4. EventInv'
  <2>1. /\ event'[active] \in {"STOP", "SYSCALL"}
        /\ event'[active] = "STOP" => Proc \in died
        /\ event'[active] = "SYSCALL" /\ call[active] = "clone" => Room
      BY DEF TypeOK, ToShadowInv, WatchInv, Reply
  <2> QED BY <1>s, <2>1 DEF EventInv, TableInv, TypeOK, Awaiting
<1>5. ToShadowInv'
    BY <1>s DEF ToShadowInv, TableInv, EventInv, TypeOK, Waits, Awaiting, Reply
<1>6. ThreadsInv'
  <2> SUFFICES ASSUME Proc \notin died
               PROVE  /\ ~exiting
                      /\ \A t \in Threads : ~Waits(t)' /\ Resting(t)'
      BY DEF ThreadsInv
  <2>0. /\ Waits(active) /\ ~pluginDied[active] /\ active \in Threads
        /\ toShadow[active] = Reply /\ Exchanging(active)
      BY DEF ThreadsInv, ToShadowInv, WatchInv, TypeOK, Waits, Awaiting
  <2>1. /\ Waits(active) /\ ~pluginDied[active] /\ active \in Threads
        /\ semShadow[active] = 1 /\ semPlugin[active] = 0 /\ ppc[active] = "wait"
        /\ event'[active] = "SYSCALL"
      BY <2>0 DEF TypeOK, Exchanging, Reply
  <2>2. ~exiting
      BY <2>1 DEF ThreadsInv
  <2>3. ASSUME NEW t \in Threads PROVE ~Waits(t)' /\ Resting(t)'
      BY <1>s, <2>1 DEF ThreadsInv, TableInv, TypeOK, Waits, Awaiting, InClone, Resting
  <2> QED BY <2>2, <2>3
<1>7. ReapedWhenEmpty'
    BY DEF ReapedWhenEmpty, TableInv, TypeOK
<1> QED BY <1>1, <1>2, <1>3, <1>4, <1>5, <1>6, <1>7

\* The acknowledgement of a block message.
LEMMA AwaitBlockInv ==
    ASSUME IInv, AwaitBlock
    PROVE  IInv'
<1> USE DEF AwaitBlock, TakeFromPlugin, Swallow, Received, pluginVars, watcherVars, IInv
<1>s. LastThread' = LastThread /\ (Room' <=> Room)
    BY SameThreads
<1>1. TypeOK'
    BY DEF TypeOK, ToPluginEvents, ToShadowEvents, Calls
<1>2. WatchInv'
    BY DEF WatchInv, TypeOK, TableInv
<1>3. TableInv'
    BY <1>s DEF TableInv, TypeOK, Awaiting, InClone
<1>4. EventInv'
    BY <1>s DEF EventInv, TableInv, TypeOK, Awaiting
<1>5. ToShadowInv'
    BY <1>s DEF ToShadowInv, TableInv, EventInv, TypeOK, Waits, Awaiting, Reply
<1>6. ThreadsInv'
    BY <1>s DEF ThreadsInv, ToShadowInv, TableInv, EventInv, TypeOK, Waits, Awaiting, InClone, Reply,
       Asked, Exchanging, ChildState, Resting
<1>7. ReapedWhenEmpty'
    BY DEF ReapedWhenEmpty, TableInv, TypeOK
<1> QED BY <1>1, <1>2, <1>3, <1>4, <1>5, <1>6, <1>7

\* The acknowledgement of the new IPC block.
LEMMA AwaitAddInv ==
    ASSUME IInv, AwaitAdd
    PROVE  IInv'
<1> USE DEF AwaitAdd, TakeFromPlugin, Swallow, Received, SendToPlugin, procVars, pluginVars, watcherVars, IInv
<1>s. LastThread' = LastThread /\ (Room' <=> Room)
    BY SameThreads
<1>1. TypeOK'
    BY DEF TypeOK, ToPluginEvents, ToShadowEvents, Calls
<1>2. WatchInv'
    BY DEF WatchInv, TypeOK, TableInv
<1>3. TableInv'
    BY <1>s DEF TableInv, TypeOK, Awaiting, InClone
<1>4. EventInv'
    BY <1>s DEF EventInv, TableInv, TypeOK, Awaiting
<1>5. ToShadowInv'
    BY <1>s DEF ToShadowInv, TableInv, EventInv, TypeOK, Waits, Awaiting, Reply
<1>6. ThreadsInv'
    BY <1>s DEF ThreadsInv, ToShadowInv, TableInv, EventInv, TypeOK, Waits, Awaiting, InClone, Reply,
       Asked, Exchanging, ChildState, Resting
<1>7. ReapedWhenEmpty'
    BY DEF ReapedWhenEmpty, TableInv, TypeOK
<1> QED BY <1>1, <1>2, <1>3, <1>4, <1>5, <1>6, <1>7

\* The new thread is there and scheduled.
LEMMA AwaitCloneInv ==
    ASSUME IInv, AwaitClone
    PROVE  IInv'
<1> USE DEF AwaitClone, TakeFromPlugin, Swallow, Received, SendToPlugin, pluginVars, watcherVars, IInv
<1>0. /\ LastThread \in used /\ LastThread \in Threads /\ LastThread \notin table
      /\ LastThread # active /\ active \in Threads
    BY LastInUse DEF WatchInv, TableInv, TypeOK, InClone, Awaiting
<1>s. LastThread' = LastThread /\ (Room' <=> Room)
    BY SameThreads
<1>1. TypeOK'
    BY <1>0 DEF TypeOK, ToPluginEvents
<1>2. WatchInv'
    BY DEF WatchInv, TypeOK, TableInv
<1>3. TableInv'
    BY <1>0, <1>s DEF TableInv, TypeOK, Awaiting, InClone
<1>4. EventInv'
    BY <1>0, <1>s DEF EventInv, TableInv, TypeOK, Awaiting
<1>5. ToShadowInv'
  <2> SUFFICES ASSUME NEW t \in Threads
               PROVE  /\ semShadow'[t] <= 1 + (IF pluginDied[t] THEN 1 ELSE 0)
                      /\ semShadow'[t] > 0 => pluginDied[t]
                      /\ pluginDied[t] /\ t \notin swallowed' /\ event'[t] # "STOP"
                            => semShadow'[t] > 0
      BY DEF ToShadowInv
  <2>1. CASE t = active
      BY <1>0, <2>1 DEF ToShadowInv, TypeOK
  <2>2. CASE t # active
      BY <1>0, <2>2 DEF ToShadowInv, TypeOK, Waits, TableInv, InClone
  <2> QED BY <2>1, <2>2
<1>6. ThreadsInv'
    BY <1>s DEF ThreadsInv, ToShadowInv, TableInv, EventInv, TypeOK, Waits, Awaiting, InClone, Reply,
       Asked, Exchanging, ChildState, Resting
<1>7. ReapedWhenEmpty'
    BY DEF ReapedWhenEmpty, TableInv, TypeOK
<1> QED BY <1>1, <1>2, <1>3, <1>4, <1>5, <1>6, <1>7

\* The thread is blocked.
LEMMA StillRunningInv ==
    ASSUME IInv, StillRunning
    PROVE  IInv'
<1> USE DEF StillRunning, ipcVars, procVars, pluginVars, watcherVars, IInv
<1>s. LastThread' = LastThread /\ (Room' <=> Room)
    BY SameThreads
<1>1. TypeOK'
    BY DEF TypeOK, ToPluginEvents, ToShadowEvents, Calls
<1>2. WatchInv'
    BY DEF WatchInv, TypeOK, TableInv
<1>3. TableInv'
    BY <1>s DEF TableInv, TypeOK, Awaiting, InClone
<1>4. EventInv'
    BY <1>s DEF EventInv, TableInv, TypeOK, Awaiting
<1>5. ToShadowInv'
    BY <1>s DEF ToShadowInv, TableInv, EventInv, TypeOK, Waits, Awaiting, Reply
<1>6. ThreadsInv'
    BY <1>s DEF ThreadsInv, ToShadowInv, TableInv, EventInv, TypeOK, Waits, Awaiting, InClone, Reply,
       Asked, Exchanging, ChildState, Resting
<1>7. ReapedWhenEmpty'
    BY DEF ReapedWhenEmpty, TableInv, TypeOK
<1> QED BY <1>1, <1>2, <1>3, <1>4, <1>5, <1>6, <1>7

\* The thread has exited and is freed.
LEMMA ThreadExitedInv ==
    ASSUME IInv, ThreadExited
    PROVE  IInv'
<1> USE DEF ThreadExited, FreeThreads, FrameIpc, pluginVars, watcherVars, IInv
<1>s. LastThread' = LastThread /\ (Room' <=> Room)
    BY SameThreads
<1>1. TypeOK'
    BY DEF TypeOK, ToPluginEvents, ToShadowEvents, Calls
<1>2. WatchInv'
    BY DEF WatchInv, TypeOK, TableInv
<1>3. TableInv'
    BY <1>s DEF TableInv, TypeOK, Awaiting, InClone
<1>4. EventInv'
    BY <1>s DEF EventInv, TableInv, TypeOK, Awaiting
<1>5. ToShadowInv'
    BY <1>s DEF ToShadowInv, TableInv, EventInv, TypeOK, Waits, Awaiting, Reply
<1>6. ThreadsInv'
    BY <1>s DEF ThreadsInv, ToShadowInv, TableInv, EventInv, TypeOK, Waits, Awaiting, InClone, Reply,
       Asked, Exchanging, ChildState, Resting
<1>7. ReapedWhenEmpty'
    BY DEF ReapedWhenEmpty, TableInv, TypeOK
<1> QED BY <1>1, <1>2, <1>3, <1>4, <1>5, <1>6, <1>7

\* All threads are freed.
LEMMA ProcessExitedInv ==
    ASSUME IInv, ProcessExited
    PROVE  IInv'
<1> USE DEF ProcessExited, FreeThreads, FrameIpc, pluginVars, watcherVars, IInv
<1>s. LastThread' = LastThread /\ (Room' <=> Room)
    BY SameThreads
<1>1. TypeOK'
    BY DEF TypeOK, ToPluginEvents, ToShadowEvents, Calls
<1>2. WatchInv'
    BY DEF WatchInv, TypeOK, TableInv
<1>3. TableInv'
    BY <1>s DEF TableInv, TypeOK, Awaiting, InClone
<1>4. EventInv'
    BY <1>s DEF EventInv, TableInv, TypeOK, Awaiting
<1>5. ToShadowInv'
    BY <1>s DEF ToShadowInv, TableInv, EventInv, TypeOK, Waits, Awaiting, Reply
<1>6. ThreadsInv'
    BY <1>s DEF ThreadsInv, ToShadowInv, TableInv, EventInv, TypeOK, Waits, Awaiting, InClone, Reply,
       Asked, Exchanging, ChildState, Resting
<1>7. ReapedWhenEmpty'
    BY DEF ReapedWhenEmpty, TableInv, TypeOK
<1> QED BY <1>1, <1>2, <1>3, <1>4, <1>5, <1>6, <1>7

\* The process is reaped.
LEMMA WaitPidInv ==
    ASSUME IInv, WaitPid
    PROVE  IInv'
<1> USE DEF WaitPid, ipcVars, pluginVars, watcherVars, IInv
<1>s. LastThread' = LastThread /\ (Room' <=> Room)
    BY SameThreads
<1>1. TypeOK'
    BY DEF TypeOK, ToPluginEvents, ToShadowEvents, Calls
<1>2. WatchInv'
    BY DEF WatchInv, TypeOK, TableInv
<1>3. TableInv'
    BY <1>s DEF TableInv, TypeOK, Awaiting, InClone
<1>4. EventInv'
    BY <1>s DEF EventInv, TableInv, TypeOK, Awaiting
<1>5. ToShadowInv'
    BY <1>s DEF ToShadowInv, TableInv, EventInv, TypeOK, Waits, Awaiting, Reply
<1>6. ThreadsInv'
    BY <1>s DEF ThreadsInv, ToShadowInv, TableInv, EventInv, TypeOK, Waits, Awaiting, InClone, Reply,
       Asked, Exchanging, ChildState, Resting
<1>7. ReapedWhenEmpty'
    BY DEF ReapedWhenEmpty, TableInv, TypeOK
<1> QED BY <1>1, <1>2, <1>3, <1>4, <1>5, <1>6, <1>7

\* process_stop kills the process.
LEMMA StopProcessInv ==
    ASSUME IInv, StopProcess
    PROVE  IInv'
<1> USE DEF StopProcess, FreeThreads, FrameIpc, ProcessRunning, Watcher!Exit, Gone, watcherVars, IInv
<1>s. LastThread' = LastThread /\ (Room' <=> Room)
    BY SameThreads
<1>1. TypeOK'
  <2>1. /\ ipcLive' \subseteq Threads /\ running' \subseteq table' /\ table' \subseteq Threads
        /\ pending' \subseteq Threads /\ spc' \in {"idle", "waitpid"}
      BY DEF TypeOK
  <2>2. exiting' \in BOOLEAN /\ stopped' \in BOOLEAN
      BY DEF TypeOK
  <2>3. ppc' \in [Threads -> {"unborn", "born", "init", "run", "wait", "finish", "spin", "gone"}]
      BY DEF TypeOK
  <2>4. UNCHANGED <<toPlugin, toShadow, semPlugin, semShadow, active, event, reaped, swallowed,
                    call, ncalls>>
      OBVIOUS
  <2>5. pluginDied' \in [Threads -> BOOLEAN]
      BY DEF TypeOK
  <2> QED BY <2>1, <2>2, <2>3, <2>4, <2>5 DEF TypeOK
<1>2. WatchInv'
    BY DEF WatchInv, TypeOK, TableInv
<1>3. TableInv'
    BY <1>s DEF TableInv, TypeOK, Awaiting, InClone
<1>4. EventInv'
    BY <1>s DEF EventInv, TableInv, TypeOK, Awaiting
<1>5. ToShadowInv'
    BY <1>s DEF ToShadowInv, TableInv, EventInv, TypeOK, Waits, Awaiting, Reply
<1>6. ThreadsInv'
    BY <1>s DEF ThreadsInv, ToShadowInv, TableInv, EventInv, TypeOK, Waits, Awaiting, InClone, Reply,
       Asked, Exchanging, ChildState, Resting
<1>7. ReapedWhenEmpty'
    BY DEF ReapedWhenEmpty, TableInv, TypeOK
<1> QED BY <1>1, <1>2, <1>3, <1>4, <1>5, <1>6, <1>7

\* The managed thread starts.
LEMMA RecvStartInv ==
    ASSUME IInv, NEW u \in Threads, Alive, RecvStart(u)
    PROVE  IInv'
<1> USE DEF RecvStart, TakeFromShadow, PluginFrame, shadowVars, watcherVars, Alive, IInv
<1>s. LastThread' = LastThread /\ (Room' <=> Room)
    BY SameThreads
<1>1. TypeOK'
    BY DEF TypeOK, ToPluginEvents, ToShadowEvents, Calls
<1>2. WatchInv'
    BY DEF WatchInv, TypeOK, TableInv
<1>3. TableInv'
    BY <1>s DEF TableInv, TypeOK, Awaiting, InClone
<1>4. EventInv'
    BY <1>s DEF EventInv, TableInv, TypeOK, Awaiting
<1>5. ToShadowInv'
    BY <1>s DEF ToShadowInv, TableInv, EventInv, TypeOK, Waits, Awaiting, Reply
<1>6. ThreadsInv'
    BY <1>s DEF ThreadsInv, ToShadowInv, TableInv, EventInv, TypeOK, Waits, Awaiting, InClone, Reply,
       Asked, Exchanging, ChildState, Resting
<1>7. ReapedWhenEmpty'
    BY DEF ReapedWhenEmpty, TableInv, TypeOK
<1> QED BY <1>1, <1>2, <1>3, <1>4, <1>5, <1>6, <1>7

\* The managed thread makes a call.
LEMMA SyscallInv ==
    ASSUME IInv, NEW u \in Threads, Alive, Syscall(u)
    PROVE  IInv'
<1> USE DEF Syscall, SendToShadow, PluginFrame, shadowVars, watcherVars, Alive, IInv
<1>0. spc = "await" /\ Waits(u) /\ active = u /\ semShadow[u] = 0 /\ ~pluginDied[u]
  <2>1. Waits(u)
      BY DEF ThreadsInv, Resting, ChildState
  <2>2. Exchanging(u) /\ ~pluginDied[u]
      BY <2>1 DEF ThreadsInv, WatchInv
  <2> QED BY <2>1, <2>2 DEF Waits, Exchanging, Asked
<1>s. LastThread' = LastThread /\ (Room' <=> Room)
    BY SameThreads
<1>1. TypeOK'
    BY DEF TypeOK, ToPluginEvents, ToShadowEvents, Calls
<1>2. WatchInv'
    BY DEF WatchInv, TypeOK, TableInv
<1>3. TableInv'
    BY <1>s DEF TableInv, TypeOK, Awaiting, InClone
<1>4. EventInv'
    BY <1>0, <1>s DEF EventInv, TableInv, TypeOK, Awaiting
<1>5. ToShadowInv'
  <2> SUFFICES ASSUME NEW t \in Threads
               PROVE  /\ semShadow'[t] <= 1 + (IF pluginDied[t] THEN 1 ELSE 0)
                      /\ semShadow'[t] > 0 /\ ~pluginDied[t] => t = active /\ toShadow'[t] = Reply
                      /\ semShadow'[t] > 0 /\ ~pluginDied[t] /\ call'[t] = "clone" => Room
                      /\ pluginDied[t] /\ t \notin swallowed /\ event[t] # "STOP"
                            => semShadow'[t] > 0
      BY <1>0, <1>s DEF ToShadowInv, Waits, Awaiting, Reply
  <2>1. CASE t = u
      BY <1>0, <2>1 DEF TypeOK, Reply, Room
  <2>2. CASE t # u
      BY <1>0, <2>2 DEF ToShadowInv, TypeOK, Waits
  <2> QED BY <2>1, <2>2
<1>6. ThreadsInv'
    BY <1>s DEF ThreadsInv, ToShadowInv, TableInv, EventInv, TypeOK, Waits, Awaiting, InClone, Reply,
       Asked, Exchanging, ChildState, Resting
<1>7. ReapedWhenEmpty'
    BY DEF ReapedWhenEmpty, TableInv, TypeOK
<1> QED BY <1>1, <1>2, <1>3, <1>4, <1>5, <1>6, <1>7

\* The managed thread acknowledges a block message.
LEMMA RecvBlockInv ==
    ASSUME IInv, NEW u \in Threads, Alive, RecvBlock(u)
    PROVE  IInv'
<1> USE DEF RecvBlock, Takes, TakeFromShadow, SendToShadow, pluginVars, PluginFrame, shadowVars, watcherVars, Alive, IInv
<1>0. spc = "awaitBlock" /\ Waits(u) /\ active = u /\ semShadow[u] = 0 /\ ~pluginDied[u]
  <2>1. Waits(u)
      BY DEF ThreadsInv, Resting, ChildState
  <2>2. Exchanging(u) /\ ~pluginDied[u]
      BY <2>1 DEF ThreadsInv, WatchInv
  <2> QED BY <2>1, <2>2 DEF Waits, Exchanging, Asked
<1>s. LastThread' = LastThread /\ (Room' <=> Room)
    BY SameThreads
<1>1. TypeOK'
    BY DEF TypeOK, ToPluginEvents, ToShadowEvents, Calls
<1>2. WatchInv'
    BY DEF WatchInv, TypeOK, TableInv
<1>3. TableInv'
    BY <1>s DEF TableInv, TypeOK, Awaiting, InClone
<1>4. EventInv'
    BY <1>s DEF EventInv, TableInv, TypeOK, Awaiting
<1>5. ToShadowInv'
  <2> SUFFICES ASSUME NEW t \in Threads
               PROVE  /\ semShadow'[t] <= 1 + (IF pluginDied[t] THEN 1 ELSE 0)
                      /\ semShadow'[t] > 0 /\ ~pluginDied[t] => t = active /\ toShadow'[t] = Reply
                      /\ pluginDied[t] /\ t \notin swallowed /\ event[t] # "STOP"
                            => semShadow'[t] > 0
      BY <1>0, <1>s DEF ToShadowInv, Waits, Awaiting, Reply
  <2>1. CASE t = u
      BY <1>0, <2>1 DEF TypeOK, Reply
  <2>2. CASE t # u
      BY <1>0, <2>2 DEF ToShadowInv, TypeOK, Waits
  <2> QED BY <2>1, <2>2
<1>6. ThreadsInv'
    BY <1>s DEF ThreadsInv, ToShadowInv, TableInv, EventInv, TypeOK, Waits, Awaiting, InClone, Reply,
       Asked, Exchanging, ChildState, Resting
<1>7. ReapedWhenEmpty'
    BY DEF ReapedWhenEmpty, TableInv, TypeOK
<1> QED BY <1>1, <1>2, <1>3, <1>4, <1>5, <1>6, <1>7

\* The managed thread goes on.
LEMMA RecvCompleteInv ==
    ASSUME IInv, NEW u \in Threads, Alive, RecvComplete(u)
    PROVE  IInv'
<1> USE DEF RecvComplete, Takes, TakeFromShadow, PluginFrame, shadowVars, watcherVars, Alive, IInv
<1>s. LastThread' = LastThread /\ (Room' <=> Room)
    BY SameThreads
<1>1. TypeOK'
    BY DEF TypeOK, ToPluginEvents, ToShadowEvents, Calls
<1>2. WatchInv'
    BY DEF WatchInv, TypeOK, TableInv
<1>3. TableInv'
    BY <1>s DEF TableInv, TypeOK, Awaiting, InClone
<1>4. EventInv'
    BY <1>s DEF EventInv, TableInv, TypeOK, Awaiting
<1>5. ToShadowInv'
    BY <1>s DEF ToShadowInv, TableInv, EventInv, TypeOK, Waits, Awaiting, Reply
<1>6. ThreadsInv'
    BY <1>s DEF ThreadsInv, ToShadowInv, TableInv, EventInv, TypeOK, Waits, Awaiting, InClone, Reply,
       Asked, Exchanging, ChildState, Resting
<1>7. ReapedWhenEmpty'
    BY DEF ReapedWhenEmpty, TableInv, TypeOK
<1> QED BY <1>1, <1>2, <1>3, <1>4, <1>5, <1>6, <1>7

\* The managed thread makes the call itself, and may end so.
LEMMA RecvDoNativeInv ==
    ASSUME IInv, NEW u \in Threads, Alive, RecvDoNative(u)
    PROVE  IInv'
<1> USE DEF RecvDoNative, Takes, TakeFromShadow, Gone, Watcher!Exit, PluginFrame, shadowVars, watcherVars, Alive, IInv
<1>s. LastThread' = LastThread /\ (Room' <=> Room)
    BY SameThreads
<1>1. TypeOK'
    BY DEF TypeOK, ToPluginEvents, ToShadowEvents, Calls
<1>2. WatchInv'
    BY DEF WatchInv, TypeOK, TableInv
<1>3. TableInv'
    BY <1>s DEF TableInv, TypeOK, Awaiting, InClone
<1>4. EventInv'
    BY <1>s DEF EventInv, TableInv, TypeOK, Awaiting
<1>5. ToShadowInv'
    BY <1>s DEF ToShadowInv, TableInv, EventInv, TypeOK, Waits, Awaiting, Reply
<1>6. ThreadsInv'
    BY <1>s DEF ThreadsInv, ToShadowInv, TableInv, EventInv, TypeOK, Waits, Awaiting, InClone, Reply,
       Asked, Exchanging, ChildState, Resting
<1>7. ReapedWhenEmpty'
    BY DEF ReapedWhenEmpty, TableInv, TypeOK
<1> QED BY <1>1, <1>2, <1>3, <1>4, <1>5, <1>6, <1>7

\* The managed thread acknowledges the IPC block.
LEMMA RecvAddThreadInv ==
    ASSUME IInv, NEW u \in Threads, Alive, RecvAddThread(u)
    PROVE  IInv'
<1> USE DEF RecvAddThread, Takes, TakeFromShadow, SendToShadow, pluginVars, PluginFrame, shadowVars, watcherVars, Alive, IInv
<1>0. spc = "awaitAdd" /\ Waits(u) /\ active = u /\ semShadow[u] = 0 /\ ~pluginDied[u]
  <2>1. Waits(u)
      BY DEF ThreadsInv, Resting, ChildState
  <2>2. Exchanging(u) /\ ~pluginDied[u]
      BY <2>1 DEF ThreadsInv, WatchInv
  <2> QED BY <2>1, <2>2 DEF Waits, Exchanging, Asked
<1>s. LastThread' = LastThread /\ (Room' <=> Room)
    BY SameThreads
<1>1. TypeOK'
    BY DEF TypeOK, ToPluginEvents, ToShadowEvents, Calls
<1>2. WatchInv'
    BY DEF WatchInv, TypeOK, TableInv
<1>3. TableInv'
    BY <1>s DEF TableInv, TypeOK, Awaiting, InClone
<1>4. EventInv'
    BY <1>s DEF EventInv, TableInv, TypeOK, Awaiting
<1>5. ToShadowInv'
  <2> SUFFICES ASSUME NEW t \in Threads
               PROVE  /\ semShadow'[t] <= 1 + (IF pluginDied[t] THEN 1 ELSE 0)
                      /\ semShadow'[t] > 0 /\ ~pluginDied[t] => t = active /\ toShadow'[t] = Reply
                      /\ pluginDied[t] /\ t \notin swallowed /\ event[t] # "STOP"
                            => semShadow'[t] > 0
      BY <1>0, <1>s DEF ToShadowInv, Waits, Awaiting, Reply
  <2>1. CASE t = u
      BY <1>0, <2>1 DEF TypeOK, Reply
  <2>2. CASE t # u
      BY <1>0, <2>2 DEF ToShadowInv, TypeOK, Waits
  <2> QED BY <2>1, <2>2
<1>6. ThreadsInv'
    BY <1>s DEF ThreadsInv, ToShadowInv, TableInv, EventInv, TypeOK, Waits, Awaiting, InClone, Reply,
       Asked, Exchanging, ChildState, Resting
<1>7. ReapedWhenEmpty'
    BY DEF ReapedWhenEmpty, TableInv, TypeOK
<1> QED BY <1>1, <1>2, <1>3, <1>4, <1>5, <1>6, <1>7

\* The managed thread clones, or waits for a thread that is not there.
LEMMA CloneInv ==
    ASSUME IInv, NEW u \in Threads, Alive, Clone(u)
    PROVE  IInv'
<1> USE DEF Clone, Takes, TakeFromShadow, PluginFrame, shadowVars, watcherVars, Alive, IInv
<1>s. LastThread' = LastThread /\ (Room' <=> Room)
    BY SameThreads
<1>1. TypeOK'
    BY DEF TypeOK, ToPluginEvents, ToShadowEvents, Calls
<1>2. WatchInv'
    BY DEF WatchInv, TypeOK, TableInv
<1>3. TableInv'
    BY <1>s DEF TableInv, TypeOK, Awaiting, InClone
<1>4. EventInv'
    BY <1>s DEF EventInv, TableInv, TypeOK, Awaiting
<1>5. ToShadowInv'
    BY <1>s DEF ToShadowInv, TableInv, EventInv, TypeOK, Waits, Awaiting, Reply
<1>6. ThreadsInv'
    BY <1>s DEF ThreadsInv, ToShadowInv, TableInv, EventInv, TypeOK, Waits, Awaiting, InClone, Reply,
       Asked, Exchanging, ChildState, Resting
<1>7. ReapedWhenEmpty'
    BY DEF ReapedWhenEmpty, TableInv, TypeOK
<1> QED BY <1>1, <1>2, <1>3, <1>4, <1>5, <1>6, <1>7

\* The new thread releases its parent.
LEMMA ChildInitdInv ==
    ASSUME IInv, NEW u \in Threads, Alive, ChildInitd(u)
    PROVE  IInv'
<1> USE DEF ChildInitd, SendToShadow, PluginFrame, shadowVars, watcherVars, Alive, IInv
<1>0. /\ spc = "awaitClone" /\ ppc[active] = "finish" /\ semShadow[active] = 0 /\ ~pluginDied[active]
      /\ u = LastThread /\ active \in Threads /\ Waits(active) /\ u # active
      /\ \A t \in Threads : ppc[t] = "finish" => t = active
    BY DEF ThreadsInv, TypeOK, WatchInv, Waits, Awaiting, InClone, Exchanging, Resting, Asked, ChildState
<1>s. LastThread' = LastThread /\ (Room' <=> Room)
    BY SameThreads
<1>1. TypeOK'
    BY DEF TypeOK, ToPluginEvents, ToShadowEvents, Calls
<1>2. WatchInv'
    BY DEF WatchInv, TypeOK, TableInv
<1>3. TableInv'
    BY <1>s DEF TableInv, TypeOK, Awaiting, InClone
<1>4. EventInv'
    BY <1>s DEF EventInv, TableInv, TypeOK, Awaiting
<1>5. ToShadowInv'
  <2> SUFFICES ASSUME NEW t \in Threads
               PROVE  /\ semShadow'[t] <= 1 + (IF pluginDied[t] THEN 1 ELSE 0)
                      /\ semShadow'[t] > 0 /\ ~pluginDied[t] => t = active /\ toShadow'[t] = Reply
                      /\ pluginDied[t] /\ t \notin swallowed /\ event[t] # "STOP"
                            => semShadow'[t] > 0
      BY <1>0, <1>s DEF ToShadowInv, Waits, Awaiting, Reply
  <2>1. CASE t = active
      BY <1>0, <2>1 DEF TypeOK, Reply
  <2>2. CASE t # active
      BY <1>0, <2>2 DEF ToShadowInv, TypeOK, Waits
  <2> QED BY <2>1, <2>2
<1>6. ThreadsInv'
    BY <1>s DEF ThreadsInv, ToShadowInv, TableInv, EventInv, TypeOK, Waits, Awaiting, InClone, Reply,
       Asked, Exchanging, ChildState, Resting
<1>7. ReapedWhenEmpty'
    BY DEF ReapedWhenEmpty, TableInv, TypeOK
<1> QED BY <1>1, <1>2, <1>3, <1>4, <1>5, <1>6, <1>7

\* The process dies between any two steps.
LEMMA DieInv ==
    ASSUME IInv, Die
    PROVE  IInv'
<1> USE DEF Die, Watcher!Exit, Gone, Alive, PluginFrame, shadowVars, IInv
<1>s. LastThread' = LastThread /\ (Room' <=> Room)
    BY SameThreads
<1>1. TypeOK'
    BY DEF TypeOK, ToPluginEvents, ToShadowEvents, Calls
<1>2. WatchInv'
    BY DEF WatchInv, TypeOK, TableInv
<1>3. TableInv'
    BY <1>s DEF TableInv, TypeOK, Awaiting, InClone
<1>4. EventInv'
    BY <1>s DEF EventInv, TableInv, TypeOK, Awaiting
<1>5. ToShadowInv'
    BY <1>s DEF ToShadowInv, TableInv, EventInv, TypeOK, Waits, Awaiting, Reply
<1>6. ThreadsInv'
    BY <1>s DEF ThreadsInv, ToShadowInv, TableInv, EventInv, TypeOK, Waits, Awaiting, InClone, Reply,
       Asked, Exchanging, ChildState, Resting
<1>7. ReapedWhenEmpty'
    BY DEF ReapedWhenEmpty, TableInv, TypeOK
<1> QED BY <1>1, <1>2, <1>3, <1>4, <1>5, <1>6, <1>7

\* The watcher marks every IPC block it knows.
LEMMA NotifyInv ==
    ASSUME IInv, Notify
    PROVE  IInv'
<1> USE DEF Notify, Watcher!Notify, Watcher!Of, MarkPluginExited, shadowVars, pluginVars, IInv
<1> DEFINE S == {c[2] : c \in watches}
<1>0. /\ watches' = {} /\ Proc \in died
      /\ \A t \in Threads : t \in S <=> <<Proc, t>> \in watches
  <2>1. \A c \in watches : c[1] = Proc /\ c = <<Proc, c[2]>>
      BY DEF WatchInv
  <2> QED BY <2>1
<1>s. LastThread' = LastThread /\ (Room' <=> Room)
    BY SameThreads
<1>1. TypeOK'
    BY DEF TypeOK, ToPluginEvents, ToShadowEvents, Calls
<1>2. WatchInv'
    BY <1>0 DEF WatchInv, TypeOK
<1>3. TableInv'
    BY <1>s DEF TableInv, TypeOK, Awaiting, InClone
<1>4. EventInv'
    BY <1>s DEF EventInv, TableInv, TypeOK, Awaiting
<1>5. ToShadowInv'
  <2> SUFFICES ASSUME NEW t \in Threads
               PROVE  /\ semShadow'[t] <= 1 + (IF pluginDied'[t] THEN 1 ELSE 0)
                      /\ semShadow'[t] > 0 /\ ~pluginDied'[t] => semShadow'[t] = semShadow[t] /\ ~pluginDied[t]
                      /\ pluginDied'[t] /\ t \notin swallowed /\ event[t] # "STOP" => semShadow'[t] > 0
      BY <1>s DEF ToShadowInv, Waits, Awaiting, Reply
  <2>1. CASE t \in S
    <3>1. ~pluginDied[t] /\ semShadow[t] \in Nat /\ semShadow[t] <= 1
        BY <1>0, <2>1 DEF ToShadowInv, TypeOK, WatchInv
    <3>2. pluginDied'[t] /\ semShadow'[t] = semShadow[t] + 1
        BY <2>1
    <3> QED BY <3>1, <3>2
  <2>2. CASE t \notin S
      BY <1>0, <2>2 DEF ToShadowInv, TypeOK
  <2> QED BY <2>1, <2>2
<1>6. ThreadsInv'
    BY <1>s DEF ThreadsInv, ToShadowInv, TableInv, EventInv, TypeOK, Waits, Awaiting, InClone, Reply,
       Asked, Exchanging, ChildState, Resting
<1>7. ReapedWhenEmpty'
    BY DEF ReapedWhenEmpty, TableInv, TypeOK
<1> QED BY <1>1, <1>2, <1>3, <1>4, <1>5, <1>6, <1>7

-----------------------------------------------------------------------------
\* Init establishes the invariant.
LEMMA InitInv == Init => IInv
<1> SUFFICES ASSUME Init PROVE IInv
    OBVIOUS
<1> USE DEF Init, Watcher!Init
<1>0. 1 \in Threads
    BY ShimAssumption DEF Threads
<1>1. TypeOK
    BY <1>0 DEF TypeOK, Calls
<1>2. WatchInv
  <2>1. 0 \in 0 .. MaxThreads /\ used = 1 .. 0
      BY ShimAssumption
  <2> QED BY <2>1 DEF WatchInv
<1>3. TableInv /\ EventInv
    BY DEF TableInv, EventInv, Awaiting, InClone
<1>4. ToShadowInv /\ ThreadsInv
    BY DEF ToShadowInv, ThreadsInv, Waits, Awaiting, Resting
<1>5. ReapedWhenEmpty
    BY DEF ReapedWhenEmpty
<1> QED BY <1>1, <1>2, <1>3, <1>4, <1>5 DEF IInv

\* Every step preserves the invariant.
LEMMA StepInv == IInv /\ [Next]_vars => IInv'
<1> SUFFICES ASSUME IInv, [Next]_vars PROVE IInv'
    OBVIOUS
<1>1. CASE ShadowStep
    BY <1>1, StartInv, WatchChildInv, ResumeStartInv, SyscallDoneInv, SyscallBlocksInv,
       SyscallExitGroupInv, SyscallExitInv, SyscallCloneInv, ReceivedStopInv, AwaitEventInv,
       AwaitBlockInv, AwaitAddInv, AwaitCloneInv, StillRunningInv, ThreadExitedInv,
       ProcessExitedInv, WaitPidInv DEF ShadowStep
<1>2. CASE \E t \in Threads : PluginStep(t)
    BY <1>2, RecvStartInv, SyscallInv, RecvBlockInv, RecvCompleteInv, RecvDoNativeInv,
       RecvAddThreadInv, CloneInv, ChildInitdInv DEF PluginStep
<1>3. CASE (\E t \in Threads : Continue(t)) \/ StopProcess \/ Die \/ Notify
    BY <1>3, ContinueInv, StopProcessInv, DieInv, NotifyInv
<1>4. CASE UNCHANGED vars
  <2> USE <1>4 DEF vars, IInv
  <2>1. LastThread' = LastThread /\ (Room' <=> Room)
      BY SameThreads
  <2>2. TypeOK' /\ ReapedWhenEmpty'
      BY DEF TypeOK, ReapedWhenEmpty
  <2>w. WatchInv'
      BY WatchFrame
  <2>3. TableInv' /\ EventInv'
      BY <2>1 DEF TableInv, EventInv, Awaiting, InClone
  <2>4. ToShadowInv'
      BY <2>1 DEF ToShadowInv, Waits, Awaiting, Reply
  <2>5. ThreadsInv'
      BY <2>1 DEF ThreadsInv, Waits, Awaiting, InClone, Asked, Exchanging, ChildState, Resting
  <2> QED BY <2>2, <2>w, <2>3, <2>4, <2>5
<1> QED BY <1>1, <1>2, <1>3, <1>4 DEF Next

\* The invariant holds in every state.
THEOREM Invariance == Spec => []IInv
    BY InitInv, StepInv, PTL DEF Spec

-----------------------------------------------------------------------------
\* Control is on one side at a time, no message is overwritten before it has
\* been read, and each is read by a switch that knows it.
THEOREM ExchangeSafe == Spec => []Exchange
<1>1. IInv => Exchange
  <2> SUFFICES ASSUME IInv PROVE Exchange
      OBVIOUS
  <2> USE DEF IInv
  <2>1. OneSideRuns
      BY DEF OneSideRuns, ThreadsInv, Waits, Exchanging, Resting, ChildState, Asked, TypeOK
  <2>2. ASSUME NEW t \in Threads, Proc \notin died
        PROVE  /\ semPlugin[t] + semShadow[t] <= 1
               /\ semPlugin[t] > 0 => (ppc[t] = "init" <=> toPlugin[t] = "START")
      BY <2>2 DEF ThreadsInv, Exchanging, Resting, TypeOK
  <2>3. TokenPassing
      BY <2>2 DEF TokenPassing, ToShadowInv
  <2>4. KnownEvents
      BY <2>2 DEF KnownEvents, EventInv
  <2> QED BY <2>1, <2>3, <2>4 DEF Exchange
<1> QED BY <1>1, Invariance, PTL

\* Every thread Shadow still counts on learns of the death of the process,
\* unless an exchange inside a handler has read the notice, and the process
\* is reaped once none of its threads is left.
THEOREM DeathIsNoticed == Spec => []DeathNoticed
<1>1. IInv => DeathNoticed
  <2> SUFFICES ASSUME IInv PROVE DeathNoticed
      OBVIOUS
  <2> USE DEF IInv
  <2>1. StopNotLost
      BY DEF StopNotLost, ToShadowInv, EventInv
  <2>2. EveryThreadWatched
      BY DEF EveryThreadWatched, TableInv, WatchInv, TypeOK
  <2> QED BY <2>1, <2>2 DEF DeathNoticed
<1> QED BY <1>1, Invariance, PTL
=============================================================================
